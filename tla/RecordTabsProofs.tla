--------------------------- MODULE RecordTabsProofs ---------------------------
(***************************************************************************)
(* Proofs about what the tabs show of the records, for any number of       *)
(* requests and tabs on any pages, whatever fails and in whatever order    *)
(* the lists that a tab asked for arrive.                                  *)
(***************************************************************************)
EXTENDS RecordSyncProofs

-----------------------------------------------------------------------------
(* The inductive invariant.                                                *)

\* The operations that change a list.
Changes(l) ==
  CASE l = "projects" -> ProjectRequests
    [] l = "conversations" -> {"create", "delete"}
    [] l = "todos" -> TodoRequests
    [] l = "tasks" -> TaskRequests
    [] OTHER -> SettingsRequests

\* What is in a list, and what is announced about it, is an operation on it.
Sorted ==
  /\ \A l \in Lists : \A q \in ToSet(log[l]) : req[q].op \in Changes(l)
  /\ \A u \in stored, s \in Component :
       u.type \in Announces(s) => req[u.req].op \in Changes(ListOf(s))

ShapeOf(v) ==
  /\ DOMAIN v = {"upto", "newest", "own", "stale"}
  /\ v.upto \in Nat /\ v.newest \in Nat

FetchShape(f) ==
  /\ DOMAIN f = {"list", "cause", "copy", "read", "upto"}
  /\ f.list \in Lists /\ f.upto \in Nat /\ f.upto <= Len(log[f.list])

\* A component of a page asks for its own list; the theme asks for none.
Typed(t) ==
  /\ cursor[t] <= counter
  /\ \A n \in heard[t] : n \in 1 .. cursor[t] /\ \E u \in stored : u.num = n
  /\ \A s \in Component : ShapeOf(view[t][s]) /\ view[t][s].upto <= Len(log[ListOf(s)])
  /\ \A f \in fetches[t] : FetchShape(f) /\ f.list \in Components[page[t]]

TabTypes ==
  /\ page \in [Tab -> DOMAIN Components] /\ cursor \in [Tab -> Nat]
  /\ heard \in [Tab -> SUBSET Nat]
  /\ DOMAIN view = Tab /\ DOMAIN fetches = Tab
  /\ \A t \in Tab : DOMAIN view[t] = Component /\ Typed(t)

\* Tasks are changed from the page that lists them.
OnChat == \A q \in Request :
  req[q].op \in TaskRequests /\ req[q].tab \in Tab => page[req[q].tab] = "chat"

\* View v has seen x, the i-th change of its list, and shows it unless it is stale.
Sees(v, i, x) == i <= v.newest /\ (v.stale = TRUE \/ i <= v.upto \/ x \in v.own)

\* Update u is about the i-th change of its list, and maybe about those before.
Concerns(u, i) ==
  IF u.type = "project.deleted" THEN Position(u.req) = i ELSE i <= Position(u.req)

SeenIn(t, s, u) == \A i \in DOMAIN log[ListOf(s)] :
  Concerns(u, i) => Sees(view[t][s], i, log[ListOf(s)][i])

\* A list is on its way that has what u is about.
Awaited(t, s, u) == \E f \in fetches[t] :
  f.list = s /\ f.cause = u.num /\ (f.read = FALSE \/ Position(u.req) <= f.upto)

HeardIsSeen ==
  \A t \in Tab : \A s \in Components[page[t]], u \in stored :
    u.num \in heard[t] /\ u.type \in Announces(s) => SeenIn(t, s, u) \/ Awaited(t, s, u)

TabInv == Inv /\ Sorted /\ TabTypes /\ OnChat /\ HeardIsSeen

-----------------------------------------------------------------------------
(* Positions.                                                              *)

\* The same for any lists, so that it can be said of those after a step.
PlaceIn(lg, q) ==
  IF \E l \in Lists : \E i \in DOMAIN lg[l] : lg[l][i] = q
  THEN LET l == CHOOSE l \in Lists : q \in ToSet(lg[l])
       IN  CHOOSE i \in DOMAIN lg[l] : lg[l][i] = q
  ELSE 0

Apart(lg) ==
  /\ \A l \in Lists : lg[l] \in Seq(Request) /\ IsInjective(lg[l])
  /\ \A l, m \in Lists : l # m => ToSet(lg[l]) \cap ToSet(lg[m]) = {}

LEMMA PlaceIs ==
  ASSUME NEW lg, Apart(lg), NEW l \in Lists, NEW i \in DOMAIN lg[l]
  PROVE  PlaceIn(lg, lg[l][i]) = i
  <1> DEFINE q == lg[l][i]
  <1>1. q \in ToSet(lg[l])
    BY DEF ToSet
  <1>2. \A m \in Lists : q \in ToSet(lg[m]) => m = l
    BY <1>1 DEF Apart
  <1>3. (CHOOSE m \in Lists : q \in ToSet(lg[m])) = l
    BY <1>1, <1>2
  <1>4. \A j \in DOMAIN lg[l] : lg[l][j] = q => j = i
    BY DEF Apart, IsInjective
  <1>5. (CHOOSE j \in DOMAIN lg[l] : lg[l][j] = q) = i
    BY <1>4
  <1>6. \E m \in Lists : \E j \in DOMAIN lg[m] : lg[m][j] = q
    OBVIOUS
  <1> QED
    BY <1>3, <1>5, <1>6 DEF PlaceIn

LEMMA PlaceCases ==
  ASSUME NEW lg, Apart(lg), NEW q
  PROVE  \/ \E l \in Lists : \E i \in DOMAIN lg[l] : lg[l][i] = q /\ PlaceIn(lg, q) = i
         \/ PlaceIn(lg, q) = 0 /\ \A l \in Lists : q \notin ToSet(lg[l])
  <1>1. CASE \E l \in Lists : \E i \in DOMAIN lg[l] : lg[l][i] = q
    <2>1. PICK l \in Lists : \E i \in DOMAIN lg[l] : lg[l][i] = q
      BY <1>1
    <2>2. PICK i \in DOMAIN lg[l] : lg[l][i] = q
      BY <2>1
    <2>3. PlaceIn(lg, q) = i
      BY <2>2, PlaceIs
    <2> QED
      BY <2>2, <2>3
  <1>2. CASE \A l \in Lists : q \notin ToSet(lg[l])
    BY <1>2 DEF PlaceIn, ToSet
  <1> QED
    BY <1>1, <1>2 DEF ToSet

LEMMA PositionCases ==
  ASSUME LogOK, NEW q
  PROVE  \/ \E l \in Lists : \E i \in DOMAIN log[l] : log[l][i] = q /\ Position(q) = i
         \/ Position(q) = 0 /\ \A l \in Lists : q \notin ToSet(log[l])
  <1>1. Apart(log) /\ Position(q) = PlaceIn(log, q)
    BY DEF LogOK, Apart, Position, PlaceIn
  <1> QED
    BY <1>1, PlaceCases

LEMMA PositionIsNat ==
  ASSUME LogOK, NEW q
  PROVE  Position(q) \in Nat
  <1>1. \A l \in Lists : \A i \in DOMAIN log[l] : i \in Nat
    BY DEF LogOK
  <1> QED
    BY <1>1, PositionCases

\* An operation on a list has a place in it, or in none.
LEMMA PositionInList ==
  ASSUME Inv, Sorted, NEW q, NEW s \in Component, req[q].op \in Changes(ListOf(s))
  PROVE  Position(q) \in 0 .. Len(log[ListOf(s)])
  <1>1. LogOK /\ ListOf(s) \in Lists
    BY DEF Inv, Types, Component, Components, ListOf, Lists
  <1>2. \A l, m \in Lists : l # m => Changes(l) \cap Changes(m) = {}
    BY DEF Lists, Changes, ProjectRequests, TodoRequests, TaskRequests, SettingsRequests
  <1>3. \A l \in Lists : q \in ToSet(log[l]) => l = ListOf(s)
    BY <1>1, <1>2 DEF Sorted
  <1>4. \A l \in Lists : DOMAIN log[l] = 1 .. Len(log[l]) /\ Len(log[l]) \in Nat
    BY <1>1 DEF LogOK
  <1>5. CASE Position(q) = 0
    BY <1>1, <1>4, <1>5
  <1>6. ASSUME NEW l \in Lists, NEW i \in DOMAIN log[l], log[l][i] = q, Position(q) = i
        PROVE  Position(q) \in 0 .. Len(log[ListOf(s)])
    <2>1. l = ListOf(s)
      BY <1>3, <1>6 DEF ToSet
    <2> QED
      BY <1>4, <1>6, <2>1
  <1> QED
    BY <1>1, <1>5, <1>6, PositionCases

-----------------------------------------------------------------------------
(* Views.                                                                  *)

\* A view read again, and one that got an entry.
Moves(v, w) ==
  /\ ShapeOf(w) /\ v.newest <= w.newest
  /\ \/ w.stale = TRUE \/ v.newest <= w.upto
     \/ w.upto = v.upto /\ v.own \subseteq w.own /\ (v.stale = TRUE => w.stale = TRUE)

LEMMA MovesKeep ==
  ASSUME NEW v, NEW w, ShapeOf(v), Moves(v, w), NEW i \in Nat, NEW x, Sees(v, i, x)
  PROVE  Sees(w, i, x)
  <1>1. i <= v.newest /\ v.newest <= w.newest /\ v.newest \in Nat /\ w.newest \in Nat
        /\ v.upto \in Nat /\ w.upto \in Nat
    BY DEF Moves, ShapeOf, Sees
  <1>2. i <= w.newest
    BY <1>1
  <1>3. CASE w.stale = TRUE
    BY <1>2, <1>3 DEF Sees
  <1>4. CASE v.newest <= w.upto
    BY <1>1, <1>2, <1>4 DEF Sees
  <1>5. CASE w.upto = v.upto /\ v.own \subseteq w.own /\ (v.stale = TRUE => w.stale = TRUE)
    BY <1>2, <1>5 DEF Sees
  <1> QED
    BY <1>3, <1>4, <1>5 DEF Moves

LEMMA MaxOfTwo ==
  ASSUME NEW a \in Nat, NEW b \in Nat
  PROVE  Max({a, b}) = IF a <= b THEN b ELSE a
  <1>1. PICK m : m = Max({a, b})
    OBVIOUS
  <1>2. m = CHOOSE x \in {a, b} : \A y \in {a, b} : x >= y
    BY <1>1 DEF Max
  <1>3. \E x \in {a, b} : \A y \in {a, b} : x >= y
    <2>1. CASE a <= b
      BY <2>1
    <2>2. CASE ~(a <= b)
      BY <2>2
    <2> QED
      BY <2>1, <2>2
  <1>4. m \in {a, b} /\ \A y \in {a, b} : m >= y
    BY <1>2, <1>3
  <1> QED
    BY <1>1, <1>4

LEMMA ShowsMoves ==
  ASSUME NEW v, ShapeOf(v), NEW n \in Nat, NEW w, w = Shows(v, n)
  PROVE  /\ ShapeOf(w) /\ Moves(v, w) /\ w.upto = n
         /\ \A x : \A i \in Nat : i <= n => Sees(w, i, x)
  <1>1. v.newest \in Nat
    BY DEF ShapeOf
  <1>2. PICK m \in Nat : m = Max({n, v.newest}) /\ n <= m /\ v.newest <= m
    BY <1>1, MaxOfTwo
  <1>3. PICK old : old = (n < v.newest)
    OBVIOUS
  <1>4. w = [upto |-> n, newest |-> m, own |-> {}, stale |-> old]
    BY <1>2, <1>3 DEF Shows
  <1>5. /\ DOMAIN w = {"upto", "newest", "own", "stale"}
        /\ w.upto = n /\ w.newest = m /\ w.stale = old
    BY <1>4
  <1>6. ShapeOf(w)
    BY <1>5 DEF ShapeOf
  <1>7. w.stale = TRUE \/ v.newest <= w.upto
    <2>1. CASE n < v.newest
      <3>1. old = TRUE
        BY <1>3, <2>1, Zenon
      <3> QED
        BY <1>5, <3>1
    <2>2. CASE ~(n < v.newest)
      BY <1>1, <1>5, <2>2
    <2> QED
      BY <2>1, <2>2
  <1> QED
    BY <1>1, <1>2, <1>5, <1>6, <1>7 DEF Moves, Sees

LEMMA AddsMoves ==
  ASSUME LogOK, NEW v, ShapeOf(v), NEW q, NEW w, w = Adds(v, q)
  PROVE  /\ ShapeOf(w) /\ Moves(v, w) /\ w.upto = v.upto /\ w.stale = v.stale
         /\ Sees(w, Position(q), q)
  <1>1. v.newest \in Nat /\ v.upto \in Nat /\ Position(q) \in Nat
    BY PositionIsNat DEF ShapeOf
  <1>2. PICK m \in Nat : m = Max({Position(q), v.newest}) /\ Position(q) <= m /\ v.newest <= m
    BY <1>1, MaxOfTwo
  <1>3. w = [v EXCEPT !.own = v.own \cup {q}, !.newest = m]
    BY <1>2 DEF Adds
  <1>4. /\ DOMAIN w = {"upto", "newest", "own", "stale"}
        /\ w.upto = v.upto /\ w.newest = m /\ w.stale = v.stale /\ w.own = v.own \cup {q}
    BY <1>3 DEF ShapeOf
  <1> QED
    BY <1>1, <1>2, <1>4 DEF ShapeOf, Moves, Sees

-----------------------------------------------------------------------------
(* What a step of a request does to the lists and the updates.             *)

\* The operation of a request changes while it is in no list and announced none.
OpStep(q) ==
  /\ \A r \in Request \ {q} : req'[r].op = req[r].op /\ req'[r].tab = req[r].tab
  /\ \/ req'[q].op = req[q].op /\ req'[q].tab = req[q].tab
     \/ /\ req[q].op \in {"none", "rename"}
        /\ req'[q].op \in TaskRequests /\ req'[q].tab \in Tab => page[req'[q].tab] = "chat"

LogStep(q) ==
  \/ UNCHANGED log
  \/ /\ Untouched(q)
     /\ \E l \in Lists : /\ req[q].op \in Changes(l)
                         /\ log' = [log EXCEPT ![l] = Append(log[l], q)]

StoredStep(q) ==
  /\ stored \subseteq stored'
  /\ \A u \in New : /\ u.req = q
                    /\ \A s \in Component :
                         u.type \in Announces(s) => req[q].op \in Changes(ListOf(s))

LEMMA GoesOps ==
  ASSUME Types, NEW q \in Request, NEW l, Goes(q, l)
  PROVE  OpStep(q)
  <1>1. PICK s : s = [req[q] EXCEPT !.at = l] /\ req' = [req EXCEPT ![q] = s]
    BY DEF Goes
  <1>2. req[q] \in ReqType /\ req \in [Request -> ReqType]
    BY DEF Types
  <1>3. s.op = req[q].op /\ s.tab = req[q].tab
    BY <1>1, <1>2 DEF ReqType
  <1> QED
    BY <1>1, <1>2, <1>3 DEF OpStep

LEMMA QuietLists ==
  ASSUME NEW q, UNCHANGED <<stored, log>>
  PROVE  LogStep(q) /\ StoredStep(q)
  BY DEF LogStep, StoredStep, New

LEMMA BeginOps ==
  ASSUME Inv, TabTypes, NEW q \in Request, Begin(q)
  PROVE  OpStep(q)
  <1>1. /\ req \in [Request -> ReqType] /\ Shape(req[q]) /\ req[q].at = "no"
    BY DEF Inv, Types, Control, Begin
  <1>2. req[q].op = "none"
    BY <1>1 DEF Shape
  <1>3. PICK kind, t, op, at, s :
          /\ kind \in Kinds /\ t \in Tab \cup {Other, Agent} /\ kind \in Offers(t)
          /\ op = FirstOp(kind)
          /\ s = [NoRequest EXCEPT !.kind = kind, !.op = op, !.tab = t, !.at = at]
          /\ req' = [req EXCEPT ![q] = s]
    BY DEF Begin
  <1>4. s.op = op /\ s.tab = t
    BY <1>3 DEF NoRequest
  <1>5. req'[q] = s /\ \A r \in Request \ {q} : req'[r] = req[r]
    BY <1>1, <1>3
  <1>6. op \in TaskRequests => kind \in TaskRequests
    BY <1>3 DEF FirstOp, TaskRequests
  <1>7. t \in Tab /\ kind \in TaskRequests => page[t] = "chat"
    <2> SUFFICES ASSUME t \in Tab, kind \in TaskRequests PROVE page[t] = "chat"
      OBVIOUS
    <2>1. kind \in OnPage[page[t]] /\ page[t] \in DOMAIN Components
      <3>1. t # Other /\ t # Agent
        BY RecordConstants
      <3>2. Offers(t) = OnPage[page[t]]
        BY <3>1 DEF Offers
      <3> QED
        BY <1>3, <3>2 DEF TabTypes
    <2>2. page[t] \in {"home", "chat", "settings"}
      BY <2>1 DEF Components
    <2>3. kind \notin OnPage.home /\ kind \notin OnPage.settings
      BY DEF OnPage, TaskRequests
    <2> QED
      BY <2>1, <2>2, <2>3
  <1> QED
    BY <1>2, <1>4, <1>5, <1>6, <1>7 DEF OpStep

LEMMA LocalOps ==
  ASSUME Inv, NEW q \in Request, Verify(q) \/ Number(q) \/ NumberSync(q) \/ PatchMode(q)
  PROVE  OpStep(q)
  <1>1. req \in [Request -> ReqType] /\ req[q] \in ReqType
    BY DEF Inv, Types
  <1>2. CASE \E l : Goes(q, l)
    BY <1>2, GoesOps DEF Inv
  <1>3. ASSUME NEW s, req' = [req EXCEPT ![q] = s], s.tab = req[q].tab,
               s.op = req[q].op \/ (req[q].op = "rename" /\ s.op = "mode")
        PROVE  OpStep(q)
    BY <1>1, <1>3 DEF OpStep, TaskRequests
  <1>4. CASE Verify(q) /\ ~\E l : Goes(q, l)
    <2>1. PICK at, title, s : /\ s = [req[q] EXCEPT !.at = at, !.title = title]
                              /\ req' = [req EXCEPT ![q] = s]
      BY <1>4 DEF Verify
    <2>2. s.tab = req[q].tab /\ s.op = req[q].op
      BY <1>1, <2>1 DEF ReqType
    <2> QED
      BY <1>3, <2>1, <2>2
  <1>5. CASE Number(q) \/ NumberSync(q)
    <2>1. PICK at, n, s : /\ s = [req[q] EXCEPT !.num = n, !.at = at]
                          /\ req' = [req EXCEPT ![q] = s]
      BY <1>5 DEF Number, NumberSync
    <2>2. s.tab = req[q].tab /\ s.op = req[q].op
      BY <1>1, <2>1 DEF ReqType
    <2> QED
      BY <1>3, <2>1, <2>2
  <1>6. CASE PatchMode(q)
    <2>1. PICK s : /\ s = [req[q] EXCEPT !.op = "mode", !.at = "verify"]
                   /\ req' = [req EXCEPT ![q] = s]
      BY <1>6 DEF PatchMode
    <2>2. s.tab = req[q].tab /\ s.op = "mode" /\ req[q].op = "rename"
      BY <1>1, <1>6, <2>1 DEF ReqType, PatchMode, HasMore
    <2> QED
      BY <1>3, <2>1, <2>2
  <1> QED
    BY <1>2, <1>4, <1>5, <1>6

\* Requests whose operations are not on a list announce no change of one.
LEMMA UpdateTypes ==
  ASSUME NEW s \in Component, NEW type, type \in Announces(s)
  PROVE  /\ type \notin {"conversation.updated", "conversation.archived"}
         /\ type \in {"conversation.created", "conversation.deleted"} =>
              Changes(ListOf(s)) = {"create", "delete"}
         /\ type \in {"project.created", "project.deleted"} => Changes(ListOf(s)) = ProjectRequests
         /\ type = "todo.sync" => Changes(ListOf(s)) = TodoRequests
         /\ type = "cron_task.sync" => Changes(ListOf(s)) = TaskRequests
         /\ type = "settings.changed" => Changes(ListOf(s)) = SettingsRequests
  <1>1. s \in {"projects", "conversations", "todos", "tasks", "settings", "theme"}
    BY DEF Component, Components
  <1>2. CASE s = "projects"
    BY <1>2 DEF Announces, ListOf, Changes
  <1>3. CASE s = "conversations"
    BY <1>3 DEF Announces, ListOf, Changes
  <1>4. CASE s = "todos"
    BY <1>4 DEF Announces, ListOf, Changes
  <1>5. CASE s = "tasks"
    BY <1>5 DEF Announces, ListOf, Changes
  <1>6. CASE s = "settings"
    BY <1>6 DEF Announces, ListOf, Changes
  <1>7. CASE s = "theme"
    BY <1>7 DEF Announces, ListOf, Changes
  <1> QED
    BY <1>1, <1>2, <1>3, <1>4, <1>5, <1>6, <1>7

LEMMA OneStored ==
  ASSUME NEW q \in Request, NEW type, NEW says, Stores(q, type, says),
         \A s \in Component : type \in Announces(s) => req[q].op \in Changes(ListOf(s))
  PROVE  StoredStep(q)
  <1>1. PICK u : /\ u = [num |-> req[q].num, req |-> q, type |-> type, says |-> says]
                 /\ stored' = stored \cup {u}
    BY DEF Stores, Update
  <1>2. u.req = q /\ u.type = type
    BY <1>1
  <1> QED
    BY <1>1, <1>2 DEF StoredStep, New

LEMMA AppendStep ==
  ASSUME Inv, NEW q \in Request, NEW l \in Lists, log' = [log EXCEPT ![l] = Append(log[l], q)],
         req[q].at \in Early, req[q].op \in Changes(l)
  PROVE  LogStep(q)
  <1>1. "mode" \notin Changes(l)
    BY DEF Changes, Lists, ProjectRequests, TodoRequests, TaskRequests, SettingsRequests
  <1>2. Untouched(q)
    BY <1>1 DEF Inv, Clean, Second
  <1> QED
    BY <1>2 DEF LogStep

LEMMA ListCommit ==
  ASSUME Inv, NEW q \in Request, NEW l \in Lists, NEW type, NEW says, Stores(q, type, says),
         Goes(q, "answer"), req[q].at = "commit", req[q].op \in Changes(l),
         UNCHANGED counter, log' = [log EXCEPT ![l] = Append(log[l], q)],
         \A s \in Component : type \in Announces(s) => Changes(ListOf(s)) = Changes(l)
  PROVE  OpStep(q) /\ LogStep(q) /\ StoredStep(q) /\ counter <= counter'
  <1>1. OpStep(q) /\ counter <= counter'
    BY GoesOps DEF Inv, Types
  <1>2. LogStep(q)
    BY AppendStep DEF Early
  <1>3. StoredStep(q)
    BY OneStored
  <1> QED
    BY <1>1, <1>2, <1>3

LEMMA CommitLists ==
  ASSUME Inv, NEW q \in Request, Commit(q) \/ StoreSync(q)
  PROVE  OpStep(q) /\ LogStep(q) /\ StoredStep(q) /\ counter <= counter'
  <1>1. Shape(req[q]) /\ counter \in Nat /\ "commit" \in Early
        /\ {"conversations", "projects", "settings"} \subseteq Lists
    BY DEF Inv, Types, Control, Early, Lists
  <1>2. /\ Changes("projects") = ProjectRequests /\ Changes("conversations") = {"create", "delete"}
        /\ Changes("settings") = SettingsRequests
    BY DEF Changes
  <1>3. CASE \E l : Goes(q, l) /\ UNCHANGED <<counter, stored, log>>
    BY <1>1, <1>3, GoesOps, QuietLists DEF Inv
  <1>4. CASE CreateConversation(q) /\ there.project
    <2>1. /\ req[q].op = "create" /\ req[q].at = "commit" /\ Goes(q, "answer")
          /\ UNCHANGED counter /\ Stores(q, "conversation.created", Nothing)
          /\ log' = [log EXCEPT !["conversations"] = Append(log["conversations"], q)]
      BY <1>4 DEF CreateConversation, At
    <2>3. \A s \in Component :
            "conversation.created" \in Announces(s) => Changes(ListOf(s)) = Changes("conversations")
      BY <1>2, UpdateTypes
    <2> QED
      BY <1>1, <1>2, <2>1, <2>3, ListCommit
  <1>5. CASE DeleteConversation(q) /\ there.conversation
    <2>1. /\ req[q].op = "delete" /\ req[q].at = "commit" /\ Goes(q, "answer")
          /\ UNCHANGED counter /\ Stores(q, "conversation.deleted", Nothing)
          /\ log' = [log EXCEPT !["conversations"] = Append(log["conversations"], q)]
      BY <1>5 DEF DeleteConversation, At
    <2>3. \A s \in Component :
            "conversation.deleted" \in Announces(s) => Changes(ListOf(s)) = Changes("conversations")
      BY <1>2, UpdateTypes
    <2> QED
      BY <1>1, <1>2, <2>1, <2>3, ListCommit
  <1>6. CASE CreateProjectFromTemplate(q)
    <2>1. /\ req[q].op = "addProject" /\ req[q].at = "commit" /\ Goes(q, "answer")
          /\ UNCHANGED counter /\ Stores(q, "project.created", Nothing)
          /\ log' = [log EXCEPT !["projects"] = Append(log["projects"], q)]
      BY <1>6 DEF CreateProjectFromTemplate, At
    <2>2. req[q].op \in ProjectRequests
      BY <2>1 DEF ProjectRequests
    <2>3. \A s \in Component :
            "project.created" \in Announces(s) => Changes(ListOf(s)) = Changes("projects")
      BY <1>2, UpdateTypes
    <2> QED
      BY <1>1, <1>2, <2>1, <2>2, <2>3, ListCommit
  <1>7. CASE DeleteProject(q) /\ there.project
    <2>1. /\ req[q].op = "deleteProject" /\ req[q].at = "commit" /\ Goes(q, "answer")
          /\ UNCHANGED counter /\ Stores(q, "project.deleted", Nothing)
          /\ log' = [log EXCEPT !["projects"] = Append(log["projects"], q)]
      BY <1>7 DEF DeleteProject, At
    <2>2. req[q].op \in ProjectRequests
      BY <2>1 DEF ProjectRequests
    <2>3. \A s \in Component :
            "project.deleted" \in Announces(s) => Changes(ListOf(s)) = Changes("projects")
      BY <1>2, UpdateTypes
    <2> QED
      BY <1>1, <1>2, <2>1, <2>2, <2>3, ListCommit
  <1>8. CASE UpdateSettings(q)
    <2>1. /\ req[q].op \in SettingsRequests /\ req[q].at = "commit" /\ Goes(q, "answer")
          /\ UNCHANGED counter /\ \E says : Stores(q, "settings.changed", says)
          /\ log' = [log EXCEPT !["settings"] = Append(log["settings"], q)]
      BY <1>8 DEF UpdateSettings
    <2>3. \A s \in Component :
            "settings.changed" \in Announces(s) => Changes(ListOf(s)) = Changes("settings")
      BY <1>2, UpdateTypes
    <2> QED
      BY <1>1, <1>2, <2>1, <2>3, ListCommit
  <1>9. CASE RenameConversation(q) \/ UpdateMode(q)
    <2>1. /\ Goes(q, "answer") /\ UNCHANGED <<counter, log>>
          /\ \E says : Stores(q, "conversation.updated", says)
      BY <1>9 DEF RenameConversation, UpdateMode
    <2>2. LogStep(q)
      BY <2>1 DEF LogStep
    <2> QED
      BY <1>1, <2>1, <2>2, GoesOps, OneStored, UpdateTypes DEF Inv
  <1>10. CASE UpdateStatus(q)
    <2>1. PICK u, v, says, none, l :
            /\ Goes(q, l) /\ UNCHANGED log
            /\ u = [num |-> req[q].num, req |-> q, type |-> "conversation.updated", says |-> says]
            /\ v = [num |-> counter + 1, req |-> q, type |-> "conversation.archived", says |-> none]
            /\ \/ counter' = counter + 1 /\ stored' = stored \cup {u, v}
               \/ counter' = counter /\ stored' = stored \cup {u}
      BY <1>10 DEF UpdateStatus, Update
    <2>2. u.req = q /\ u.type = "conversation.updated" /\ v.req = q /\ v.type = "conversation.archived"
      BY <2>1
    <2>3. StoredStep(q)
      BY <2>1, <2>2, UpdateTypes DEF StoredStep, New
    <2> QED
      BY <1>1, <2>1, <2>3, GoesOps DEF LogStep, Inv
  <1>11. CASE StoreSync(q)
    <2>1. /\ req[q].at = "sync" /\ Goes(q, "answer") /\ UNCHANGED <<counter, log>>
          /\ \/ req[q].op \in TaskRequests /\ Stores(q, "cron_task.sync", Nothing)
             \/ req[q].op \notin TaskRequests /\ Stores(q, "todo.sync", Nothing)
      BY <1>11 DEF StoreSync, database
    <2>2. req[q].op \in TodoRequests \/ req[q].op \in TaskRequests
      BY <1>1, <2>1 DEF Shape, Synced
    <2>4. StoredStep(q)
      BY <2>1, <2>2, OneStored, UpdateTypes
    <2> QED
      BY <1>1, <2>1, <2>4, GoesOps DEF LogStep, Inv
  <1>12. CASE \/ CreateConversation(q) /\ ~there.project
              \/ DeleteConversation(q) /\ ~there.conversation
              \/ DeleteProject(q) /\ ~there.project
    BY <1>3, <1>12 DEF CreateConversation, DeleteConversation, DeleteProject
  <1> QED
    BY <1>4, <1>5, <1>6, <1>7, <1>8, <1>9, <1>10, <1>11, <1>12 DEF Commit

LEMMA WriteLists ==
  ASSUME Inv, NEW q \in Request, Write(q)
  PROVE  OpStep(q) /\ LogStep(q) /\ StoredStep(q) /\ counter <= counter'
  <1>1. counter \in Nat /\ "write" \in Early /\ {"todos", "tasks"} \subseteq Lists
    BY DEF Inv, Types, Early, Lists
  <1>2. UNCHANGED <<counter, stored>> /\ \E l : Goes(q, l)
    BY DEF Write, CreateTodo, UpdateTodo, ReloadTodo, DeleteTodo, CreateTask,
         RegisterTask, RollBackTask, CancelTask, database
  <1>3. CASE UNCHANGED log
    BY <1>1, <1>2, <1>3, GoesOps, QuietLists DEF Inv
  <1>4. CASE log' # log
    <2>1. \/ /\ req[q].at = "write" /\ req[q].op \in {"addTodo", "checkTodo", "deleteTodo"}
             /\ log' = [log EXCEPT !["todos"] = Append(log["todos"], q)]
          \/ /\ req[q].at = "write" /\ req[q].op \in {"addTask", "cancelTask"}
             /\ log' = [log EXCEPT !["tasks"] = Append(log["tasks"], q)]
      BY <1>4 DEF Write, CreateTodo, UpdateTodo, ReloadTodo, DeleteTodo, CreateTask,
         RegisterTask, RollBackTask, CancelTask, At, Writes,
                  database
    <2>2. Changes("todos") = TodoRequests /\ Changes("tasks") = TaskRequests
      BY DEF Changes
    <2>3. LogStep(q)
      BY <1>1, <2>1, <2>2, AppendStep DEF TodoRequests, TaskRequests
    <2> QED
      BY <1>1, <1>2, <2>3, GoesOps DEF StoredStep, New, Inv
  <1> QED
    BY <1>3, <1>4

LEMMA RequestLists ==
  ASSUME Inv, TabTypes, NEW q \in Request, Does(q)
  PROVE  /\ OpStep(q) /\ LogStep(q) /\ StoredStep(q) /\ counter <= counter'
         /\ UNCHANGED tabs \/ (Answer(q) /\ UNCHANGED <<counter, stored, log>>)
  <1>1. counter \in Nat
    BY DEF Inv, Types
  <1>2. UNCHANGED tabs \/ (Answer(q) /\ UNCHANGED <<counter, stored, log>>)
    <2>1. CASE Commit(q)
      BY <2>1 DEF Commit, CreateConversation, RenameConversation, UpdateMode, UpdateStatus,
         DeleteConversation, CreateProjectFromTemplate, DeleteProject, UpdateSettings
    <2>2. CASE Write(q)
      BY <2>2 DEF Write, CreateTodo, UpdateTodo, ReloadTodo, DeleteTodo, CreateTask,
         RegisterTask, RollBackTask, CancelTask
    <2>3. CASE Answer(q)
      BY <2>3 DEF Answer, database
    <2>4. CASE ~Commit(q) /\ ~Write(q) /\ ~Answer(q)
      BY <2>4 DEF Does, Begin, Invalid, Verify, Number, NumberFails, CommitFails, PushArchived,
         PatchMode, WriteFails, NumberSync, StoreSync, SyncFails, Fails
    <2> QED
      BY <2>1, <2>2, <2>3, <2>4
  <1>3. CASE Commit(q) \/ StoreSync(q)
    BY <1>2, <1>3, CommitLists
  <1>4. CASE Write(q)
    BY <1>2, <1>4, WriteLists
  <1>5. CASE ~Commit(q) /\ ~StoreSync(q) /\ ~Write(q)
    <2>1. UNCHANGED <<stored, log>> /\ (counter' = counter \/ counter' = counter + 1)
      BY <1>5 DEF Does, Begin, Invalid, Verify, Number, NumberFails, CommitFails,
         PushArchived, PatchMode, WriteFails, NumberSync, SyncFails, Answer, Fails, database
    <2>2. \/ Begin(q) \/ Verify(q) \/ Number(q) \/ NumberSync(q) \/ PatchMode(q)
          \/ \E l : Goes(q, l)
      BY <1>5 DEF Does, Invalid, NumberFails, CommitFails, PushArchived, WriteFails, SyncFails,
         Answer, Fails
    <2>3. OpStep(q)
      BY <2>2, BeginOps, LocalOps, GoesOps DEF Inv
    <2> QED
      BY <1>1, <1>2, <2>1, <2>3, QuietLists
  <1> QED
    BY <1>3, <1>4, <1>5

-----------------------------------------------------------------------------
(* Steps of the requests, seen from the tabs.                              *)

LEMMA LogLasts ==
  ASSUME Inv, NEW q \in Request, LogStep(q)
  PROVE  \A l \in Lists : /\ Len(log[l]) \in Nat /\ Len(log'[l]) \in Nat
                          /\ DOMAIN log[l] = 1 .. Len(log[l])
                          /\ DOMAIN log'[l] = 1 .. Len(log'[l])
                          /\ Len(log[l]) <= Len(log'[l])
                          /\ \A i \in 1 .. Len(log[l]) : log'[l][i] = log[l][i]
  <1>1. log \in [Lists -> Seq(Request)]
    BY DEF Inv, Types
  <1>2. CASE UNCHANGED log
    BY <1>1, <1>2
  <1>3. ASSUME NEW k \in Lists, log' = [log EXCEPT ![k] = Append(log[k], q)], NEW l \in Lists
        PROVE  /\ Len(log[l]) \in Nat /\ Len(log'[l]) \in Nat
               /\ DOMAIN log[l] = 1 .. Len(log[l])
               /\ DOMAIN log'[l] = 1 .. Len(log'[l])
               /\ Len(log[l]) <= Len(log'[l])
               /\ \A i \in 1 .. Len(log[l]) : log'[l][i] = log[l][i]
    <2>1. CASE l # k
      BY <1>1, <1>3, <2>1
    <2>2. CASE l = k
      <3>1. PICK s \in Seq(Request) : s = log[k]
        BY <1>1
      <3>2. log'[k] = Append(s, q)
        BY <1>1, <1>3, <3>1
      <3>3. /\ Len(Append(s, q)) = Len(s) + 1 /\ Len(s) \in Nat
            /\ DOMAIN Append(s, q) = 1 .. Len(s) + 1 /\ DOMAIN s = 1 .. Len(s)
            /\ \A i \in 1 .. Len(s) : Append(s, q)[i] = s[i]
        OBVIOUS
      <3> QED
        BY <2>2, <3>1, <3>2, <3>3
    <2> QED
      BY <2>1, <2>2
  <1> QED
    BY <1>2, <1>3 DEF LogStep

\* A request keeps its place once it has announced something.
LEMMA PositionLasts ==
  ASSUME Inv, Inv', NEW q \in Request, LogStep(q), LogGrows(q), NEW u \in stored
  PROVE  Position(u.req)' = Position(u.req)
  <1>1. PICK r, lg, ln : r = u.req /\ lg = log /\ ln = log'
    OBVIOUS
  <1>2. Apart(lg) /\ Apart(ln)
    BY <1>1 DEF Inv, Types, LogOK, Apart
  <1>3. Position(r) = PlaceIn(lg, r) /\ Position(r)' = PlaceIn(ln, r)
    BY <1>1 DEF Position, PlaceIn
  <1>4. \A l \in Lists : /\ DOMAIN lg[l] \subseteq DOMAIN ln[l]
                         /\ \A i \in DOMAIN lg[l] : ln[l][i] = lg[l][i]
    BY <1>1, LogLasts
  <1>5. (\A l \in Lists : r \notin ToSet(lg[l])) => \A l \in Lists : r \notin ToSet(ln[l])
    <2>1. CASE UNCHANGED log
      BY <1>1, <2>1
    <2>2. CASE Untouched(q)
      <3>1. r # q
        BY <1>1, <2>2 DEF Untouched
      <3> QED
        BY <1>1, <3>1 DEF LogGrows
    <2> QED
      BY <2>1, <2>2 DEF LogStep
  <1>6. PlaceIn(ln, r) = PlaceIn(lg, r)
    <2>1. CASE PlaceIn(lg, r) = 0 /\ \A l \in Lists : r \notin ToSet(lg[l])
      <3>1. \A l \in Lists : r \notin ToSet(ln[l])
        BY <1>5, <2>1
      <3> QED
        BY <2>1, <3>1 DEF PlaceIn, ToSet
    <2>2. ASSUME NEW l \in Lists, NEW i \in DOMAIN lg[l], lg[l][i] = r, PlaceIn(lg, r) = i
          PROVE  PlaceIn(ln, r) = PlaceIn(lg, r)
      <3>1. i \in DOMAIN ln[l] /\ ln[l][i] = r
        BY <1>4, <2>2
      <3> QED
        BY <1>2, <2>2, <3>1, PlaceIs
    <2> QED
      BY <1>2, <2>1, <2>2, PlaceCases
  <1> QED
    BY <1>1, <1>3, <1>6

LEMMA SortedLasts ==
  ASSUME Inv, Inv', Sorted, NEW q \in Request, OpStep(q), LogStep(q), StoredStep(q), LogGrows(q)
  PROVE  Sorted'
  <1>1. \A l \in Lists : "none" \notin Changes(l) /\ "rename" \notin Changes(l)
    BY DEF Changes, Lists, ProjectRequests, TodoRequests, TaskRequests, SettingsRequests
  <1>2. \A l \in Lists, r \in Request : req[r].op \in Changes(l) => req'[r].op \in Changes(l)
    BY <1>1 DEF OpStep
  <1>3. \A l \in Lists : \A r \in ToSet(log[l]) : r \in Request /\ req[r].op \in Changes(l)
    BY DEF Sorted, Inv, Types, LogOK, ToSet
  <1>4. \A l \in Lists : \A r \in ToSet(log'[l]) : r \in Request /\ req[r].op \in Changes(l)
    <2>1. CASE UNCHANGED log
      BY <1>3, <2>1
    <2>2. ASSUME NEW k \in Lists, req[q].op \in Changes(k),
                 log' = [log EXCEPT ![k] = Append(log[k], q)]
          PROVE  \A l \in Lists : \A r \in ToSet(log'[l]) : r \in Request /\ req[r].op \in Changes(l)
      <3>1. \A l \in Lists \ {k} : log'[l] = log[l]
        BY <2>2 DEF Inv, Types
      <3>2. ToSet(log'[k]) \subseteq ToSet(log[k]) \cup {q}
        BY DEF LogGrows
      <3> QED
        BY <1>3, <2>2, <3>1, <3>2
    <2> QED
      BY <2>1, <2>2 DEF LogStep
  <1>5. \A s \in Component : ListOf(s) \in Lists
    BY DEF Component, Components, ListOf, Lists
  <1>6. \A u \in stored', s \in Component :
          u.type \in Announces(s) => u.req \in Request /\ req[u.req].op \in Changes(ListOf(s))
    BY DEF Sorted, StoredStep, New, Inv, Types, StoredOK
  <1>7. \A u \in stored', s \in Component :
          u.type \in Announces(s) => req'[u.req].op \in Changes(ListOf(s))
    BY <1>2, <1>5, <1>6
  <1>8. \A l \in Lists : \A r \in ToSet(log'[l]) : req'[r].op \in Changes(l)
    BY <1>2, <1>4
  <1> QED
    BY <1>7, <1>8 DEF Sorted

LEMMA OnChatLasts ==
  ASSUME TabTypes, OnChat, NEW q \in Request, OpStep(q), UNCHANGED page
  PROVE  OnChat'
  BY DEF OnChat, OpStep, TaskRequests

\* A request that leaves the tabs alone.
LEMMA AwayKeeps ==
  ASSUME TabInv, Inv', NEW q \in Request, LogStep(q), LogGrows(q), StoredStep(q),
         counter <= counter', UNCHANGED tabs
  PROVE  TabTypes' /\ HeardIsSeen'
  <1>1. /\ counter \in Nat /\ counter' \in Nat
        /\ \A s \in Component : ListOf(s) \in Lists
        /\ \A s \in Component : s # "theme" => ListOf(s) = s
    BY DEF TabInv, Inv, Types, Component, Components, ListOf, Lists
  <1>2. \A l \in Lists : /\ Len(log[l]) \in Nat /\ Len(log'[l]) \in Nat
                         /\ DOMAIN log[l] = 1 .. Len(log[l])
                         /\ DOMAIN log'[l] = 1 .. Len(log'[l])
                         /\ Len(log[l]) <= Len(log'[l])
                         /\ \A i \in 1 .. Len(log[l]) : log'[l][i] = log[l][i]
    BY LogLasts DEF TabInv
  <1>3. UNCHANGED <<page, cursor, heard, view, fetches>>
    BY DEF tabs
  <1>4. TabTypes'
    <2>1. ASSUME NEW t \in Tab PROVE Typed(t)'
      <3>1. Typed(t) /\ cursor[t] \in Nat
        BY DEF TabInv, TabTypes
      <3>2. cursor[t] <= counter'
        BY <1>1, <3>1 DEF Typed
      <3>3. \A n \in heard[t] : n \in 1 .. cursor[t] /\ \E u \in stored' : u.num = n
        BY <3>1 DEF Typed, StoredStep
      <3>4. \A s \in Component : ShapeOf(view[t][s]) /\ view[t][s].upto <= Len(log'[ListOf(s)])
        BY <1>1, <1>2, <3>1 DEF Typed, ShapeOf
      <3>5. \A f \in fetches[t] : FetchShape(f)' /\ f.list \in Components[page[t]]
        BY <1>2, <3>1 DEF Typed, FetchShape
      <3> QED
        BY <1>3, <3>2, <3>3, <3>4, <3>5 DEF Typed, FetchShape
    <2> QED
      BY <1>3, <2>1 DEF TabInv, TabTypes
  <1>5. HeardIsSeen'
    <2> SUFFICES ASSUME NEW t \in Tab, NEW s \in Components[page[t]], NEW u \in stored',
                        u.num \in heard[t], u.type \in Announces(s)
                 PROVE  SeenIn(t, s, u)' \/ Awaited(t, s, u)'
      BY <1>3 DEF HeardIsSeen
    <2>1. s \in Component
      BY DEF Component, TabInv, TabTypes
    <2>2. u \in stored
      <3>1. PICK v \in stored : v.num = u.num
        BY DEF TabInv, TabTypes, Typed
      <3>2. v \in stored'
        BY DEF StoredStep
      <3> QED
        BY <3>1, <3>2 DEF Inv, Types, StoredOK
    <2>3. Position(u.req)' = Position(u.req)
      BY <2>2, PositionLasts DEF TabInv
    <2>4. Position(u.req) \in 0 .. Len(log[ListOf(s)])
      BY <2>1, <2>2, PositionInList DEF TabInv, Sorted
    <2>5. CASE Awaited(t, s, u)
      BY <1>3, <2>3, <2>5 DEF Awaited
    <2>6. CASE SeenIn(t, s, u)
      <3> SUFFICES ASSUME NEW i \in DOMAIN log'[ListOf(s)], Concerns(u, i)'
                   PROVE  Sees(view[t][s], i, log'[ListOf(s)][i])
        BY <1>3 DEF SeenIn, Sees
      <3>1. Concerns(u, i) /\ i <= Position(u.req)
        BY <1>1, <1>2, <2>1, <2>3, <2>4 DEF Concerns
      <3>2. i \in 1 .. Len(log[ListOf(s)])
        BY <1>1, <1>2, <2>1, <2>4, <3>1
      <3>3. log'[ListOf(s)][i] = log[ListOf(s)][i] /\ i \in DOMAIN log[ListOf(s)]
        BY <1>1, <1>2, <2>1, <3>2
      <3> QED
        BY <2>6, <3>1, <3>3 DEF SeenIn
    <2> QED
      BY <2>2, <2>5, <2>6 DEF TabInv, HeardIsSeen
  <1> QED
    BY <1>4, <1>5

-----------------------------------------------------------------------------
(* Steps that change a tab.                                                *)

Steady == UNCHANGED <<counter, stored, log, page>>
OthersSame(t) ==
  \A r \in Tab \ {t} : /\ cursor'[r] = cursor[r] /\ heard'[r] = heard[r]
                       /\ view'[r] = view[r] /\ fetches'[r] = fetches[r]
TabsAre ==
  /\ cursor' \in [Tab -> Nat] /\ heard' \in [Tab -> SUBSET Nat]
  /\ DOMAIN view' = Tab /\ DOMAIN fetches' = Tab

\* The views of tab t go on, with what is asked for and heard in place.
Turns(t) ==
  /\ Steady /\ OthersSame(t) /\ TabsAre /\ DOMAIN view'[t] = Component
  /\ cursor'[t] <= counter
  /\ \A n \in heard'[t] : n \in 1 .. cursor'[t] /\ \E u \in stored : u.num = n
  /\ \A s \in Component : /\ Moves(view[t][s], view'[t][s])
                          /\ view'[t][s].upto <= Len(log[ListOf(s)])
  /\ \A f \in fetches'[t] : FetchShape(f) /\ f.list \in Components[page[t]]
  /\ \A s \in Components[page[t]], u \in stored :
       /\ u.num \in heard'[t] /\ u.type \in Announces(s)
       /\ u.num \in heard[t] => Awaited(t, s, u)
       => SeenIn(t, s, u)' \/ Awaited(t, s, u)'

LEMMA TurnsKeep ==
  ASSUME TabInv, NEW t \in Tab, Turns(t)
  PROVE  TabTypes' /\ HeardIsSeen'
  <1>1. /\ counter' = counter /\ stored' = stored /\ log' = log /\ page' = page
        /\ OthersSame(t) /\ TabsAre
    BY DEF Turns, Steady
  <1>2. TabTypes'
    <2>1. Typed(t)'
      BY <1>1 DEF Turns, Typed, FetchShape, Moves
    <2>2. \A r \in Tab \ {t} : Typed(r)' /\ DOMAIN view'[r] = Component
      BY <1>1 DEF TabInv, TabTypes, OthersSame, Typed, FetchShape
    <2>3. DOMAIN view'[t] = Component
      BY DEF Turns
    <2> QED
      BY <1>1, <2>1, <2>2, <2>3 DEF TabsAre, TabInv, TabTypes
  <1>3. HeardIsSeen'
    <2> SUFFICES ASSUME NEW r \in Tab, NEW s \in Components[page[r]], NEW u \in stored,
                        u.num \in heard'[r], u.type \in Announces(s)
                 PROVE  SeenIn(r, s, u)' \/ Awaited(r, s, u)'
      BY <1>1 DEF HeardIsSeen
    <2>1. s \in Component
      BY DEF Component, TabInv, TabTypes
    <2>2. Position(u.req)' = Position(u.req)
      BY <1>1 DEF Position
    <2>3. CASE r # t
      <3>1. SeenIn(r, s, u) \/ Awaited(r, s, u)
        BY <1>1, <2>3 DEF OthersSame, TabInv, HeardIsSeen
      <3> QED
        BY <1>1, <2>2, <2>3, <3>1 DEF OthersSame, SeenIn, Awaited, Concerns
    <2>4. CASE r = t /\ u.num \in heard[t] /\ SeenIn(t, s, u)
      <3>1. ShapeOf(view[t][s]) /\ Moves(view[t][s], view'[t][s])
        BY <2>1 DEF Turns, TabInv, TabTypes, Typed
      <3>2. \A i \in DOMAIN log[ListOf(s)] : i \in Nat
        BY <2>1 DEF TabInv, Inv, Types, Component, Components, ListOf, Lists
      <3>3. ASSUME NEW i \in DOMAIN log[ListOf(s)], Concerns(u, i)
            PROVE  Sees(view'[t][s], i, log[ListOf(s)][i])
        <4>1. Sees(view[t][s], i, log[ListOf(s)][i])
          BY <2>4, <3>3 DEF SeenIn
        <4>2. PICK v, w, x : v = view[t][s] /\ w = view'[t][s] /\ x = log[ListOf(s)][i]
          OBVIOUS
        <4>3. Sees(w, i, x)
          BY <3>1, <3>2, <4>1, <4>2, MovesKeep
        <4> QED
          BY <4>2, <4>3
      <3>4. SeenIn(t, s, u)'
        BY <1>1, <2>2, <3>3 DEF SeenIn, Concerns, Sees
      <3> QED
        BY <2>4, <3>4
    <2>5. CASE r = t /\ ~(u.num \in heard[t] /\ SeenIn(t, s, u))
      <3>1. u.num \in heard[t] => Awaited(t, s, u)
        BY <2>5 DEF TabInv, HeardIsSeen
      <3> QED
        BY <2>5, <3>1 DEF Turns
    <2> QED
      BY <2>3, <2>4, <2>5
  <1> QED
    BY <1>2, <1>3

\* Of one tab only its views, or its requests for lists, change.
LEMMA StillMoves ==
  ASSUME TabInv, NEW t \in Tab, NEW s \in Component
  PROVE  /\ ShapeOf(view[t][s]) /\ Moves(view[t][s], view[t][s])
         /\ view[t][s].upto <= Len(log[ListOf(s)])
  BY DEF TabInv, TabTypes, Typed, ShapeOf, Moves

LEMMA ReadKeeps ==
  ASSUME TabInv, NEW t \in Tab, NEW f \in fetches[t], ReadList(t, f)
  PROVE  Turns(t)
  <1>1. /\ Steady /\ UNCHANGED <<cursor, heard, view>>
    BY DEF ReadList, Steady, database
  <1>2. PICK g : /\ g = [f EXCEPT !.read = TRUE, !.upto = Len(log[f.list])]
                 /\ fetches' = [fetches EXCEPT ![t] = (fetches[t] \ {f}) \cup {g}]
    BY DEF ReadList
  <1>3. /\ Typed(t) /\ DOMAIN fetches = Tab /\ DOMAIN view = Tab /\ DOMAIN view[t] = Component
        /\ cursor \in [Tab -> Nat] /\ heard \in [Tab -> SUBSET Nat]
    BY DEF TabInv, TabTypes
  <1>4. /\ fetches'[t] = (fetches[t] \ {f}) \cup {g} /\ DOMAIN fetches' = Tab
        /\ \A r \in Tab \ {t} : fetches'[r] = fetches[r]
    BY <1>2, <1>3
  <1>5. FetchShape(f) /\ f.list \in Components[page[t]] /\ Len(log[f.list]) \in Nat
    BY <1>3 DEF Typed, FetchShape, TabInv, Inv, Types
  <1>6. /\ DOMAIN g = {"list", "cause", "copy", "read", "upto"}
        /\ g.list = f.list /\ g.cause = f.cause /\ g.upto = Len(log[f.list])
    BY <1>2, <1>5 DEF FetchShape
  <1>7. FetchShape(g)
    BY <1>5, <1>6 DEF FetchShape
  <1>8. ASSUME NEW s \in Components[page[t]], NEW u \in stored, u.type \in Announces(s),
               Awaited(t, s, u)
        PROVE  Awaited(t, s, u)'
    <2>1. Position(u.req)' = Position(u.req)
      BY <1>1 DEF Steady, Position
    <2>2. PICK h \in fetches[t] : /\ h.list = s /\ h.cause = u.num
                                  /\ h.read = FALSE \/ Position(u.req) <= h.upto
      BY <1>8 DEF Awaited
    <2>3. CASE h # f
      BY <1>4, <2>1, <2>2, <2>3 DEF Awaited
    <2>4. CASE h = f
      <3>1. s \in Component /\ s \in Lists /\ ListOf(s) = s
        BY <1>5, <2>2, <2>4 DEF FetchShape, Component, TabInv, TabTypes, ListOf, Lists
      <3>2. Position(u.req) \in 0 .. Len(log[s])
        BY <1>8, <3>1, PositionInList DEF TabInv, Sorted
      <3>3. Position(u.req) <= g.upto
        BY <1>6, <2>2, <2>4, <3>2
      <3> QED
        BY <1>4, <1>6, <2>1, <2>2, <2>4, <3>3 DEF Awaited
    <2> QED
      BY <2>3, <2>4
  <1>9. /\ OthersSame(t) /\ TabsAre /\ DOMAIN view'[t] = Component
        /\ \A s \in Component : /\ Moves(view[t][s], view'[t][s])
                                /\ view'[t][s].upto <= Len(log[ListOf(s)])
    BY <1>1, <1>3, <1>4, StillMoves DEF OthersSame, TabsAre
  <1>10. \A h \in fetches'[t] : FetchShape(h) /\ h.list \in Components[page[t]]
    BY <1>3, <1>4, <1>5, <1>6, <1>7 DEF Typed
  <1>11. /\ cursor'[t] <= counter
         /\ \A n \in heard'[t] : n \in 1 .. cursor'[t] /\ \E u \in stored : u.num = n
    BY <1>1, <1>3 DEF Typed
  <1> QED
    BY <1>1, <1>8, <1>9, <1>10, <1>11 DEF Turns

LEMMA LoseKeeps ==
  ASSUME TabInv, NEW t \in Tab, NEW f \in fetches[t], LoseList(t, f)
  PROVE  Turns(t)
  <1>1. /\ Steady /\ UNCHANGED <<cursor, view>>
        /\ fetches' = [fetches EXCEPT ![t] = fetches[t] \ {f}]
        /\ heard' = [heard EXCEPT ![t] = heard[t] \ {f.cause}]
    BY DEF LoseList, Steady, database
  <1>2. /\ Typed(t) /\ DOMAIN fetches = Tab /\ DOMAIN view = Tab /\ DOMAIN view[t] = Component
        /\ cursor \in [Tab -> Nat] /\ heard \in [Tab -> SUBSET Nat]
    BY DEF TabInv, TabTypes
  <1>3. /\ fetches'[t] = fetches[t] \ {f} /\ DOMAIN fetches' = Tab
        /\ \A r \in Tab \ {t} : fetches'[r] = fetches[r]
    BY <1>1, <1>2
  <1>4. /\ heard'[t] = heard[t] \ {f.cause} /\ heard' \in [Tab -> SUBSET Nat]
        /\ \A r \in Tab \ {t} : heard'[r] = heard[r]
    BY <1>1, <1>2
  <1>5. ASSUME NEW s \in Components[page[t]], NEW u \in stored, u.num \in heard'[t],
               Awaited(t, s, u)
        PROVE  Awaited(t, s, u)'
    <2>1. Position(u.req)' = Position(u.req)
      BY <1>1 DEF Steady, Position
    <2> QED
      BY <1>3, <1>4, <1>5, <2>1 DEF Awaited
  <1>6. /\ OthersSame(t) /\ TabsAre /\ DOMAIN view'[t] = Component
        /\ \A s \in Component : /\ Moves(view[t][s], view'[t][s])
                                /\ view'[t][s].upto <= Len(log[ListOf(s)])
    BY <1>1, <1>2, <1>3, <1>4, StillMoves DEF OthersSame, TabsAre
  <1>7. \A h \in fetches'[t] : FetchShape(h) /\ h.list \in Components[page[t]]
    BY <1>2, <1>3 DEF Typed
  <1>8. /\ cursor'[t] <= counter
        /\ \A n \in heard'[t] : n \in 1 .. cursor'[t] /\ \E u \in stored : u.num = n
    BY <1>1, <1>2, <1>4 DEF Typed
  <1> QED
    BY <1>1, <1>4, <1>5, <1>6, <1>7, <1>8 DEF Turns

LEMMA ReceiveKeeps ==
  ASSUME TabInv, NEW t \in Tab, NEW f \in fetches[t], ReceiveList(t, f)
  PROVE  Turns(t)
  <1>1. /\ Steady /\ UNCHANGED <<cursor, heard>> /\ f.read
        /\ fetches' = [fetches EXCEPT ![t] = fetches[t] \ {f}]
        /\ view' = [view EXCEPT ![t][f.list] = Shows(view[t][f.list], f.upto)]
    BY DEF ReceiveList, Steady, database
  <1>2. /\ Typed(t) /\ DOMAIN fetches = Tab /\ DOMAIN view = Tab /\ DOMAIN view[t] = Component
        /\ cursor \in [Tab -> Nat] /\ heard \in [Tab -> SUBSET Nat]
        /\ page[t] \in DOMAIN Components
    BY DEF TabInv, TabTypes
  <1>3. /\ fetches'[t] = fetches[t] \ {f} /\ DOMAIN fetches' = Tab
        /\ \A r \in Tab \ {t} : fetches'[r] = fetches[r]
    BY <1>1, <1>2
  <1>4. /\ FetchShape(f) /\ f.list \in Components[page[t]] /\ f.list \in Component
        /\ ListOf(f.list) = f.list /\ f.upto \in Nat /\ f.upto <= Len(log[f.list])
    BY <1>2 DEF Typed, FetchShape, Component, ListOf, Lists
  <1>5. PICK w : w = Shows(view[t][f.list], f.upto)
    OBVIOUS
  <1>6. /\ Moves(view[t][f.list], w) /\ w.upto = f.upto
        /\ \A x : \A i \in Nat : i <= f.upto => Sees(w, i, x)
    <2>1. PICK v, n : v = view[t][f.list] /\ n = f.upto
      OBVIOUS
    <2>2. ShapeOf(v) /\ n \in Nat /\ w = Shows(v, n)
      BY <1>4, <1>5, <2>1, StillMoves
    <2>3. /\ Moves(v, w) /\ w.upto = n
          /\ \A x : \A i \in Nat : i <= n => Sees(w, i, x)
      BY <2>2, ShowsMoves
    <2> QED
      BY <2>1, <2>3
  <1>7. /\ DOMAIN view' = Tab /\ DOMAIN view'[t] = Component /\ view'[t][f.list] = w
        /\ \A s \in Component \ {f.list} : view'[t][s] = view[t][s]
        /\ \A r \in Tab \ {t} : view'[r] = view[r]
    BY <1>1, <1>2, <1>4, <1>5
  <1>8. \A s \in Component : /\ Moves(view[t][s], view'[t][s])
                             /\ view'[t][s].upto <= Len(log[ListOf(s)])
    BY <1>4, <1>6, <1>7, StillMoves
  <1>9. ASSUME NEW s \in Components[page[t]], NEW u \in stored, u.type \in Announces(s),
               Awaited(t, s, u)
        PROVE  Awaited(t, s, u)' \/ SeenIn(t, s, u)'
    <2>1. Position(u.req)' = Position(u.req) /\ log' = log
      BY <1>1 DEF Steady, Position
    <2>2. PICK h \in fetches[t] : /\ h.list = s /\ h.cause = u.num
                                  /\ h.read = FALSE \/ Position(u.req) <= h.upto
      BY <1>9 DEF Awaited
    <2>3. CASE h # f
      BY <1>3, <2>1, <2>2, <2>3 DEF Awaited
    <2>4. CASE h = f
      <3>1. f.read # FALSE
        BY <1>1, Zenon
      <3>2. Position(u.req) <= f.upto /\ Position(u.req) \in Nat /\ f.list = s
        BY <2>2, <2>4, <3>1, PositionIsNat DEF TabInv, Inv, Types
      <3>3. \A i \in DOMAIN log[s] : i \in Nat
        BY <1>4, <3>2 DEF TabInv, Inv, Types, FetchShape
      <3>4. ASSUME NEW i \in DOMAIN log[s], Concerns(u, i) PROVE Sees(w, i, log[s][i])
        <4>1. i <= f.upto
          BY <1>4, <3>2, <3>3, <3>4 DEF Concerns
        <4> QED
          BY <1>6, <3>3, <4>1
      <3>5. SeenIn(t, s, u)'
        BY <1>4, <1>7, <2>1, <3>2, <3>4 DEF SeenIn, Concerns, Sees
      <3> QED
        BY <3>5
    <2> QED
      BY <2>3, <2>4
  <1>10. OthersSame(t) /\ TabsAre
    BY <1>1, <1>2, <1>3, <1>7 DEF OthersSame, TabsAre
  <1>11. \A h \in fetches'[t] : FetchShape(h) /\ h.list \in Components[page[t]]
    BY <1>2, <1>3 DEF Typed
  <1>12. /\ cursor'[t] <= counter
         /\ \A n \in heard'[t] : n \in 1 .. cursor'[t] /\ \E u \in stored : u.num = n
    BY <1>1, <1>2 DEF Typed
  <1> QED
    BY <1>1, <1>7, <1>8, <1>9, <1>10, <1>11, <1>12 DEF Turns

\* A component hears what is announced about its list, at least once.
LEMMA AnnouncedIsHeard ==
  ASSUME NEW s \in Component, NEW type, type \in Announces(s)
  PROVE  /\ Hears(s, type) /\ 1 \in Times(type)
         /\ InPlace(s, type) => s = "theme" \/ (s = "projects" /\ type = "project.deleted")
  <1>1. s \in {"projects", "conversations", "todos", "tasks", "settings", "theme"}
    BY DEF Component, Components
  <1>2. 1 \in Times(type)
    BY DEF Times
  <1>3. CASE s = "projects"
    <2>1. type = "project.created" \/ type = "project.deleted"
      BY <1>3 DEF Announces
    <2>2. Keys(type) = {"id"}
      BY <2>1 DEF Keys
    <2>3. DeriveTopic(type) = "system"
      BY <2>2 DEF DeriveTopic
    <2> QED
      BY <1>2, <1>3, <2>1, <2>3 DEF Hears, Subscription, ProjectList, InPlace
  <1>4. CASE s = "conversations"
    <2>1. type = "conversation.created" \/ type = "conversation.deleted"
      BY <1>4 DEF Announces
    <2>2. Keys(type) = {"id", "project_id"}
      BY <2>1 DEF Keys
    <2>3. DeriveTopic(type) = "project"
      BY <2>2 DEF DeriveTopic
    <2> QED
      BY <1>2, <1>4, <2>1, <2>3 DEF Hears, Subscription, ChatSider, InPlace
  <1>5. CASE s = "todos"
    <2>1. type = "todo.sync"
      BY <1>5 DEF Announces
    <2>2. DeriveTopic(type) = "conv"
      BY <2>1 DEF DeriveTopic, Keys
    <2> QED
      BY <1>2, <1>5, <2>1, <2>2 DEF Hears, Subscription, TodoPanel, InPlace
  <1>6. CASE s = "tasks"
    <2>1. type = "cron_task.sync"
      BY <1>6 DEF Announces
    <2>2. DeriveTopic(type) = "conv"
      BY <2>1 DEF DeriveTopic, Keys
    <2> QED
      BY <1>2, <1>6, <2>1, <2>2 DEF Hears, Subscription, CronTaskPanel, InPlace
  <1>7. CASE s = "settings" \/ s = "theme"
    <2>1. type = "settings.changed"
      BY <1>7 DEF Announces
    <2>2. DeriveTopic(type) = "system"
      BY <2>1 DEF DeriveTopic, Keys
    <2> QED
      BY <1>2, <1>7, <2>1, <2>2 DEF Hears, Subscription, SettingsForm, ThemeProvider, InPlace
  <1> QED
    BY <1>1, <1>3, <1>4, <1>5, <1>6, <1>7

\* What tab t makes of update u.
Heeds(t, u) ==
  /\ cursor' = [cursor EXCEPT ![t] = u.num]
  /\ heard' = [heard EXCEPT ![t] = heard[t] \cup {u.num}]
  /\ NotifySubscribers(t, u)

InTurn(t, s, u) == s \in Components[page[t]] /\ Hears(s, u.type)

LEMMA NotifiedViews ==
  ASSUME TabInv, NEW t \in Tab, NEW u \in stored, NotifySubscribers(t, u)
  PROVE  /\ DOMAIN view' = Tab /\ DOMAIN view'[t] = Component
         /\ \A r \in Tab \ {t} : view'[r] = view[r]
         /\ \A s \in Component :
              /\ ~(InTurn(t, s, u) /\ InPlace(s, u.type)) => view'[t][s] = view[t][s]
              /\ InTurn(t, s, u) /\ InPlace(s, u.type) =>
                   view'[t][s] = IF s = "theme" THEN Shows(view[t][s], Position(u.req))
                                 ELSE Adds(view[t][s], u.req)
  <1>1. PICK hearing, reading, w :
          /\ hearing = {s \in Components[page[t]] : Hears(s, u.type)}
          /\ reading = {s \in hearing : ~InPlace(s, u.type)}
          /\ w = [s \in Component |->
                    IF s \notin hearing \ reading THEN view[t][s]
                    ELSE IF s = "theme" THEN Shows(view[t][s], Position(u.req))
                    ELSE Adds(view[t][s], u.req)]
          /\ view' = [view EXCEPT ![t] = w]
    BY DEF NotifySubscribers
  <1>2. DOMAIN view = Tab
    BY DEF TabInv, TabTypes
  <1>3. /\ DOMAIN view' = Tab /\ view'[t] = w
        /\ \A r \in Tab \ {t} : view'[r] = view[r]
    BY <1>1, <1>2
  <1>4. DOMAIN w = Component
    BY <1>1
  <1>5. \A s \in Component :
          s \in hearing \ reading <=> InTurn(t, s, u) /\ InPlace(s, u.type)
    BY <1>1 DEF InTurn
  <1>6. \A s \in Component :
          w[s] = IF s \notin hearing \ reading THEN view[t][s]
                 ELSE IF s = "theme" THEN Shows(view[t][s], Position(u.req))
                 ELSE Adds(view[t][s], u.req)
    BY <1>1
  <1> QED
    BY <1>3, <1>4, <1>5, <1>6

AsksFor(s, n, c) == [list |-> s, cause |-> n, copy |-> c, read |-> FALSE, upto |-> 0]

LEMMA NotifiedFetches ==
  ASSUME TabInv, NEW t \in Tab, NEW u \in stored, NotifySubscribers(t, u)
  PROVE  /\ DOMAIN fetches' = Tab /\ \A r \in Tab \ {t} : fetches'[r] = fetches[r]
         /\ fetches[t] \subseteq fetches'[t]
         /\ \A f \in fetches'[t] \ fetches[t] : FetchShape(f) /\ f.list \in Components[page[t]]
         /\ \A s : InTurn(t, s, u) /\ ~InPlace(s, u.type) /\ 1 \in Times(u.type) =>
              \E f \in fetches'[t] : f.list = s /\ f.cause = u.num /\ f.read = FALSE
  <1> DEFINE reading == {s \in {s \in Components[page[t]] : Hears(s, u.type)} : ~InPlace(s, u.type)}
             new == {AsksFor(s, u.num, c) : s \in reading, c \in Times(u.type)}
  <1>1. fetches' = [fetches EXCEPT ![t] = fetches[t] \cup new]
    BY DEF NotifySubscribers, AsksFor
  <1>7. \A r \in reading, c \in Times(u.type) : AsksFor(r, u.num, c) \in new
    OBVIOUS
  <1>2. DOMAIN fetches = Tab /\ page[t] \in DOMAIN Components
    BY DEF TabInv, TabTypes
  <1>3. /\ DOMAIN fetches' = Tab /\ fetches'[t] = fetches[t] \cup new
        /\ \A r \in Tab \ {t} : fetches'[r] = fetches[r]
    BY <1>1, <1>2
  <1>4. \A s \in reading : s \in Components[page[t]] /\ s \in Lists
    BY <1>1, <1>2 DEF Components, Lists, InPlace
  <1>5. ASSUME NEW f \in new PROVE FetchShape(f) /\ f.list \in Components[page[t]]
    <2>1. PICK s \in reading, c \in Times(u.type) :
            f = AsksFor(s, u.num, c)
      OBVIOUS
    <2>2. /\ DOMAIN f = {"list", "cause", "copy", "read", "upto"}
          /\ f.list = s /\ f.upto = 0
      BY <2>1 DEF AsksFor
    <2>3. Len(log[s]) \in Nat
      BY <1>4 DEF TabInv, Inv, Types
    <2> QED
      BY <1>4, <2>2, <2>3 DEF FetchShape
  <1>6. ASSUME NEW s, InTurn(t, s, u), ~InPlace(s, u.type), 1 \in Times(u.type)
        PROVE  \E f \in new : f.list = s /\ f.cause = u.num /\ f.read = FALSE
    <2>1. PICK f : f = AsksFor(s, u.num, 1)
      OBVIOUS
    <2>2. s \in reading
      BY <1>6 DEF InTurn
    <2> HIDE DEF reading, new
    <2>3. f \in new
      BY <1>6, <1>7, <2>1, <2>2
    <2>4. f.list = s /\ f.cause = u.num /\ f.read = FALSE
      BY <2>1 DEF AsksFor
    <2> QED
      BY <2>3, <2>4
  <1> HIDE DEF reading, new
  <1>8. \A f \in fetches'[t] \ fetches[t] : f \in new
    BY <1>3
  <1>9. fetches[t] \subseteq fetches'[t] /\ new \subseteq fetches'[t]
    BY <1>3
  <1>10. \A s : InTurn(t, s, u) /\ ~InPlace(s, u.type) /\ 1 \in Times(u.type) =>
           \E f \in fetches'[t] : f.list = s /\ f.cause = u.num /\ f.read = FALSE
    BY <1>6, <1>9
  <1> QED
    BY <1>3, <1>5, <1>8, <1>9, <1>10

\* The theme, and the projects without a deleted one, are shown at once.
LEMMA ShownAtOnce ==
  ASSUME TabInv, NEW t \in Tab, NEW u \in stored, NotifySubscribers(t, u), UNCHANGED log,
         NEW s \in Components[page[t]], s \in Component, u.type \in Announces(s),
         InPlace(s, u.type)
  PROVE  SeenIn(t, s, u)'
  <1>1. InTurn(t, s, u) /\ (s = "theme" \/ (s = "projects" /\ u.type = "project.deleted"))
    BY AnnouncedIsHeard DEF InTurn
  <1>2. Position(u.req)' = Position(u.req)
    BY DEF Position
  <1>3. LogOK /\ ShapeOf(view[t][s]) /\ Position(u.req) \in Nat
    BY StillMoves, PositionIsNat DEF TabInv, Inv, Types
  <1>4. \A i \in DOMAIN log[ListOf(s)] : i \in Nat
    BY DEF TabInv, Inv, Types, Component, Components, ListOf, Lists
  <1>5. PICK v, w, q, p : v = view[t][s] /\ w = view'[t][s] /\ q = u.req /\ p = Position(q)
    OBVIOUS
  <1>6. CASE s = "theme"
    <2>1. w = Shows(v, p)
      BY <1>1, <1>5, <1>6, NotifiedViews
    <2>2. \A x : \A i \in Nat : i <= p => Sees(w, i, x)
      BY <1>3, <1>5, <2>1, ShowsMoves
    <2>3. u.type # "project.deleted"
      BY <1>6 DEF Announces
    <2> QED
      BY <1>2, <1>4, <1>5, <2>2, <2>3 DEF SeenIn, Concerns, Sees
  <1>7. CASE s = "projects" /\ u.type = "project.deleted"
    <2>1. w = Adds(v, q)
      BY <1>1, <1>5, <1>7, NotifiedViews
    <2>2. Sees(w, p, q)
      BY <1>3, <1>5, <2>1, AddsMoves
    <2>3. ASSUME NEW i \in DOMAIN log[ListOf(s)], p = i
          PROVE  log[ListOf(s)][i] = q
      <3>1. ListOf(s) \in Lists /\ ListOf(s) = "projects"
        BY <1>7 DEF ListOf, Lists
      <3>2. req[q].op \in Changes(ListOf(s))
        BY <1>5 DEF TabInv, Sorted
      <3>3. \A l \in Lists : q \in ToSet(log[l]) => l = ListOf(s)
        <4>1. \A l, m \in Lists : l # m => Changes(l) \cap Changes(m) = {}
          BY DEF Lists, Changes, ProjectRequests, TodoRequests, TaskRequests, SettingsRequests
        <4> QED
          BY <3>1, <3>2, <4>1 DEF TabInv, Sorted
      <3>4. i # 0
        BY <3>1 DEF TabInv, Inv, Types
      <3>5. PICK l \in Lists : \E j \in DOMAIN log[l] : log[l][j] = q /\ Position(q) = j
        BY <1>3, <1>5, <2>3, <3>4, PositionCases
      <3>6. l = ListOf(s)
        BY <3>3, <3>5 DEF ToSet
      <3> QED
        BY <1>5, <2>3, <3>5, <3>6
    <2>4. ASSUME NEW i \in DOMAIN log[ListOf(s)], Concerns(u, i)
          PROVE  Sees(w, i, log[ListOf(s)][i])
      <3>1. p = i
        BY <1>5, <1>7, <2>4 DEF Concerns
      <3> QED
        BY <2>2, <2>3, <3>1
    <2> QED
      BY <1>2, <1>5, <2>4 DEF SeenIn, Concerns, Sees
  <1> QED
    BY <1>1, <1>6, <1>7

LEMMA NotifiedMoves ==
  ASSUME TabInv, NEW t \in Tab, NEW u \in stored, NotifySubscribers(t, u), NEW s \in Component
  PROVE  Moves(view[t][s], view'[t][s]) /\ view'[t][s].upto <= Len(log[ListOf(s)])
  <1>1. /\ LogOK /\ ShapeOf(view[t][s]) /\ Position(u.req) \in Nat
        /\ Moves(view[t][s], view[t][s]) /\ view[t][s].upto <= Len(log[ListOf(s)])
    BY StillMoves, PositionIsNat DEF TabInv, Inv, Types
  <1>2. PICK v, w, q, p : v = view[t][s] /\ w = view'[t][s] /\ q = u.req /\ p = Position(q)
    OBVIOUS
  <1>3. CASE ~(InTurn(t, s, u) /\ InPlace(s, u.type))
    BY <1>1, <1>3, NotifiedViews
  <1>4. CASE InTurn(t, s, u) /\ InPlace(s, u.type) /\ s # "theme"
    <2>1. w = Adds(v, q)
      BY <1>2, <1>4, NotifiedViews
    <2>2. Moves(v, w) /\ w.upto = v.upto
      BY <1>1, <1>2, <2>1, AddsMoves
    <2> QED
      BY <1>1, <1>2, <2>2
  <1>5. CASE InTurn(t, s, u) /\ InPlace(s, u.type) /\ s = "theme"
    <2>1. w = Shows(v, p)
      BY <1>2, <1>5, NotifiedViews
    <2>2. Moves(v, w) /\ w.upto = p
      BY <1>1, <1>2, <2>1, ShowsMoves
    <2>3. u.type \in Announces(s)
      BY <1>5 DEF InTurn, Hears, Subscription, ThemeProvider, Announces
    <2>4. req[u.req].op \in Changes(ListOf(s))
      BY <2>3 DEF TabInv, Sorted
    <2>5. p <= Len(log[ListOf(s)])
      <3>1. req[q].op \in Changes(ListOf(s))
        BY <1>2, <2>4
      <3>2. Position(q) \in 0 .. Len(log[ListOf(s)])
        BY <3>1, PositionInList DEF TabInv
      <3> QED
        BY <1>2, <3>2
    <2> QED
      BY <1>2, <2>2, <2>5
  <1> QED
    BY <1>3, <1>4, <1>5

LEMMA ProcessKeeps ==
  ASSUME TabInv, NEW t \in Tab, Process(t)
  PROVE  Turns(t)
  <1>1. PICK u \in stored : u.num > cursor[t] /\ Heeds(t, u)
    BY DEF Process, Heeds
  <1>2. Steady /\ UNCHANGED log
    BY DEF Process, Steady, database
  <1>3. /\ Typed(t) /\ cursor \in [Tab -> Nat] /\ heard \in [Tab -> SUBSET Nat]
        /\ page[t] \in DOMAIN Components
    BY DEF TabInv, TabTypes
  <1>4. u.num \in Nat /\ 1 <= u.num /\ u.num <= counter /\ counter \in Nat
    BY DEF TabInv, Inv, Types, StoredOK
  <1>5. /\ cursor' \in [Tab -> Nat] /\ heard' \in [Tab -> SUBSET Nat]
        /\ cursor'[t] = u.num /\ heard'[t] = heard[t] \cup {u.num}
        /\ \A r \in Tab \ {t} : cursor'[r] = cursor[r] /\ heard'[r] = heard[r]
    BY <1>1, <1>3, <1>4 DEF Heeds
  <1>6. NotifySubscribers(t, u)
    BY <1>1 DEF Heeds
  <1>7. \A n \in heard'[t] : n \in 1 .. cursor'[t] /\ \E x \in stored : x.num = n
    BY <1>1, <1>3, <1>4, <1>5 DEF Typed
  <1>8. OthersSame(t) /\ TabsAre /\ DOMAIN view'[t] = Component
    BY <1>5, <1>6, NotifiedViews, NotifiedFetches DEF OthersSame, TabsAre
  <1>9. \A f \in fetches'[t] : FetchShape(f) /\ f.list \in Components[page[t]]
    BY <1>3, <1>6, NotifiedFetches DEF Typed
  <1>10. \A s \in Component : /\ Moves(view[t][s], view'[t][s])
                              /\ view'[t][s].upto <= Len(log[ListOf(s)])
    BY <1>6, NotifiedMoves
  <1>11. \A s : InTurn(t, s, u) /\ ~InPlace(s, u.type) /\ 1 \in Times(u.type) =>
                \E f \in fetches'[t] : f.list = s /\ f.cause = u.num /\ f.read = FALSE
    BY <1>6, NotifiedFetches
  <1>12. ASSUME NEW s \in Components[page[t]], NEW x \in stored, x.num \in heard'[t],
                x.type \in Announces(s), x.num \in heard[t] => Awaited(t, s, x)
         PROVE  SeenIn(t, s, x)' \/ Awaited(t, s, x)'
    <2>1. s \in Component
      BY <1>3 DEF Component
    <2>2. CASE x.num \in heard[t]
      <3>1. Position(x.req)' = Position(x.req)
        BY <1>2 DEF Position
      <3>2. fetches[t] \subseteq fetches'[t]
        BY <1>6, NotifiedFetches
      <3> QED
        BY <1>12, <2>2, <3>1, <3>2 DEF Awaited
    <2>3. CASE x.num \notin heard[t]
      <3>1. x = u
        BY <1>5, <1>12, <2>3 DEF TabInv, Inv, Types, StoredOK
      <3>2. CASE InPlace(s, u.type)
        BY <1>2, <1>6, <1>12, <2>1, <3>1, <3>2, ShownAtOnce
      <3>3. CASE ~InPlace(s, u.type)
        <4>1. InTurn(t, s, u) /\ 1 \in Times(u.type)
          BY <1>12, <2>1, <3>1, AnnouncedIsHeard DEF InTurn
        <4>2. \E f \in fetches'[t] : f.list = s /\ f.cause = u.num /\ f.read = FALSE
          BY <1>11, <3>3, <4>1
        <4> QED
          BY <3>1, <4>2 DEF Awaited
      <3> QED
        BY <3>2, <3>3
    <2> QED
      BY <2>2, <2>3
  <1> QED
    BY <1>2, <1>4, <1>5, <1>7, <1>8, <1>9, <1>10, <1>12 DEF Turns

\* The answer to a request: one view changes, or one list is asked for.
LEMMA ViewTurn ==
  ASSUME TabInv, NEW t \in Tab, Steady, UNCHANGED <<cursor, heard, fetches>>,
         NEW s \in Component, NEW w, view' = [view EXCEPT ![t] = [view[t] EXCEPT ![s] = w]],
         Moves(view[t][s], w), w.upto <= Len(log[ListOf(s)])
  PROVE  Turns(t)
  <1>1. /\ Typed(t) /\ DOMAIN fetches = Tab /\ DOMAIN view = Tab /\ DOMAIN view[t] = Component
        /\ cursor \in [Tab -> Nat] /\ heard \in [Tab -> SUBSET Nat]
    BY DEF TabInv, TabTypes
  <1>2. /\ DOMAIN view' = Tab /\ DOMAIN view'[t] = Component /\ view'[t][s] = w
        /\ \A r \in Component \ {s} : view'[t][r] = view[t][r]
        /\ \A r \in Tab \ {t} : view'[r] = view[r]
    BY <1>1
  <1>3. \A r \in Component : /\ Moves(view[t][r], view'[t][r])
                             /\ view'[t][r].upto <= Len(log[ListOf(r)])
    BY <1>2, StillMoves
  <1>4. OthersSame(t) /\ TabsAre
    BY <1>1, <1>2 DEF OthersSame, TabsAre
  <1>5. \A f \in fetches'[t] : FetchShape(f) /\ f.list \in Components[page[t]]
    BY <1>1 DEF Typed
  <1>6. /\ cursor'[t] <= counter
        /\ \A n \in heard'[t] : n \in 1 .. cursor'[t] /\ \E u \in stored : u.num = n
    BY <1>1 DEF Typed
  <1>7. ASSUME NEW r \in Components[page[t]], NEW u \in stored, u.num \in heard'[t],
               u.num \in heard[t] => Awaited(t, r, u)
        PROVE  Awaited(t, r, u)'
    BY <1>7 DEF Awaited, Position, Steady
  <1> QED
    BY <1>2, <1>3, <1>4, <1>5, <1>6, <1>7 DEF Turns

LEMMA FetchTurn ==
  ASSUME TabInv, NEW t \in Tab, Steady, UNCHANGED <<cursor, heard, view>>,
         NEW f, fetches' = [fetches EXCEPT ![t] = fetches[t] \cup {f}],
         FetchShape(f), f.list \in Components[page[t]]
  PROVE  Turns(t)
  <1>1. /\ Typed(t) /\ DOMAIN fetches = Tab /\ DOMAIN view = Tab /\ DOMAIN view[t] = Component
        /\ cursor \in [Tab -> Nat] /\ heard \in [Tab -> SUBSET Nat]
    BY DEF TabInv, TabTypes
  <1>2. /\ fetches'[t] = fetches[t] \cup {f} /\ DOMAIN fetches' = Tab
        /\ \A r \in Tab \ {t} : fetches'[r] = fetches[r]
    BY <1>1
  <1>3. \A r \in Component : /\ Moves(view[t][r], view'[t][r])
                             /\ view'[t][r].upto <= Len(log[ListOf(r)])
    BY StillMoves
  <1>4. OthersSame(t) /\ TabsAre /\ DOMAIN view'[t] = Component
    BY <1>1, <1>2 DEF OthersSame, TabsAre
  <1>5. \A h \in fetches'[t] : FetchShape(h) /\ h.list \in Components[page[t]]
    BY <1>1, <1>2 DEF Typed
  <1>6. /\ cursor'[t] <= counter
        /\ \A n \in heard'[t] : n \in 1 .. cursor'[t] /\ \E u \in stored : u.num = n
    BY <1>1 DEF Typed
  <1>7. ASSUME NEW r \in Components[page[t]], NEW u \in stored, u.num \in heard'[t],
               u.num \in heard[t] => Awaited(t, r, u)
        PROVE  Awaited(t, r, u)'
    <2>1. PICK h \in fetches[t] : /\ h.list = r /\ h.cause = u.num
                                  /\ h.read = FALSE \/ Position(u.req) <= h.upto
      BY <1>7 DEF Awaited
    <2>2. h \in fetches'[t] /\ Position(u.req)' = Position(u.req)
      BY <1>2 DEF Position, Steady
    <2> QED
      BY <2>1, <2>2 DEF Awaited
  <1> QED
    BY <1>3, <1>4, <1>5, <1>6, <1>7 DEF Turns

\* A view that gets an entry may become stale, never fresh.
LEMMA StalerMoves ==
  ASSUME NEW v, NEW a, ShapeOf(a), Moves(v, a), a.stale = v.stale, NEW w,
         w = [a EXCEPT !.stale = w.stale], a.stale = TRUE => w.stale = TRUE
  PROVE  Moves(v, w) /\ w.upto = a.upto
  <1>1. /\ DOMAIN w = {"upto", "newest", "own", "stale"}
        /\ w.upto = a.upto /\ w.newest = a.newest /\ w.own = a.own
    BY DEF ShapeOf
  <1> QED
    BY <1>1 DEF Moves, ShapeOf

LEMMA AnswerKeeps ==
  ASSUME TabInv, NEW q \in Request, Answer(q)
  PROVE  (\E t \in Tab : Turns(t)) \/ UNCHANGED tabs
  <1>1. Steady /\ UNCHANGED <<cursor, heard>>
    BY DEF Answer, Steady, database
  <1>2. LogOK /\ {"todos", "conversations", "settings"} \subseteq Component
    BY DEF TabInv, Inv, Types, Component, Components
  <1>3. CASE UNCHANGED <<view, fetches>>
    BY <1>1, <1>3 DEF tabs, Steady
  <1>4. ASSUME NEW t \in Tab, TodoPanelAnswer(t, q) PROVE Turns(t)
    <2>1. PICK v, a, c : /\ v = view[t].todos /\ a = Adds(v, q)
                         /\ c = (\/ a.stale
                                 \/ req[q].op # "deleteTodo" /\ Position(q) < view[t].todos.newest
                                 \/ req[q].op = "addTodo" /\ q \in Shown(t, "todos"))
      OBVIOUS
    <2>2. PICK w : /\ w = [a EXCEPT !.stale = c]
                   /\ view' = [view EXCEPT ![t] = [view[t] EXCEPT !["todos"] = w]]
      BY <1>4, <2>1 DEF TodoPanelAnswer
    <2>3. ShapeOf(v) /\ v.upto <= Len(log[ListOf("todos")])
      BY <1>2, <2>1, StillMoves
    <2>4. a.stale = TRUE => c = TRUE
      BY <2>1, Zenon
    <2>5. Moves(v, w) /\ w.upto = v.upto
      <3>1. /\ ShapeOf(a) /\ Moves(v, a) /\ a.stale = v.stale /\ a.upto = v.upto
        BY <1>2, <2>1, <2>3, AddsMoves
      <3>2. w.stale = c /\ w = [a EXCEPT !.stale = w.stale]
        BY <2>2, <3>1 DEF ShapeOf
      <3>3. a.stale = TRUE => w.stale = TRUE
        BY <2>4, <3>2
      <3> QED
        BY <3>1, <3>2, <3>3, StalerMoves
    <2>6. UNCHANGED fetches
      BY <1>4 DEF TodoPanelAnswer
    <2> QED
      BY <1>1, <1>2, <2>1, <2>2, <2>3, <2>5, <2>6, ViewTurn
  <1>5. ASSUME NEW t \in Tab, ChatSiderAnswer(t, q), view' # view PROVE Turns(t)
    <2>1. PICK w : /\ w = Adds(view[t].conversations, q)
                   /\ view' = [view EXCEPT ![t] = [view[t] EXCEPT !["conversations"] = w]]
      BY <1>5 DEF ChatSiderAnswer
    <2>2. PICK v : v = view[t]["conversations"]
      OBVIOUS
    <2>3. ShapeOf(v) /\ v.upto <= Len(log[ListOf("conversations")])
      BY <1>2, <2>2, StillMoves
    <2>4. Moves(v, w) /\ w.upto = v.upto
      BY <1>2, <2>1, <2>2, <2>3, AddsMoves
    <2>5. UNCHANGED fetches
      BY <1>5 DEF ChatSiderAnswer
    <2> QED
      BY <1>1, <1>2, <2>1, <2>2, <2>3, <2>4, <2>5, ViewTurn
  <1>6. ASSUME NEW t \in Tab, SettingsFormAnswer(t, q), req[q].op \in SettingsRequests
        PROVE  Turns(t)
    <2>1. PICK w : /\ w = Shows(view[t].settings, Position(q))
                   /\ view' = [view EXCEPT ![t] = [view[t] EXCEPT !["settings"] = w]]
      BY <1>6 DEF SettingsFormAnswer
    <2>2. PICK v, p : v = view[t]["settings"] /\ p = Position(q)
      OBVIOUS
    <2>3. ListOf("settings") = "settings" /\ Changes("settings") = SettingsRequests
      BY DEF ListOf, Changes
    <2>4. Position(q) \in 0 .. Len(log[ListOf("settings")])
      BY <1>2, <1>6, <2>3, PositionInList DEF TabInv
    <2>5. ShapeOf(v) /\ p \in Nat /\ p <= Len(log[ListOf("settings")])
      BY <1>2, <2>2, <2>4, StillMoves
    <2>6. Moves(v, w) /\ w.upto = p
      BY <2>1, <2>2, <2>5, ShowsMoves
    <2>7. UNCHANGED fetches
      BY <1>6 DEF SettingsFormAnswer
    <2> QED
      BY <1>1, <1>2, <2>1, <2>2, <2>5, <2>6, <2>7, ViewTurn
  <1>7. ASSUME NEW t \in Tab, CronTaskPanelAnswer(t), t = req[q].tab, req[q].op \in TaskRequests
        PROVE  Turns(t)
    <2> DEFINE c == Cardinality({f \in fetches[t] : f.list = "tasks" /\ f.cause = 0}) + 1
    <2>7. fetches' = [fetches EXCEPT ![t] = fetches[t] \cup {AsksFor("tasks", 0, d) : d \in {c}}]
      BY <1>7 DEF CronTaskPanelAnswer, AsksFor
    <2>1. PICK f : /\ f = AsksFor("tasks", 0, c)
                   /\ fetches' = [fetches EXCEPT ![t] = fetches[t] \cup {f}]
      <3> HIDE DEF c
      <3>1. {AsksFor("tasks", 0, d) : d \in {c}} = {AsksFor("tasks", 0, c)}
        OBVIOUS
      <3> QED
        BY <2>7, <3>1
    <2>2. page[t] = "chat" /\ "tasks" \in Components["chat"] /\ "tasks" \in Lists
      BY <1>7 DEF TabInv, OnChat, Components, Lists
    <2>3. /\ DOMAIN f = {"list", "cause", "copy", "read", "upto"}
          /\ f.list = "tasks" /\ f.upto = 0
      BY <2>1 DEF AsksFor
    <2>4. Len(log["tasks"]) \in Nat
      BY <2>2 DEF TabInv, Inv, Types
    <2>5. FetchShape(f) /\ f.list \in Components[page[t]]
      BY <2>2, <2>3, <2>4 DEF FetchShape
    <2>6. UNCHANGED view
      BY <1>7 DEF CronTaskPanelAnswer
    <2> QED
      BY <1>1, <2>1, <2>5, <2>6, FetchTurn
  <1>8. \/ UNCHANGED <<view, fetches>>
        \/ \E t \in Tab : /\ t = req[q].tab
                          /\ \/ TodoPanelAnswer(t, q)
                             \/ CronTaskPanelAnswer(t) /\ req[q].op \in TaskRequests
                             \/ SettingsFormAnswer(t, q) /\ req[q].op \in SettingsRequests
                             \/ ChatSiderAnswer(t, q)
    BY DEF Answer
  <1>9. ASSUME NEW t \in Tab, ChatSiderAnswer(t, q), view' = view
        PROVE  UNCHANGED <<view, fetches>>
    BY <1>9 DEF ChatSiderAnswer
  <1> QED
    BY <1>3, <1>4, <1>5, <1>6, <1>7, <1>8, <1>9

-----------------------------------------------------------------------------
(* The invariant, and the theorems.                                        *)

LEMMA TabInvInit == Init => TabInv
  <1> SUFFICES ASSUME Init PROVE TabInv
    OBVIOUS
  <1>1. Inv
    BY InvInit
  <1>2. /\ counter = 0 /\ stored = {} /\ log = [l \in Lists |-> <<>>]
        /\ req = [q \in Request |-> NoRequest]
        /\ page \in [Tab -> DOMAIN Components] /\ cursor = [t \in Tab |-> 0]
        /\ heard = [t \in Tab |-> {}] /\ fetches = [t \in Tab |-> {}]
        /\ view = [t \in Tab |-> [s \in Component |-> AsLoaded]]
    BY DEF Init
  <1>3. Sorted
    BY <1>2 DEF Sorted, ToSet
  <1>4. OnChat
    BY <1>2 DEF OnChat, NoRequest, TaskRequests
  <1>5. \A t \in Tab : cursor[t] = 0 /\ heard[t] = {} /\ fetches[t] = {}
    BY <1>2
  <1>6. ShapeOf(AsLoaded) /\ AsLoaded.upto = 0
    BY DEF ShapeOf, AsLoaded
  <1>7. \A t \in Tab : DOMAIN view[t] = Component /\ \A s \in Component : view[t][s] = AsLoaded
    BY <1>2
  <1>8. \A s \in Component : Len(log[ListOf(s)]) \in Nat
    BY <1>1 DEF Inv, Types, Component, Components, ListOf, Lists
  <1>9. TabTypes
    BY <1>2, <1>5, <1>6, <1>7, <1>8 DEF TabTypes, Typed
  <1>10. HeardIsSeen
    BY <1>5 DEF HeardIsSeen
  <1> QED
    BY <1>1, <1>3, <1>4, <1>9, <1>10 DEF TabInv

LEMMA TurnsStep ==
  ASSUME TabInv, Inv', NEW t \in Tab, Turns(t), UNCHANGED req
  PROVE  TabInv'
  <1>1. TabTypes' /\ HeardIsSeen'
    BY TurnsKeep
  <1>2. UNCHANGED <<stored, log, page>>
    BY DEF Turns, Steady
  <1>3. Sorted' /\ OnChat'
    BY <1>2 DEF TabInv, Sorted, OnChat
  <1> QED
    BY <1>1, <1>3 DEF TabInv

\* A step of a tab turns that tab only.  A request that is answered turns the
\* tab that sent it, and any other step of a request leaves the tabs alone.
LEMMA TabInvStep == TabInv /\ [Next]_vars => TabInv'
  <1> SUFFICES ASSUME TabInv, [Next]_vars PROVE TabInv'
    OBVIOUS
  <1>1. Inv'
    BY InvStep DEF TabInv
  <1>2. CASE UNCHANGED vars
    <2>1. UNCHANGED <<counter, stored, log, req, page, cursor, heard, view, fetches>>
      BY <1>2 DEF vars, database, tabs
    <2>2. Sorted' /\ OnChat'
      BY <2>1 DEF TabInv, Sorted, OnChat
    <2>3. TabTypes'
      BY <2>1 DEF TabInv, TabTypes, Typed, FetchShape
    <2>4. HeardIsSeen'
      <3>1. \A q : Position(q)' = Position(q)
        BY <2>1 DEF Position
      <3>2. \A t \in Tab, s \in Component, u \in stored :
              /\ SeenIn(t, s, u) => SeenIn(t, s, u)'
              /\ Awaited(t, s, u) => Awaited(t, s, u)'
        BY <2>1, <3>1 DEF SeenIn, Awaited, Concerns, Sees
      <3>3. \A t \in Tab : Components[page[t]] \subseteq Component
        BY DEF TabInv, TabTypes, Component
      <3> QED
        BY <2>1, <3>2, <3>3 DEF TabInv, HeardIsSeen
    <2> QED
      BY <1>1, <2>2, <2>3, <2>4 DEF TabInv
  <1>3. ASSUME NEW t \in Tab,
               \/ Process(t)
               \/ \E f \in fetches[t] : ReadList(t, f) \/ ReceiveList(t, f) \/ LoseList(t, f)
        PROVE  TabInv'
    <2>1. Turns(t)
      BY <1>3, ProcessKeeps, ReadKeeps, ReceiveKeeps, LoseKeeps
    <2>2. UNCHANGED req
      BY <1>3 DEF Process, ReadList, ReceiveList, LoseList
    <2> QED
      BY <1>1, <2>1, <2>2, TurnsStep
  <1>4. ASSUME NEW q \in Request, Does(q) PROVE TabInv'
    <2>1. /\ OpStep(q) /\ LogStep(q) /\ StoredStep(q) /\ counter <= counter'
          /\ UNCHANGED tabs \/ (Answer(q) /\ UNCHANGED <<counter, stored, log>>)
      BY <1>4, RequestLists DEF TabInv
    <2>2. LogGrows(q)
      BY <1>4, RequestKeeps DEF TabInv, Kept
    <2>3. Sorted'
      BY <1>1, <2>1, <2>2, SortedLasts DEF TabInv
    <2>4. UNCHANGED page
      BY <2>1 DEF tabs, Answer
    <2>5. OnChat'
      BY <2>1, <2>4, OnChatLasts DEF TabInv
    <2>6. TabTypes' /\ HeardIsSeen'
      <3>1. CASE UNCHANGED tabs
        BY <1>1, <2>1, <2>2, <3>1, AwayKeeps
      <3>2. CASE \E t \in Tab : Turns(t)
        BY <3>2, TurnsKeep
      <3> QED
        BY <2>1, <3>1, <3>2, AnswerKeeps
    <2> QED
      BY <1>1, <2>3, <2>5, <2>6 DEF TabInv
  <1> QED
    BY <1>2, <1>3, <1>4 DEF Next, Does

LEMMA TabInvariance == Spec => []TabInv
  BY TabInvInit, TabInvStep, PTL DEF Spec

\* The states of the records and the tabs have their shape, numbers of updates
\* are unique, and what a tab shows or fetched is never longer than the list.
THEOREM TypesHold == Spec => []TypeOK
  <1>1. TabInv => TypeOK
    <2> SUFFICES ASSUME TabInv PROVE TypeOK
      OBVIOUS
    <2>1. Types /\ Tokens /\ TabTypes
      BY DEF TabInv, Inv
    <2>2. /\ counter \in Nat /\ there \in [{"project", "conversation"} -> BOOLEAN]
          /\ row \in [Fields -> Request \cup {Initial}]
          /\ \A l \in Lists : log[l] \in Seq(Request) /\ IsInjective(log[l])
          /\ page \in [Tab -> DOMAIN Components]
      BY <2>1 DEF Types, LogOK, TabTypes
    <2>3. /\ \A u \in stored : /\ u.num \in 1 .. counter /\ u.req \in Request
                               /\ DOMAIN u.says \subseteq Fields
          /\ \A u, v \in stored : u.num = v.num => u = v
      BY <2>1 DEF Types, StoredOK
    <2>4. ASSUME NEW q \in Request
          PROVE  /\ req[q].num \in 0 .. counter /\ req[q].tab \in Tab \cup {Other, Agent}
                 /\ before[q] \subseteq Request
      <3>1. req[q] \in ReqType /\ before[q] \in SUBSET Request
        BY <2>1 DEF Types
      <3>2. req[q].num \in Nat /\ req[q].tab \in Tab \cup {Other, Agent}
        BY <3>1 DEF ReqType
      <3> QED
        BY <2>1, <2>2, <3>1, <3>2 DEF Tokens
    <2>5. ASSUME NEW t \in Tab
          PROVE  /\ cursor[t] \in 0 .. counter /\ heard[t] \subseteq 1 .. cursor[t]
                 /\ \A s \in Component : view[t][s].upto \in 0 .. Len(log[ListOf(s)])
                 /\ \A f \in fetches[t] : f.list \in Components[page[t]] /\ f.upto <= Len(log[f.list])
      <3>1. Typed(t) /\ cursor[t] \in Nat
        BY <2>1 DEF TabTypes
      <3>2. \A s \in Component : Len(log[ListOf(s)]) \in Nat
        BY <2>2 DEF Component, Components, ListOf, Lists
      <3>3. \A s \in Component : view[t][s].upto \in 0 .. Len(log[ListOf(s)])
        BY <3>1, <3>2 DEF Typed, ShapeOf
      <3> QED
        BY <2>2, <3>1, <3>3 DEF Typed, FetchShape
    <2> QED
      BY <2>2, <2>3, <2>4, <2>5 DEF TypeOK
  <1> QED
    BY <1>1, TabInvariance, PTL

\* Once requests, updates and fetches have settled, a component shows every change
\* it was told about, however the answers of its lists overtook each other and
\* the updates; or it knows less than it once did, and that is what `stale' says.
THEOREM TabsShowTheirUpdates == Spec => []TabsShowWhatTheyHeard
  <1>1. TabInv => TabsShowWhatTheyHeard
    <2> SUFFICES ASSUME TabInv, NEW t \in Tab, AtRest(t), NEW s \in Components[page[t]],
                        ~view[t][s].stale, NEW i \in DOMAIN log[ListOf(s)], Told(t, s, i)
                 PROVE  log[ListOf(s)][i] \in Shown(t, s)
      BY DEF TabsShowWhatTheyHeard
    <2>1. s \in Component /\ ListOf(s) \in Lists
      BY DEF TabInv, TabTypes, Component, Components, ListOf, Lists
    <2>2. i \in Nat /\ 1 <= i /\ view[t][s].upto \in Nat
      <3>1. i \in 1 .. Len(log[ListOf(s)]) /\ Len(log[ListOf(s)]) \in Nat
        BY <2>1 DEF TabInv, Inv, Types
      <3> QED
        BY <2>1, <3>1, StillMoves DEF ShapeOf
    <2>3. PICK u \in stored :
            /\ u.num \in heard[t] /\ u.type \in Announces(s)
            /\ IF u.type = "project.deleted" THEN Position(u.req) = i ELSE Position(u.req) >= i
      BY DEF Told
    <2>4. Concerns(u, i)
      BY <2>2, <2>3, PositionIsNat DEF Concerns, TabInv, Inv, Types
    <2>5. SeenIn(t, s, u)
      BY <2>3 DEF TabInv, HeardIsSeen, Awaited, AtRest
    <2>6. Sees(view[t][s], i, log[ListOf(s)][i])
      BY <2>4, <2>5 DEF SeenIn
    <2>7. view[t][s].stale # TRUE
      BY Zenon
    <2>8. i <= view[t][s].upto \/ log[ListOf(s)][i] \in view[t][s].own
      BY <2>6, <2>7 DEF Sees
    <2> QED
      BY <2>2, <2>8 DEF Shown
  <1> QED
    BY <1>1, TabInvariance, PTL

=============================================================================
