--------------------------- MODULE RecordSyncProofs ---------------------------
(***************************************************************************)
(* Proofs about the records of a user and the requests that change them,   *)
(* for any number of requests and tabs, whatever kinds of request arrive   *)
(* and whatever fails.                                                     *)
(***************************************************************************)
EXTENDS RecordSync, TLAPS

-----------------------------------------------------------------------------
(* The inductive invariant.                                                *)

\* Labels of a request that has written nothing with its operation.
Early == {"no", "verify", "number", "commit", "write"}
\* Labels of a request that has changed a list and may still fail.
Torn == {"reload", "register", "rollback"}
Labels == Early \cup Torn \cup {"push", "numberSync", "sync", "answer", "ok", "error"}

AnyKind == ConversationRequests \cup TodoRequests \cup TaskRequests
           \cup ProjectRequests \cup SettingsRequests
Ops == ConversationOps \cup Synced \cup ProjectRequests \cup SettingsRequests

ReqType == [kind : AnyKind \cup {"none"}, op : Ops \cup {"none"}, at : Labels,
            tab : Tab \cup {Other, Agent}, num : Nat, title : Request \cup {Initial}]

LogOK ==
  /\ \A l \in Lists : log[l] \in Seq(Request) /\ IsInjective(log[l])
  /\ \A l, m \in Lists : l # m => ToSet(log[l]) \cap ToSet(log[m]) = {}

StoredOK ==
  /\ \A u \in stored : /\ u.num \in 1 .. counter /\ u.req \in Request
                       /\ DOMAIN u.says \subseteq Fields
  /\ \A u, v \in stored : u.num = v.num => u = v

Types ==
  /\ counter \in Nat
  /\ there \in [{"project", "conversation"} -> BOOLEAN]
  /\ row \in [Fields -> Request \cup {Initial}]
  /\ log \in [Lists -> Seq(Request)] /\ req \in [Request -> ReqType]
  /\ before \in [Request -> SUBSET Request]
  /\ LogOK /\ StoredOK

\* The operation fits the kind of request, and the label the operation.
Shape(x) ==
  /\ x.at = "no" => x.kind = "none" /\ x.op = "none" /\ x.num = 0
  /\ x.at # "no" => x.op \in Ops
  /\ x.op = "rename" => x.kind \in {"rename", "patch"}
  /\ x.op = "mode" => x.kind \in {"mode", "patch"}
  /\ x.op = "status" <=> x.kind \in {"archive", "restore"}
  /\ x.op \notin {"rename", "mode", "status"} => x.kind = x.op
  /\ x.at \in {"write", "reload", "register", "rollback", "numberSync", "sync"} => x.op \in Synced
  /\ x.at \in {"number", "commit", "push"} => x.op \notin Synced
  /\ x.at = "push" => x.kind = "archive"
  /\ x.at = "ok" => ~(x.kind = "patch" /\ x.op = "rename")
  /\ x.at = "reload" => x.op = "checkTodo"
  /\ x.at \in {"register", "rollback"} => x.op = "addTask"
Control == \A q \in Request : Shape(req[q])

Here == there.conversation
Second(q) == req[q].kind = "patch" /\ req[q].op = "mode"

\* q has written field f.
Landed(q, f) ==
  \/ f = "title" /\ ((req[q].op = "rename" /\ req[q].at \in {"answer", "ok"}) \/ Second(q))
  \/ f = "mode" /\ req[q].op = "mode" /\ req[q].at \in {"answer", "ok"}
  \/ f = "status" /\ req[q].op = "status" /\ req[q].at \in {"push", "answer", "ok"}
  \/ f \in SettingsFields /\ req[q].op \in {"settings", f} /\ req[q].at \in {"answer", "ok"}

\* f holds the value of a request that had not ended when q arrived.
Later(f, q) == row[f] \in Request \ {q} /\ row[f] \notin before[q]

LandedIsKept ==
  \A q \in Request, f \in Fields : Landed(q, f) =>
    row[f] = q \/ Later(f, q) \/ (f \notin SettingsFields /\ ~Here)

\* What a field holds was written by a request for that field, and announced.
RowIsAnnounced ==
  \A f \in Fields : row[f] # Initial =>
    /\ row[f] \in Request /\ Wrote(row[f], f)
    /\ \E u \in stored : u.req = row[f] /\ f \in DOMAIN u.says

\* A request that has not written left no trace, but for the renaming of a patch.
Untouched(q) ==
  /\ \A f \in Fields : row[f] # q
  /\ \A l \in Lists : q \notin ToSet(log[l])
  /\ \A u \in stored : u.req # q
Clean == \A q \in Request : req[q].at \in Early /\ ~Second(q) => Untouched(q)
HalfWay(q) == req[q].op = "rename" \/ req[q].at \in {"verify", "number", "commit", "error"}
Half ==
  \A q \in Request : req[q].kind = "patch" =>
    /\ \A l \in Lists : q \notin ToSet(log[l])
    /\ HalfWay(q) => \A u \in stored : u.req = q => DOMAIN u.says = {"title"}

\* A request that may still fail, or has, has changed the list of its operation
\* at most.
InList(l, op) == (l = "todos" /\ op = "checkTodo") \/ (l = "tasks" /\ op = "addTask")
Untold(q) ==
  /\ \A f \in Fields : row[f] # q
  /\ \A l \in Lists : q \in ToSet(log[l]) => InList(l, req[q].op)
  /\ \A u \in stored : u.req # q
Failed ==
  \A q \in Request : req[q].at \in Torn \cup {"error"} => Second(q) \/ Untold(q)

Past == \A q \in Request : \A r \in before[q] : Ended(r)

\* A title that was read, and a value that was announced, is the row's, or the
\* row was written by a request that overlaps.
TitleIsRead ==
  \A q \in Request : req[q].at \in {"number", "commit"} /\ req[q].op \in {"mode", "status"} =>
    req[q].title = row.title \/ Later("title", q)
SaidIsRow ==
  \A f \in Fields : f \in SettingsFields \/ Here =>
    \A u \in Carry(f) : u.says[f] = row[f] \/ Later(f, u.req)

\* The numbers of a request are above those of the requests that had ended.
InOrder ==
  \A q \in Request : \A r \in before[q], u \in stored : u.req = r =>
    /\ req[q].num = 0 \/ u.num < req[q].num
    /\ \A v \in stored : v.req = q => u.num < v.num

\* A number that is held is used once.
Holds(q) == req[q].at \in {"commit", "sync"}
Tokens ==
  /\ \A q \in Request : req[q].num <= counter
  /\ \A q \in Request : Holds(q) =>
       req[q].num # 0 /\ \A u \in stored : u.num # req[q].num
  /\ \A q, r \in Request : q # r /\ Holds(q) /\ Holds(r) => req[q].num # req[r].num

Inv ==
  /\ Types /\ Control /\ LandedIsKept /\ RowIsAnnounced /\ Clean /\ Half /\ Failed /\ Past
  /\ TitleIsRead /\ SaidIsRow /\ InOrder /\ Tokens

-----------------------------------------------------------------------------
(* A step of a request.                                                    *)

USE RecordConstants, KnownKinds

New == stored' \ stored

\* Request q goes on and writes the fields W.
Goes_On(q) ==
  /\ req' \in [Request -> ReqType] /\ Shape(req'[q])
  /\ \A r \in Request \ {q} : req'[r] = req[r]
  /\ before' = before
  /\ ~Ended(q) /\ req'[q].kind = req[q].kind
  /\ req'[q].op = req[q].op \/ (req[q].op = "rename" /\ Second(q)')

\* Back to a label before its writes, q has written nothing.
Undone(q) ==
  /\ req'[q].at \in Early =>
       \/ req'[q].op = req[q].op /\ req[q].at \in Early
       \/ req[q].op = "rename" /\ Second(q)'
  /\ req'[q].at \in Torn \cup {"error"} =>
       /\ req[q].at \in Early \cup Torn /\ req'[q].op = req[q].op
       /\ UNCHANGED <<stored, row>>
  /\ req'[q].at \in Early \cup {"error"} => UNCHANGED <<stored, row, log, there>>

Numbers(q) ==
  /\ counter' \in Nat /\ counter <= counter'
  /\ req'[q].num = req[q].num \/ (req'[q].num = counter' /\ counter < counter')
  /\ Holds(q)' => req'[q].num = counter' /\ counter < counter' /\ UNCHANGED stored

Announced(q) ==
  /\ stored \subseteq stored'
  /\ \A u \in New :
       /\ u.req = q /\ DOMAIN u.says \subseteq Fields
       /\ (Holds(q) /\ u.num = req[q].num) \/ (u.num = counter' /\ counter < counter')
       /\ req[q].op = "rename" => DOMAIN u.says = {"title"}
       /\ \A f \in DOMAIN u.says :
            u.says[f] = row'[f] \/ Later(f, q)' \/ (f \notin SettingsFields /\ ~Here')
  /\ \A u, v \in New : u.num = v.num => u = v

Written(q, W) ==
  /\ \A f \in Fields : row'[f] = IF f \in W THEN q ELSE row[f]
  /\ W # {} => req[q].at = "commit" /\ (Second(q) => W = {"mode"})
  /\ \A f \in W : Wrote(q, f) /\ \E u \in stored' : u.req = q /\ f \in DOMAIN u.says
  /\ \A f \in Fields : Landed(q, f)' =>
       Landed(q, f) \/ f \in W \/ (f \notin SettingsFields /\ ~Here')

Logged(q) ==
  \/ UNCHANGED log
  \/ /\ req[q].at \in Early /\ req[q].kind # "patch"
     /\ \E l \in Lists : /\ log' = [log EXCEPT ![l] = Append(log[l], q)]
                         /\ req'[q].at \in Torn => InList(l, req[q].op)

TitleRead(q) ==
  req'[q].at \in {"number", "commit"} /\ req'[q].op \in {"mode", "status"} =>
    \/ req'[q].title = row.title
    \/ /\ req'[q].title = req[q].title /\ req'[q].op = req[q].op
       /\ req[q].at \in {"number", "commit"}

Step(q, W) ==
  /\ Goes_On(q) /\ Undone(q) /\ Numbers(q) /\ Announced(q) /\ Written(q, W) /\ Logged(q)
  /\ TitleRead(q)
  /\ there' \in [{"project", "conversation"} -> BOOLEAN] /\ (Here' => Here)
  /\ row' \in [Fields -> Request \cup {Initial}]

LEMMA AppendIs ==
  ASSUME NEW S, NEW s \in Seq(S), NEW x \in S
  PROVE  /\ Append(s, x) \in Seq(S) /\ Len(Append(s, x)) = Len(s) + 1
         /\ ToSet(Append(s, x)) = ToSet(s) \cup {x}
         /\ IsInjective(s) /\ x \notin ToSet(s) => IsInjective(Append(s, x))
  <1> DEFINE t == Append(s, x)
  <1>1. /\ t \in Seq(S) /\ Len(t) = Len(s) + 1 /\ Len(s) \in Nat
        /\ DOMAIN t = 1 .. Len(s) + 1 /\ DOMAIN s = 1 .. Len(s)
        /\ t[Len(s) + 1] = x /\ \A i \in 1 .. Len(s) : t[i] = s[i]
    OBVIOUS
  <1> HIDE DEF t
  <1>2. ToSet(t) = ToSet(s) \cup {x}
    <2>1. \A i \in 1 .. Len(s) + 1 : i \in 1 .. Len(s) \/ i = Len(s) + 1
      BY <1>1
    <2>2. Len(s) + 1 \in 1 .. Len(s) + 1 /\ \A i \in 1 .. Len(s) : i \in 1 .. Len(s) + 1
      BY <1>1
    <2> QED
      BY <1>1, <2>1, <2>2 DEF ToSet
  <1>3. ASSUME IsInjective(s), x \notin ToSet(s) PROVE IsInjective(t)
    <2>1. \A i \in 1 .. Len(s) + 1 : i \in 1 .. Len(s) \/ i = Len(s) + 1
      BY <1>1
    <2>2. \A i \in 1 .. Len(s) : s[i] # x
      BY <1>1, <1>3 DEF ToSet
    <2>3. \A i, j \in 1 .. Len(s) : s[i] = s[j] => i = j
      BY <1>1, <1>3 DEF IsInjective
    <2>4. \A i, j \in 1 .. Len(s) + 1 : t[i] = t[j] => i = j
      BY <1>1, <2>1, <2>2, <2>3
    <2> QED
      BY <1>1, <2>4 DEF IsInjective
  <1> QED
    BY <1>1, <1>2, <1>3 DEF t

\* What a step does to the logs.
LogGrows(q) ==
  /\ \A l \in Lists : /\ ToSet(log[l]) \subseteq ToSet(log'[l])
                      /\ ToSet(log'[l]) \subseteq ToSet(log[l]) \cup {q}
                      /\ Len(log[l]) <= Len(log'[l])

LEMMA LogKept ==
  ASSUME Types, Clean, NEW q \in Request, Logged(q)
  PROVE  log' \in [Lists -> Seq(Request)] /\ LogOK' /\ LogGrows(q)
  <1>1. CASE UNCHANGED log
    BY <1>1 DEF Types, LogOK, LogGrows
  <1>2. ASSUME NEW k \in Lists, log' = [log EXCEPT ![k] = Append(log[k], q)],
               \A l \in Lists : q \notin ToSet(log[l])
        PROVE  log' \in [Lists -> Seq(Request)] /\ LogOK' /\ LogGrows(q)
    <2>1. log \in [Lists -> Seq(Request)] /\ LogOK
      BY DEF Types
    <2>2. PICK t : t = Append(log[k], q)
      OBVIOUS
    <2>3. /\ t \in Seq(Request) /\ Len(t) = Len(log[k]) + 1
          /\ ToSet(t) = ToSet(log[k]) \cup {q} /\ IsInjective(t)
      BY <1>2, <2>1, <2>2, AppendIs DEF LogOK
    <2>4. /\ log' \in [Lists -> Seq(Request)] /\ log'[k] = t
          /\ \A l \in Lists \ {k} : log'[l] = log[l]
      BY <1>2, <2>1, <2>2, <2>3
    <2>5. \A l \in Lists : log'[l] \in Seq(Request) /\ IsInjective(log'[l])
      BY <2>1, <2>3, <2>4 DEF LogOK
    <2>6. \A l \in Lists : ToSet(log'[l]) = IF l = k THEN ToSet(log[l]) \cup {q} ELSE ToSet(log[l])
      BY <2>3, <2>4
    <2>7. \A l, m \in Lists : l # m => ToSet(log'[l]) \cap ToSet(log'[m]) = {}
      <3>1. /\ \A l \in Lists \ {k} : ToSet(log'[l]) = ToSet(log[l])
            /\ ToSet(log'[k]) = ToSet(log[k]) \cup {q}
        BY <2>6
      <3>2. \A l, m \in Lists : l # m => ToSet(log[l]) \cap ToSet(log[m]) = {}
        BY <2>1 DEF LogOK
      <3>3. \A m \in Lists : m # k => (ToSet(log[k]) \cup {q}) \cap ToSet(log[m]) = {}
        BY <1>2, <3>2
      <3> QED
        BY <3>1, <3>2, <3>3, Zenon
    <2>8. \A l \in Lists : Len(log[l]) \in Nat /\ Len(log[l]) <= Len(log'[l])
      <3>1. \A l \in Lists : Len(log[l]) \in Nat
        BY <2>1
      <3>2. Len(log[k]) <= Len(t)
        BY <2>3, <3>1
      <3> QED
        BY <2>4, <3>1, <3>2
    <2> QED
      BY <2>4, <2>5, <2>6, <2>7, <2>8 DEF LogOK, LogGrows
  <1> QED
    BY <1>1, <1>2 DEF Logged, Clean, Untouched, Second

\* Who is in a before set has ended, so it is not the request of the step.
LEMMA StepIsLater ==
  ASSUME Types, Past, NEW q \in Request, NEW W \in SUBSET Fields, Step(q, W)
  PROVE  /\ \A r \in Request : q \notin before[r] /\ before'[r] = before[r]
         /\ Past'
  <1>1. /\ ~Ended(q) /\ before' = before /\ \A r \in Request \ {q} : req'[r] = req[r]
    BY DEF Step, Goes_On
  <1>2. \A r \in Request : q \notin before[r]
    BY <1>1 DEF Past
  <1>3. \A r \in Request : before[r] \subseteq Request
    BY DEF Types
  <1>4. \A r \in Request \ {q} : Ended(r)' <=> Ended(r)
    BY <1>1 DEF Ended
  <1> QED
    BY <1>1, <1>2, <1>3, <1>4 DEF Past

LEMMA StepTypes ==
  ASSUME Types, Control, Clean, Tokens, NEW q \in Request, NEW W \in SUBSET Fields, Step(q, W)
  PROVE  Types' /\ Control' /\ LogGrows(q)
  <1>1. log' \in [Lists -> Seq(Request)] /\ LogOK' /\ LogGrows(q)
    BY LogKept DEF Step
  <1>2. Control'
    BY DEF Step, Goes_On, Control
  <1>3. counter \in Nat /\ counter' \in Nat /\ counter <= counter'
    BY DEF Types, Step, Numbers
  <1>4. \A u \in New : /\ u.req = q /\ DOMAIN u.says \subseteq Fields
                       /\ u.num \in 1 .. counter' /\ \A v \in stored : u.num # v.num
    <2> SUFFICES ASSUME NEW u \in New
                 PROVE  /\ u.req = q /\ DOMAIN u.says \subseteq Fields
                        /\ u.num \in 1 .. counter' /\ \A v \in stored : u.num # v.num
      OBVIOUS
    <2>1. /\ u.req = q /\ DOMAIN u.says \subseteq Fields
          /\ \/ Holds(q) /\ u.num = req[q].num
             \/ u.num = counter' /\ counter < counter'
      BY DEF Step, Announced
    <2>2. req[q].num \in Nat
      BY DEF Types, ReqType
    <2>3. CASE Holds(q) /\ u.num = req[q].num
      BY <1>3, <2>1, <2>2, <2>3 DEF Tokens
    <2>4. CASE u.num = counter' /\ counter < counter'
      <3>1. \A v \in stored : v.num \in Nat /\ v.num <= counter
        BY <1>3 DEF Types, StoredOK
      <3> QED
        BY <1>3, <2>1, <2>4, <3>1
    <2> QED
      BY <2>1, <2>3, <2>4
  <1>5. \A u \in stored' : u \in stored \/ u \in New
    BY DEF New
  <1>6. \A u \in stored : /\ u.num \in 1 .. counter' /\ u.req \in Request
                          /\ DOMAIN u.says \subseteq Fields
    BY <1>3 DEF Types, StoredOK
  <1>7. StoredOK'
    <2>1. \A u, v \in New : u.num = v.num => u = v
      BY DEF Step, Announced
    <2>2. \A u, v \in stored : u.num = v.num => u = v
      BY DEF Types, StoredOK
    <2>3. \A u, v \in stored' : u.num = v.num => u = v
      BY <1>4, <1>5, <2>1, <2>2
    <2> QED
      BY <1>4, <1>5, <1>6, <2>3 DEF StoredOK
  <1>8. /\ there' \in [{"project", "conversation"} -> BOOLEAN]
        /\ row' \in [Fields -> Request \cup {Initial}]
        /\ req' \in [Request -> ReqType]
        /\ before' \in [Request -> SUBSET Request]
    BY DEF Step, Goes_On, Types
  <1> QED
    BY <1>1, <1>2, <1>3, <1>7, <1>8 DEF Types

LEMMA StepTokens ==
  ASSUME Types, Tokens, NEW q \in Request, NEW W \in SUBSET Fields, Step(q, W)
  PROVE  Tokens'
  <1>1. counter \in Nat /\ counter' \in Nat /\ counter <= counter'
    BY DEF Types, Step, Numbers
  <1>2. \A r \in Request : req[r].num \in Nat /\ req[r].num <= counter
    BY DEF Types, ReqType, Tokens
  <1>3. \A r \in Request \ {q} : req'[r] = req[r] /\ (Holds(r)' <=> Holds(r))
    BY DEF Step, Goes_On, Holds
  <1>4. /\ req'[q].num <= counter'
        /\ Holds(q)' => req'[q].num = counter' /\ counter < counter' /\ UNCHANGED stored
    BY <1>1, <1>2 DEF Step, Numbers
  <1>5. \A r \in Request : req'[r].num <= counter'
    BY <1>1, <1>2, <1>3, <1>4
  <1>6. \A u \in stored : u.num \in Nat /\ u.num <= counter
    BY <1>1 DEF Types, StoredOK
  <1>7. Holds(q)' => req'[q].num # 0 /\ \A u \in stored' : u.num # req'[q].num
    BY <1>1, <1>4, <1>6
  <1>8. ASSUME NEW r \in Request \ {q}, Holds(r)
        PROVE  req[r].num # 0 /\ \A u \in stored' : u.num # req[r].num
    <2>1. \A u \in New : \/ Holds(q) /\ u.num = req[q].num
                         \/ u.num = counter' /\ counter < counter'
      BY DEF Step, Announced
    <2>2. \A u \in New : u.num # req[r].num
      BY <1>1, <1>2, <1>8, <2>1 DEF Tokens
    <2> QED
      BY <1>8, <2>2 DEF Tokens, New
  <1>9. \A r \in Request \ {q} : Holds(q)' => req'[q].num # req[r].num
    BY <1>1, <1>2, <1>4
  <1>10. \A r, s \in Request \ {q} : r # s /\ Holds(r) /\ Holds(s) => req[r].num # req[s].num
    BY DEF Tokens
  <1> QED
    <2>1. \A r \in Request : Holds(r)' =>
            req'[r].num # 0 /\ \A u \in stored' : u.num # req'[r].num
      BY <1>3, <1>7, <1>8
    <2>2. \A r, s \in Request : r # s /\ Holds(r)' /\ Holds(s)' => req'[r].num # req'[s].num
      BY <1>3, <1>9, <1>10
    <2> QED
      BY <1>5, <2>1, <2>2 DEF Tokens

LEMMA StepInOrder ==
  ASSUME Types, Past, Tokens, InOrder, NEW q \in Request, NEW W \in SUBSET Fields, Step(q, W)
  PROVE  InOrder'
  <1>1. \A r \in Request : q \notin before[r] /\ before'[r] = before[r]
    BY StepIsLater
  <1>2. counter \in Nat /\ counter' \in Nat /\ counter <= counter'
    BY DEF Types, Step, Numbers
  <1>3. \A r \in Request \ {q} : req'[r] = req[r]
    BY DEF Step, Goes_On
  <1>4. req'[q].num = req[q].num \/ (req'[q].num = counter' /\ counter < counter')
    BY DEF Step, Numbers
  <1>5. \A u \in stored : u.num \in Nat /\ u.num <= counter
    BY <1>2 DEF Types, StoredOK
  <1>6. \A u \in stored' : u \in stored \/
          /\ u.req = q
          /\ (Holds(q) /\ u.num = req[q].num) \/ (u.num = counter' /\ counter < counter')
    BY DEF Step, Announced, New
  <1>7. ASSUME NEW p \in Request, NEW r \in before[p], NEW u \in stored', u.req = r
        PROVE  /\ req'[p].num = 0 \/ u.num < req'[p].num
               /\ \A v \in stored' : v.req = p => u.num < v.num
    <2>1. u \in stored
      BY <1>1, <1>6, <1>7
    <2>2. u.num \in Nat /\ u.num <= counter
      BY <1>5, <2>1
    <2>3. /\ req[p].num = 0 \/ u.num < req[p].num
          /\ \A v \in stored : v.req = p => u.num < v.num
      BY <1>7, <2>1 DEF InOrder
    <2>4. req'[p].num = 0 \/ u.num < req'[p].num
      BY <1>2, <1>3, <1>4, <2>2, <2>3
    <2>5. ASSUME NEW v \in stored', v.req = p PROVE u.num < v.num
      <3>1. CASE v \in stored
        BY <2>3, <2>5, <3>1
      <3>2. CASE p = q /\ Holds(q) /\ v.num = req[q].num
        BY <2>3, <3>2 DEF Tokens
      <3>3. CASE v.num = counter' /\ counter < counter'
        BY <1>2, <2>2, <3>3
      <3> QED
        BY <1>6, <2>5, <3>1, <3>2, <3>3
    <2> QED
      BY <2>4, <2>5
  <1>8. \A p \in Request : before'[p] = before[p]
    BY <1>1
  <1> QED
    BY <1>7, <1>8 DEF InOrder

LEMMA StepLater ==
  ASSUME Types, Past, NEW q \in Request, NEW W \in SUBSET Fields, Step(q, W),
         NEW f \in Fields, NEW r \in Request
  PROVE  /\ f \in W => row'[f] = q /\ (r # q => Later(f, r)')
         /\ f \notin W => row'[f] = row[f] /\ (Later(f, r)' <=> Later(f, r))
  <1>1. q \notin before[r] /\ before'[r] = before[r]
    BY StepIsLater
  <1>2. row'[f] = IF f \in W THEN q ELSE row[f]
    BY DEF Step, Written
  <1> QED
    BY <1>1, <1>2 DEF Later

LEMMA StepWrote ==
  ASSUME Types, Control, NEW q \in Request, NEW W \in SUBSET Fields, Step(q, W)
  PROVE  \A r \in Request, f \in Fields : Wrote(r, f) => Wrote(r, f)'
  <1>1. /\ \A r \in Request \ {q} : req'[r] = req[r]
        /\ req'[q].kind = req[q].kind /\ (req[q].op = "status" => req'[q].op = "status")
    BY DEF Step, Goes_On
  <1> QED
    BY <1>1 DEF Wrote

LEMMA StepRow ==
  ASSUME Types, Control, Past, LandedIsKept, RowIsAnnounced,
         NEW q \in Request, NEW W \in SUBSET Fields, Step(q, W)
  PROVE  LandedIsKept' /\ RowIsAnnounced'
  <1>1. \A r \in Request \ {q} : req'[r] = req[r]
    BY DEF Step, Goes_On
  <1>2. \A f \in Fields, r \in Request :
          /\ f \in W => row'[f] = q /\ (r # q => Later(f, r)')
          /\ f \notin W => row'[f] = row[f] /\ (Later(f, r)' <=> Later(f, r))
    BY StepLater
  <1>3. Here' => Here
    BY DEF Step
  <1>4. ASSUME NEW r \in Request, NEW f \in Fields, Landed(r, f)'
        PROVE  row'[f] = r \/ Later(f, r)' \/ (f \notin SettingsFields /\ ~Here')
    <2>1. CASE r # q
      <3>1. Landed(r, f)
        BY <1>1, <1>4, <2>1 DEF Landed, Second
      <3> QED
        BY <1>2, <1>3, <2>1, <3>1 DEF LandedIsKept
    <2>2. CASE r = q
      <3>1. Landed(q, f) \/ f \in W \/ (f \notin SettingsFields /\ ~Here')
        BY <1>4, <2>2 DEF Step, Written
      <3> QED
        BY <1>2, <1>3, <2>2, <3>1 DEF LandedIsKept
    <2> QED
      BY <2>1, <2>2
  <1>5. ASSUME NEW f \in Fields, row'[f] # Initial
        PROVE  \E r \in Request : /\ r = row'[f] /\ Wrote(r, f)'
                                  /\ \E u \in stored' : u.req = r /\ f \in DOMAIN u.says
    <2>1. \A r \in Request : Wrote(r, f) => Wrote(r, f)'
      BY StepWrote
    <2>2. CASE f \in W
      <3>1. Wrote(q, f) /\ \E u \in stored' : u.req = q /\ f \in DOMAIN u.says
        BY <2>2 DEF Step, Written
      <3>2. row'[f] = q /\ Wrote(q, f)'
        BY <1>2, <2>1, <2>2, <3>1
      <3> QED
        BY <3>1, <3>2
    <2>3. CASE f \notin W
      <3>1. PICK r \in Request : r = row[f] /\ row'[f] = r /\ Wrote(r, f)
        BY <1>2, <1>5, <2>3 DEF RowIsAnnounced
      <3>2. PICK u \in stored : u.req = r /\ f \in DOMAIN u.says
        BY <1>5, <3>1 DEF RowIsAnnounced
      <3>3. u \in stored' /\ Wrote(r, f)'
        BY <2>1, <3>1 DEF Step, Announced
      <3> QED
        BY <3>1, <3>2, <3>3
    <2> QED
      BY <2>2, <2>3
  <1>6. LandedIsKept'
    BY <1>4 DEF LandedIsKept
  <1>7. RowIsAnnounced'
    BY <1>5 DEF RowIsAnnounced, Wrote
  <1> QED
    BY <1>6, <1>7

LEMMA StepUntouched ==
  ASSUME Types, Clean, NEW q \in Request, NEW W \in SUBSET Fields, Step(q, W),
         NEW r \in Request, r # q
  PROVE  /\ Untouched(r) => Untouched(r)'
         /\ Untold(r) => Untold(r)'
  <1>1. LogGrows(q)
    BY LogKept DEF Step
  <1>2. \A f \in Fields : row'[f] = IF f \in W THEN q ELSE row[f]
    BY DEF Step, Written
  <1>3. \A u \in stored' : u \in stored \/ u.req = q
    BY DEF Step, Announced, New
  <1>4. req'[r] = req[r]
    BY DEF Step, Goes_On
  <1>5. \A l \in Lists : r \in ToSet(log'[l]) => r \in ToSet(log[l])
    BY <1>1 DEF LogGrows
  <1>6. \A f \in Fields : row[f] # r => row'[f] # r
    BY <1>2
  <1>7. Untouched(r) => Untouched(r)'
    BY <1>3, <1>5, <1>6 DEF Untouched
  <1>8. Untold(r) => Untold(r)'
    BY <1>3, <1>4, <1>5, <1>6 DEF Untold
  <1> QED
    BY <1>7, <1>8

LEMMA StepClean ==
  ASSUME Types, Control, Clean, Half, Failed, NEW q \in Request, NEW W \in SUBSET Fields,
         Step(q, W)
  PROVE  Clean' /\ Half' /\ Failed'
  <1>1. /\ \A r \in Request \ {q} : req'[r] = req[r] /\ (Second(r)' <=> Second(r))
        /\ req'[q].kind = req[q].kind
        /\ req'[q].op = req[q].op \/ (req[q].op = "rename" /\ Second(q)')
    BY DEF Step, Goes_On, Second
  <1>2. \A r \in Request \ {q} : /\ Untouched(r) => Untouched(r)'
                                 /\ Untold(r) => Untold(r)'
    BY StepUntouched
  <1>3. Undone(q)
    BY DEF Step
  <1>4. Untouched(q) /\ UNCHANGED <<stored, row, log>> => Untouched(q)'
    BY DEF Untouched
  <1>5. Clean'
    <2>1. ASSUME NEW r \in Request \ {q}, req'[r].at \in Early, ~Second(r)'
          PROVE  Untouched(r)'
      BY <1>1, <1>2, <2>1 DEF Clean
    <2>2. ASSUME req'[q].at \in Early, ~Second(q)' PROVE Untouched(q)'
      BY <1>1, <1>3, <1>4, <2>2 DEF Clean, Undone, Second
    <2> QED
      BY <2>1, <2>2 DEF Clean
  <1>6. Half'
    <2>1. ASSUME NEW r \in Request, req'[r].kind = "patch", NEW l \in Lists
          PROVE  r \notin ToSet(log'[l])
      <3>1. req[r].kind = "patch"
        BY <1>1, <2>1
      <3>2. r \notin ToSet(log[l])
        BY <3>1 DEF Half
      <3>3. CASE r # q
        BY <3>2, <3>3, LogKept DEF Step, LogGrows
      <3>4. CASE r = q
        BY <3>1, <3>2, <3>4 DEF Step, Logged
      <3> QED
        BY <3>3, <3>4
    <2>2. ASSUME NEW r \in Request, req'[r].kind = "patch", HalfWay(r)',
                 NEW u \in stored', u.req = r
          PROVE  DOMAIN u.says = {"title"}
      <3>1. CASE r # q
        <4>1. u \in stored
          BY <2>2, <3>1 DEF Step, Announced, New
        <4>2. req[r].kind = "patch" /\ HalfWay(r)
          BY <1>1, <2>2, <3>1 DEF HalfWay
        <4> QED
          BY <2>2, <4>1, <4>2 DEF Half
      <3>2. CASE r = q /\ u \notin stored
        <4>1. UNCHANGED stored \/ req'[q].at \notin {"verify", "number", "commit", "error"}
          BY <1>3 DEF Undone, Early
        <4>2. req[q].op = "rename"
          BY <1>1, <2>2, <3>2, <4>1 DEF Second, HalfWay
        <4> QED
          BY <2>2, <3>2, <4>2 DEF Step, Announced, New
      <3>3. CASE r = q /\ u \in stored
        <4>1. CASE req[q].op = "rename"
          <5>1. req[q].kind = "patch" /\ HalfWay(q)
            BY <1>1, <2>2, <3>3, <4>1 DEF HalfWay
          <5> QED
            BY <2>2, <3>3, <5>1 DEF Half
        <4>2. CASE req[q].op # "rename"
          <5>1. /\ req'[q].op = req[q].op /\ req[q].kind = "patch"
                /\ req'[q].at \in {"verify", "number", "commit", "error"}
            BY <1>1, <2>2, <3>3, <4>2 DEF HalfWay
          <5>2. Shape(req[q])
            BY DEF Control
          <5>3. req[q].at \in Early
            <6>1. req[q].at \notin Torn
              BY <5>1, <5>2 DEF Shape, Synced, TodoRequests, TaskRequests, Torn
            <6> QED
              BY <1>3, <4>2, <5>1, <6>1 DEF Undone, Early
          <5>4. CASE Second(q)
            <6>1. req[q].at \notin {"no", "write"}
              BY <5>2, <5>4 DEF Shape, Second, Synced, TodoRequests, TaskRequests
            <6>2. HalfWay(q)
              BY <5>3, <6>1 DEF Early, HalfWay
            <6> QED
              BY <2>2, <3>3, <5>1, <6>2 DEF Half
          <5>5. CASE ~Second(q)
            BY <2>2, <3>3, <5>3, <5>5 DEF Clean, Untouched
          <5> QED
            BY <5>4, <5>5
        <4> QED
          BY <4>1, <4>2
      <3> QED
        BY <3>1, <3>2, <3>3
    <2> QED
      BY <2>1, <2>2 DEF Half
  <1>7. Failed'
    <2>1. ASSUME NEW r \in Request \ {q}, req'[r].at \in Torn \cup {"error"}
          PROVE  Second(r)' \/ Untold(r)'
      BY <1>1, <1>2, <2>1 DEF Failed
    <2>2. ASSUME req'[q].at \in Torn \cup {"error"}
          PROVE  Second(q)' \/ Untold(q)'
      <3>1. /\ req[q].at \in Early \cup Torn /\ req'[q].op = req[q].op
            /\ UNCHANGED <<stored, row>>
        BY <1>3, <2>2 DEF Undone
      <3>2. CASE Second(q)
        BY <1>1, <3>1, <3>2 DEF Second
      <3>3. CASE ~Second(q)
        <4>1. Untold(q)
          BY <3>1, <3>3 DEF Clean, Failed, Untouched, Untold
        <4>2. CASE UNCHANGED log
          BY <3>1, <4>1, <4>2 DEF Untold
        <4>3. CASE log' # log
          <5>1. PICK k \in Lists : /\ log' = [log EXCEPT ![k] = Append(log[k], q)]
                                   /\ req'[q].at \in Torn => InList(k, req[q].op)
            BY <4>3 DEF Step, Logged
          <5>2. req'[q].at # "error"
            BY <1>3, <4>3 DEF Undone
          <5>3. InList(k, req[q].op)
            BY <2>2, <5>1, <5>2
          <5>4. \A l \in Lists \ {k} : log'[l] = log[l]
            BY <5>1 DEF Types
          <5>5. \A l \in Lists : q \in ToSet(log'[l]) => InList(l, req'[q].op)
            BY <3>1, <4>1, <5>3, <5>4 DEF Untold
          <5> QED
            BY <3>1, <4>1, <5>5 DEF Untold
        <4> QED
          BY <4>2, <4>3
      <3> QED
        BY <3>2, <3>3
    <2> QED
      BY <2>1, <2>2 DEF Failed
  <1> QED
    BY <1>5, <1>6, <1>7

LEMMA StepTold ==
  ASSUME Types, Clean, Half, Past, TitleIsRead, SaidIsRow,
         NEW q \in Request, NEW W \in SUBSET Fields, Step(q, W)
  PROVE  TitleIsRead' /\ SaidIsRow'
  <1>1. \A r \in Request \ {q} : req'[r] = req[r]
    BY DEF Step, Goes_On
  <1>2. \A f \in Fields, r \in Request :
          /\ f \in W => row'[f] = q /\ (r # q => Later(f, r)')
          /\ f \notin W => row'[f] = row[f] /\ (Later(f, r)' <=> Later(f, r))
    BY StepLater
  <1>3. "title" \in Fields
    BY DEF Fields
  <1>4. TitleIsRead'
    <2> SUFFICES ASSUME NEW r \in Request, req'[r].at \in {"number", "commit"},
                        req'[r].op \in {"mode", "status"}
                 PROVE  req'[r].title = row'.title \/ Later("title", r)'
      BY DEF TitleIsRead
    <2>1. CASE r # q
      BY <1>1, <1>2, <1>3, <2>1 DEF TitleIsRead
    <2>2. CASE r = q
      <3>1. UNCHANGED row
        BY <2>2 DEF Step, Undone, Early
      <3>2. req'[q].title = row.title \/
              /\ req'[q].title = req[q].title /\ req'[q].op = req[q].op
              /\ req[q].at \in {"number", "commit"}
        BY <2>2 DEF Step, TitleRead
      <3>3. q \notin before[q] /\ before'[q] = before[q]
        BY StepIsLater
      <3> QED
        BY <2>2, <3>1, <3>2, <3>3 DEF TitleIsRead, Later
    <2> QED
      BY <2>1, <2>2
  <1>5. ASSUME NEW f \in Fields, f \in SettingsFields \/ Here', NEW u \in stored',
               f \in DOMAIN u.says
        PROVE  u.says[f] = row'[f] \/ Later(f, u.req)'
    <2>1. CASE u \notin stored
      <3>1. u.req = q /\ (u.says[f] = row'[f] \/ Later(f, q)')
        BY <1>5, <2>1 DEF Step, Announced, New
      <3> QED
        BY <3>1 DEF Later
    <2>2. CASE u \in stored
      <3>1. u.req \in Request
        BY <2>2 DEF Types, StoredOK
      <3>2. u.says[f] = row[f] \/ Later(f, u.req)
        BY <1>5, <2>2 DEF SaidIsRow, Carry, Step
      <3>3. u.req = q => f \notin W
        <4>1. W # {} => req[q].at = "commit" /\ (Second(q) => W = {"mode"})
          BY DEF Step, Written
        <4>2. CASE Second(q)
          <5>1. W # {} /\ u.req = q => DOMAIN u.says = {"title"}
            BY <2>2, <4>1, <4>2 DEF Half, HalfWay, Second
          <5> QED
            BY <1>5, <4>1, <4>2, <5>1
        <4>3. CASE ~Second(q)
          BY <2>2, <4>1, <4>3 DEF Clean, Untouched, Early
        <4> QED
          BY <4>2, <4>3
      <3>4. PICK r \in Request : r = u.req
        BY <3>1
      <3>5. u.says[f] = row'[f] \/ Later(f, r)'
        BY <1>2, <3>2, <3>3, <3>4
      <3> QED
        BY <3>4, <3>5 DEF Later
    <2> QED
      BY <2>1, <2>2
  <1>6. SaidIsRow'
    BY <1>5 DEF SaidIsRow, Carry, Later
  <1> QED
    BY <1>4, <1>6

LEMMA StepKeeps ==
  ASSUME Inv, NEW q \in Request, NEW W \in SUBSET Fields, Step(q, W)
  PROVE  Inv' /\ LogGrows(q)
  BY StepIsLater, StepTypes, StepTokens, StepInOrder, StepRow, StepClean, StepTold DEF Inv

-----------------------------------------------------------------------------
(* The steps of the requests are such steps.                               *)

LEMMA OneRequest ==
  ASSUME Types, NEW q \in Request, NEW s \in ReqType, req' = [req EXCEPT ![q] = s]
  PROVE  /\ req' \in [Request -> ReqType] /\ req'[q] = s
         /\ \A r \in Request \ {q} : req'[r] = req[r]
  <1>1. req \in [Request -> ReqType]
    BY DEF Types
  <1> QED
    BY <1>1

LEMMA GoesTo ==
  ASSUME Types, NEW q \in Request, NEW l \in Labels, Goes(q, l)
  PROVE  /\ req' \in [Request -> ReqType] /\ \A r \in Request \ {q} : req'[r] = req[r]
         /\ req'[q].at = l /\ req'[q].kind = req[q].kind /\ req'[q].op = req[q].op
         /\ req'[q].num = req[q].num /\ req'[q].title = req[q].title /\ req'[q].tab = req[q].tab
  <1>1. PICK s : s = [req[q] EXCEPT !.at = l] /\ req' = [req EXCEPT ![q] = s]
    BY DEF Goes
  <1>2. req[q] \in ReqType
    BY DEF Types
  <1>3. /\ s \in ReqType /\ s.at = l /\ s.kind = req[q].kind /\ s.op = req[q].op
        /\ s.num = req[q].num /\ s.title = req[q].title /\ s.tab = req[q].tab
    BY <1>1, <1>2 DEF ReqType
  <1> QED
    BY <1>1, <1>3, OneRequest

\* The write of a request of a conversation's list.
WritesList(q, at) ==
  /\ req[q].at = "write"
  /\ \E l \in Lists : /\ log' = [log EXCEPT ![l] = Append(log[l], q)]
                      /\ at \in Torn => InList(l, req[q].op)

\* A request that announces nothing and changes no row.
Relabels(q, l) ==
  /\ l \in Torn \cup {"answer", "ok", "error", "numberSync"} /\ Goes(q, l)
  /\ ~Ended(q) /\ req[q].at # "no"
  /\ UNCHANGED <<stored, there, row, before>> /\ counter' \in Nat /\ counter <= counter'
  /\ UNCHANGED log \/ WritesList(q, l)
  /\ l = "error" => UNCHANGED log
  /\ l \in Torn \cup {"error"} => req[q].at \in Early \cup Torn
  /\ l = "answer" => req[q].at = "push" \/ req[q].op \in Synced
  /\ l = "ok" => req[q].at = "answer" /\ ~HasMore(q)
  /\ l = "numberSync" => req[q].at \in Torn \cup {"write"}
  /\ l \in Torn => req[q].op \in Synced
  /\ l = "reload" => req[q].op = "checkTodo"
  /\ l \in {"register", "rollback"} => req[q].op = "addTask"

LEMMA RelabelStep ==
  ASSUME Inv, NEW q \in Request, NEW l, Relabels(q, l)
  PROVE  Step(q, {})
  <1> USE DEF Relabels
  <1>1. l \in Labels /\ l \notin Early
    BY DEF Labels, Early, Torn
  <1>2. /\ req' \in [Request -> ReqType] /\ \A r \in Request \ {q} : req'[r] = req[r]
        /\ req'[q].at = l /\ req'[q].kind = req[q].kind /\ req'[q].op = req[q].op
        /\ req'[q].num = req[q].num /\ req'[q].title = req[q].title
    BY <1>1, GoesTo DEF Inv
  <1>3. Shape(req[q])
    BY DEF Inv, Control
  <1>4. Shape(req'[q])
    BY <1>2, <1>3 DEF Shape, HasMore, Torn
  <1>14. Logged(q)
    <2>1. CASE UNCHANGED log
      BY <2>1 DEF Logged
    <2>2. CASE WritesList(q, l)
      <3>1. req[q].at = "write" /\ req[q].kind # "patch"
        BY <1>3, <2>2 DEF WritesList, Shape, Synced, TodoRequests, TaskRequests
      <3> QED
        BY <1>2, <2>2, <3>1 DEF WritesList, Logged, Early
    <2> QED
      BY <2>1, <2>2
  <1>5. Goes_On(q)
    BY <1>2, <1>4 DEF Goes_On
  <1>6. Undone(q)
    BY <1>1, <1>2 DEF Undone
  <1>7. Numbers(q) /\ TitleRead(q)
    BY <1>2 DEF Numbers, TitleRead, Holds, Torn
  <1>8. Announced(q)
    BY DEF Announced, New
  <1>9. req[q].op \in Synced => req[q].op \notin {"rename", "mode", "status", "settings", "theme", "locale"}
    BY DEF Synced, TodoRequests, TaskRequests
  <1>10. req[q].at = "push" => req[q].op = "status"
    BY <1>3 DEF Shape
  <1>11. \A f \in Fields : Landed(q, f)' => Landed(q, f)
    BY <1>2, <1>9, <1>10 DEF Landed, Second, SettingsFields, Torn
  <1>12. Written(q, {})
    BY <1>11 DEF Written, Inv, Types
  <1>13. row' \in [Fields -> Request \cup {Initial}]
         /\ there' \in [{"project", "conversation"} -> BOOLEAN] /\ (Here' => Here)
    BY DEF Inv, Types, Here
  <1> QED
    BY <1>5, <1>6, <1>7, <1>8, <1>12, <1>13, <1>14 DEF Step

Kept(q) == Inv' /\ LogGrows(q)

LEMMA RelabelKeeps ==
  ASSUME Inv, NEW q \in Request, UNCHANGED before,
         \/ Invalid(q) \/ NumberFails(q) \/ CommitFails(q) \/ PushArchived(q) \/ WriteFails(q)
         \/ SyncFails(q) \/ Answer(q) \/ ReloadTodo(q) \/ RegisterTask(q) \/ RollBackTask(q)
  PROVE  Kept(q)
  <1>1. counter \in Nat /\ Shape(req[q])
    BY DEF Inv, Types, Control
  <1>2. SUFFICES \E l : Relabels(q, l)
    BY RelabelStep, StepKeeps DEF Kept
  <1>3. CASE Invalid(q)
    <2>1. Relabels(q, "error")
      BY <1>1, <1>3 DEF Relabels, Invalid, Fails, At, Ended, database, Early, Torn
    <2> QED
      BY <2>1
  <1>4. CASE NumberFails(q) \/ WriteFails(q)
    <2>1. Relabels(q, "error")
      BY <1>1, <1>4 DEF Relabels, NumberFails, WriteFails, Fails, Ended, database, Early, Torn
    <2> QED
      BY <2>1
  <1>5. CASE CommitFails(q)
    <2>1. Relabels(q, "error")
      BY <1>1, <1>5 DEF Relabels, CommitFails, Ended, database, Early, Torn
    <2> QED
      BY <2>1
  <1>6. CASE PushArchived(q)
    <2>1. Relabels(q, "answer")
      BY <1>1, <1>6 DEF Relabels, PushArchived, At, Ended, database, Torn
    <2> QED
      BY <2>1
  <1>7. CASE SyncFails(q)
    <2>1. req[q].op \in Synced
      BY <1>1, <1>7 DEF SyncFails, Shape
    <2>2. Relabels(q, "answer")
      BY <1>1, <1>7, <2>1 DEF Relabels, SyncFails, Ended, database, Torn
    <2> QED
      BY <2>2
  <1>8. CASE Answer(q)
    <2>1. Relabels(q, "ok")
      BY <1>1, <1>8 DEF Relabels, Answer, Ended, database, Torn
    <2> QED
      BY <2>1
  <1>9. CASE ReloadTodo(q)
    <2>1. /\ req[q].op = "checkTodo" /\ req[q].at = "reload"
          /\ UNCHANGED <<counter, stored, there, row, log, before>>
          /\ Goes(q, "numberSync") \/ Goes(q, "error")
      BY <1>9 DEF ReloadTodo, At, database
    <2>2. ASSUME NEW l \in {"numberSync", "error"}, Goes(q, l) PROVE Relabels(q, l)
      BY <1>1, <2>1, <2>2 DEF Relabels, Ended, Torn
    <2> QED
      BY <2>1, <2>2
  <1>10. CASE RegisterTask(q) \/ RollBackTask(q)
    <2>1. /\ req[q].op = "addTask" /\ req[q].at \in {"register", "rollback"}
          /\ UNCHANGED <<counter, stored, there, row, log, before>>
      BY <1>10 DEF RegisterTask, RollBackTask, At, database
    <2>2. \E l \in {"numberSync", "rollback", "error"} :
            Goes(q, l) /\ (l = "numberSync" => req[q].at = "register")
      BY <1>10 DEF RegisterTask, RollBackTask, At
    <2>3. ASSUME NEW l \in {"numberSync", "rollback", "error"}, Goes(q, l) PROVE Relabels(q, l)
      <3>1. req[q].op \in Synced
        BY <2>1 DEF Synced, TaskRequests
      <3> QED
        BY <1>1, <2>1, <2>3, <3>1 DEF Relabels, Ended, Torn
    <2> QED
      BY <2>2, <2>3
  <1> QED
    BY <1>3, <1>4, <1>5, <1>6, <1>7, <1>8, <1>9, <1>10

LEMMA WriteKeeps ==
  ASSUME Inv, NEW q \in Request,
         CreateTodo(q) \/ UpdateTodo(q) \/ DeleteTodo(q) \/ CreateTask(q) \/ CancelTask(q)
  PROVE  Kept(q)
  <1>1. counter \in Nat /\ Shape(req[q])
    BY DEF Inv, Types, Control
  <1>2. "todos" \in Lists /\ "tasks" \in Lists
    BY DEF Lists
  <1>3. /\ req[q].at = "write" /\ UNCHANGED <<counter, stored, there, row, before>>
        /\ UNCHANGED log \/ \E l \in Lists : log' = [log EXCEPT ![l] = Append(log[l], q)]
        /\ \/ Goes(q, "numberSync")
           \/ Goes(q, "error") /\ UNCHANGED log
           \/ /\ Goes(q, "reload") /\ req[q].op = "checkTodo"
              /\ UNCHANGED log \/ log' = [log EXCEPT !["todos"] = Append(log["todos"], q)]
           \/ /\ Goes(q, "register") /\ req[q].op = "addTask"
              /\ log' = [log EXCEPT !["tasks"] = Append(log["tasks"], q)]
    <2>1. CASE CreateTodo(q)
      BY <1>2, <2>1 DEF CreateTodo, At, Writes
    <2>2. CASE UpdateTodo(q)
      BY <1>2, <2>2 DEF UpdateTodo, At, Writes
    <2>3. CASE DeleteTodo(q)
      BY <1>2, <2>3 DEF DeleteTodo, At, Writes
    <2>4. CASE CreateTask(q)
      BY <1>2, <2>4 DEF CreateTask, At, Writes
    <2>5. CASE CancelTask(q)
      BY <1>2, <2>5 DEF CancelTask, At, Writes
    <2> QED
      BY <2>1, <2>2, <2>3, <2>4, <2>5
  <1>4. \E l : Relabels(q, l)
    <2>1. CASE Goes(q, "numberSync")
      <3>1. UNCHANGED log \/ WritesList(q, "numberSync")
        BY <1>3 DEF WritesList, Torn
      <3>2. Relabels(q, "numberSync")
        BY <1>1, <1>3, <2>1, <3>1 DEF Relabels, Ended, Torn
      <3> QED
        BY <3>2
    <2>2. CASE Goes(q, "error") /\ UNCHANGED log
      <3>1. Relabels(q, "error")
        BY <1>1, <1>3, <2>2 DEF Relabels, Ended, Early, Torn
      <3> QED
        BY <3>1
    <2>3. ASSUME NEW at \in {"reload", "register"}, Goes(q, at), req[q].op \in {"checkTodo", "addTask"},
                 at = "reload" => req[q].op = "checkTodo", at = "register" => req[q].op = "addTask",
                 UNCHANGED log \/ WritesList(q, at)
          PROVE  Relabels(q, at)
      <3>1. req[q].op \in Synced
        BY <2>3 DEF Synced, TodoRequests, TaskRequests
      <3> QED
        BY <1>1, <1>3, <2>3, <3>1 DEF Relabels, Ended, Early, Torn
    <2>4. CASE /\ Goes(q, "reload") /\ req[q].op = "checkTodo"
               /\ UNCHANGED log \/ log' = [log EXCEPT !["todos"] = Append(log["todos"], q)]
      <3>1. UNCHANGED log \/ WritesList(q, "reload")
        BY <1>2, <1>3, <2>4 DEF WritesList, InList
      <3> QED
        BY <2>3, <2>4, <3>1
    <2>5. CASE /\ Goes(q, "register") /\ req[q].op = "addTask"
               /\ log' = [log EXCEPT !["tasks"] = Append(log["tasks"], q)]
      <3>1. WritesList(q, "register")
        BY <1>2, <1>3, <2>5 DEF WritesList, InList
      <3> QED
        BY <2>3, <2>5, <3>1
    <2> QED
      BY <1>3, <2>1, <2>2, <2>4, <2>5
  <1> QED
    BY <1>4, RelabelStep, StepKeeps DEF Kept

LEMMA QuietKeeps ==
  ASSUME Inv, NEW q \in Request, Goes_On(q), Undone(q), Numbers(q), TitleRead(q),
         UNCHANGED <<stored, there, row, log>>,
         \A f \in Fields : Landed(q, f)' => Landed(q, f)
  PROVE  Kept(q)
  <1>1. Announced(q) /\ Logged(q)
    BY DEF Announced, New, Logged
  <1>2. Written(q, {})
    BY DEF Written, Inv, Types
  <1>3. row' \in [Fields -> Request \cup {Initial}]
        /\ there' \in [{"project", "conversation"} -> BOOLEAN] /\ (Here' => Here)
    BY DEF Inv, Types, Here
  <1>4. Step(q, {})
    BY <1>1, <1>2, <1>3 DEF Step
  <1> QED
    BY <1>4, StepKeeps DEF Kept

LEMMA VerifyKeeps ==
  ASSUME Inv, NEW q \in Request, Verify(q)
  PROVE  Kept(q)
  <1>1. req[q] \in ReqType /\ Shape(req[q]) /\ counter \in Nat
    BY DEF Inv, Types, Control
  <1>2. req[q].at = "verify" /\ UNCHANGED <<counter, stored, there, row, log, before>>
    BY DEF Verify, database
  <1>3. CASE ~Finds(req[q].op)
    <2>1. Goes(q, "error")
      BY <1>3 DEF Verify
    <2>2. Relabels(q, "error")
      BY <1>1, <1>2, <2>1 DEF Relabels, Ended, Early, Torn
    <2> QED
      BY <2>2, RelabelStep, StepKeeps DEF Kept
  <1>4. CASE Finds(req[q].op)
    <2>1. PICK at, title, s :
            /\ at = (IF req[q].op \in Synced THEN "write" ELSE "number") /\ title = row.title
            /\ s = [req[q] EXCEPT !.at = at, !.title = title]
            /\ req' = [req EXCEPT ![q] = s]
      BY <1>4 DEF Verify
    <2>2. title \in Request \cup {Initial} /\ at \in Labels
      BY <2>1 DEF Inv, Types, Fields, Labels, Early
    <2>3. /\ s \in ReqType /\ s.at = at /\ s.kind = req[q].kind /\ s.op = req[q].op
          /\ s.num = req[q].num /\ s.title = title
      BY <1>1, <2>1, <2>2 DEF ReqType
    <2>4. /\ req' \in [Request -> ReqType] /\ req'[q] = s
          /\ \A r \in Request \ {q} : req'[r] = req[r]
      BY <2>1, <2>3, OneRequest DEF Inv
    <2>5. at \in {"write", "number"}
      BY <2>1
    <2>6. Shape(s)
      BY <1>1, <1>2, <2>1, <2>3, <2>5 DEF Shape
    <2>7. Goes_On(q)
      BY <1>2, <2>3, <2>4, <2>6 DEF Goes_On, Ended
    <2>8. Undone(q) /\ Numbers(q) /\ TitleRead(q)
      BY <1>1, <1>2, <2>1, <2>3, <2>4, <2>5 DEF Undone, Numbers, TitleRead, Holds, Early
    <2>9. \A f \in Fields : Landed(q, f)' => Landed(q, f)
      BY <2>3, <2>4, <2>5 DEF Landed, Second
    <2> QED
      BY <1>2, <2>7, <2>8, <2>9, QuietKeeps
  <1> QED
    BY <1>3, <1>4

LEMMA NumberKeeps ==
  ASSUME Inv, NEW q \in Request, Number(q) \/ NumberSync(q)
  PROVE  Kept(q)
  <1>1. req[q] \in ReqType /\ Shape(req[q]) /\ counter \in Nat
    BY DEF Inv, Types, Control
  <1>2. PICK n, at, s :
          /\ n = counter + 1 /\ counter' = n
          /\ \/ req[q].at = "number" /\ at = "commit"
             \/ req[q].at = "numberSync" /\ at = "sync"
          /\ s = [req[q] EXCEPT !.num = n, !.at = at] /\ req' = [req EXCEPT ![q] = s]
          /\ UNCHANGED <<stored, there, row, log, before>>
    <2>1. CASE Number(q)
      BY <2>1 DEF Number, database
    <2>2. CASE NumberSync(q)
      BY <2>2 DEF NumberSync, database
    <2> QED
      BY <2>1, <2>2
  <1>3. n \in Nat /\ counter < n /\ at \in {"commit", "sync"} /\ at \in Labels
    BY <1>1, <1>2 DEF Labels, Early
  <1>4. /\ s \in ReqType /\ s.at = at /\ s.kind = req[q].kind /\ s.op = req[q].op
        /\ s.num = n /\ s.title = req[q].title
    BY <1>1, <1>2, <1>3 DEF ReqType
  <1>5. /\ req' \in [Request -> ReqType] /\ req'[q] = s
        /\ \A r \in Request \ {q} : req'[r] = req[r]
    BY <1>2, <1>4, OneRequest DEF Inv
  <1>6. Shape(s)
    BY <1>1, <1>2, <1>4 DEF Shape
  <1>7. Goes_On(q)
    BY <1>2, <1>4, <1>5, <1>6 DEF Goes_On, Ended
  <1>8. Undone(q) /\ Numbers(q) /\ TitleRead(q)
    <2>1. req[q].at = "number" => req[q].at \in Early
      BY DEF Early
    <2>2. at \in Early => req[q].at = "number"
      BY <1>2 DEF Early
    <2>3. Undone(q)
      BY <1>2, <1>3, <1>4, <1>5, <2>1, <2>2 DEF Undone, Torn
    <2>4. Numbers(q)
      BY <1>1, <1>2, <1>3, <1>4, <1>5 DEF Numbers
    <2> QED
      BY <1>2, <1>4, <1>5, <2>3, <2>4 DEF TitleRead
  <1>9. \A f \in Fields : Landed(q, f)' => Landed(q, f)
    BY <1>3, <1>4, <1>5 DEF Landed, Second
  <1> QED
    BY <1>2, <1>7, <1>8, <1>9, QuietKeeps

LEMMA PatchKeeps ==
  ASSUME Inv, NEW q \in Request, PatchMode(q)
  PROVE  Kept(q)
  <1>1. req[q] \in ReqType /\ Shape(req[q]) /\ counter \in Nat
    BY DEF Inv, Types, Control
  <1>2. /\ req[q].at = "answer" /\ req[q].kind = "patch" /\ req[q].op = "rename"
        /\ UNCHANGED <<counter, stored, there, row, log, before>>
    BY DEF PatchMode, HasMore, database
  <1>3. PICK s : /\ s = [req[q] EXCEPT !.op = "mode", !.at = "verify"]
                 /\ req' = [req EXCEPT ![q] = s]
    BY DEF PatchMode
  <1>4. "mode" \in Ops /\ "verify" \in Labels
    BY DEF Ops, ConversationOps, Labels, Early
  <1>5. /\ s \in ReqType /\ s.at = "verify" /\ s.kind = "patch" /\ s.op = "mode"
        /\ s.num = req[q].num /\ s.title = req[q].title
    BY <1>1, <1>2, <1>3, <1>4 DEF ReqType
  <1>6. /\ req' \in [Request -> ReqType] /\ req'[q] = s
        /\ \A r \in Request \ {q} : req'[r] = req[r]
    BY <1>3, <1>5, OneRequest DEF Inv
  <1>7. Shape(s)
    BY <1>1, <1>4, <1>5 DEF Shape
  <1>8. Goes_On(q)
    BY <1>2, <1>5, <1>6, <1>7 DEF Goes_On, Ended, Second
  <1>9. Undone(q) /\ Numbers(q) /\ TitleRead(q)
    BY <1>1, <1>2, <1>5, <1>6 DEF Undone, Numbers, TitleRead, Holds, Second, Torn
  <1>10. \A f \in Fields : Landed(q, f)' => Landed(q, f)
    BY <1>2, <1>5, <1>6 DEF Landed, Second, SettingsFields
  <1> QED
    BY <1>2, <1>8, <1>9, <1>10, QuietKeeps

-----------------------------------------------------------------------------
(* Transactions.                                                           *)

\* A request that holds a number commits, and announces it with that number.
Commits(q, l) ==
  /\ l \in {"answer", "push"} /\ Goes(q, l) /\ Holds(q)
  /\ l = "push" => req[q].kind = "archive"
  /\ UNCHANGED before /\ counter' \in Nat /\ counter <= counter'
  /\ there' \in [{"project", "conversation"} -> BOOLEAN] /\ (Here' => Here)

LEMMA CommitKeeps ==
  ASSUME Inv, NEW q \in Request, NEW l, Commits(q, l), Announced(q), Logged(q),
         NEW W \in SUBSET Fields, Written(q, W), row' \in [Fields -> Request \cup {Initial}]
  PROVE  Kept(q)
  <1> USE DEF Commits
  <1>1. l \in Labels /\ l \notin Early \cup Torn
    BY DEF Labels, Early, Torn
  <1>2. /\ req' \in [Request -> ReqType] /\ \A r \in Request \ {q} : req'[r] = req[r]
        /\ req'[q].at = l /\ req'[q].kind = req[q].kind /\ req'[q].op = req[q].op
        /\ req'[q].num = req[q].num /\ req'[q].title = req[q].title
    BY <1>1, GoesTo DEF Inv
  <1>3. Shape(req[q]) /\ req[q].at \in {"commit", "sync"}
    BY DEF Inv, Control, Holds
  <1>4. Shape(req'[q])
    <2>1. "status" \notin Synced
      BY DEF Synced, TodoRequests, TaskRequests
    <2> QED
      BY <1>2, <1>3, <2>1 DEF Shape
  <1>5. Goes_On(q) /\ Undone(q)
    BY <1>1, <1>2, <1>3, <1>4 DEF Goes_On, Undone, Ended
  <1>6. Numbers(q) /\ TitleRead(q)
    BY <1>2 DEF Numbers, TitleRead, Holds
  <1>7. Step(q, W)
    BY <1>5, <1>6 DEF Step
  <1> QED
    BY <1>7, StepKeeps DEF Kept

\* One update under the number that the request holds.
LEMMA OneUpdate ==
  ASSUME Inv, NEW q \in Request, Holds(q), NEW type, NEW says,
         Stores(q, type, says), DOMAIN says \subseteq Fields,
         req[q].op = "rename" => DOMAIN says = {"title"},
         \A f \in DOMAIN says :
           says[f] = row'[f] \/ Later(f, q)' \/ (f \notin SettingsFields /\ ~Here')
  PROVE  /\ Announced(q)
         /\ \E u \in stored' : u.req = q /\ u.says = says /\ u.type = type
  <1>1. PICK u : /\ u = [num |-> req[q].num, req |-> q, type |-> type, says |-> says]
                 /\ stored' = stored \cup {u}
    BY DEF Stores, Update
  <1>2. u.num = req[q].num /\ u.req = q /\ u.type = type /\ u.says = says
    BY <1>1
  <1>3. \A v \in New : v = u
    BY <1>1 DEF New
  <1> QED
    BY <1>1, <1>2, <1>3 DEF Announced

\* A transaction that writes no field, and one that changes a list besides.
LEMMA PlainCommit ==
  ASSUME Inv, NEW q \in Request, NEW type, Commits(q, "answer"), Stores(q, type, Nothing),
         Logged(q), UNCHANGED row,
         req[q].op \notin {"rename", "mode", "status"} \cup SettingsRequests
  PROVE  Kept(q)
  <1>1. DOMAIN Nothing = {}
    BY DEF Nothing
  <1>2. Announced(q)
    BY <1>1, OneUpdate DEF Commits
  <1>3. req'[q].op = req[q].op /\ req'[q].kind = req[q].kind
    BY GoesTo DEF Commits, Inv, Labels, Early
  <1>4. \A f \in Fields : ~Landed(q, f)'
    BY <1>3 DEF Landed, Second, SettingsFields, SettingsRequests
  <1>5. row' \in [Fields -> Request \cup {Initial}]
    BY DEF Inv, Types
  <1>6. Written(q, {})
    BY <1>4 DEF Written
  <1> QED
    BY <1>2, <1>5, <1>6, CommitKeeps

LEMMA BothAre ==
  ASSUME NEW b \in BOOLEAN, NEW f, f = [project |-> b, conversation |-> b]
  PROVE  f \in [{"project", "conversation"} -> BOOLEAN] /\ f.conversation = b
  <1>1. f.project = b /\ f.conversation = b
    BY Zenon
  <1>2. f = [x \in {"project", "conversation"} |-> f[x]]
    BY Zenon
  <1>3. \A x \in {"project", "conversation"} : f[x] = b
    BY <1>1, Zenon
  <1> QED
    BY <1>1, <1>2, <1>3, Zenon

LEMMA PlainCommitsKeep ==
  ASSUME Inv, NEW q \in Request,
         \/ CreateConversation(q) \/ DeleteConversation(q)
         \/ CreateProjectFromTemplate(q) \/ DeleteProject(q) \/ StoreSync(q)
  PROVE  Kept(q)
  <1>1. /\ Shape(req[q]) /\ counter \in Nat
        /\ there \in [{"project", "conversation"} -> BOOLEAN]
    BY DEF Inv, Types, Control
  <1>2. "conversations" \in Lists /\ "projects" \in Lists /\ "commit" \in Early
    BY DEF Lists, Early
  <1>3. CASE Goes(q, "error")
    <2>1. /\ req[q].at = "commit" /\ UNCHANGED <<counter, stored, there, row, log, before>>
      <3>1. ~Goes(q, "answer")
        BY <1>3, GoesTo DEF Inv, Labels, Early
      <3>2. ~StoreSync(q) /\ ~CreateProjectFromTemplate(q)
        BY <3>1 DEF StoreSync, CreateProjectFromTemplate
      <3>3. CASE CreateConversation(q)
        BY <3>1, <3>3 DEF CreateConversation, At
      <3>4. CASE DeleteConversation(q)
        BY <3>1, <3>4 DEF DeleteConversation, At
      <3>5. CASE DeleteProject(q)
        BY <3>1, <3>5 DEF DeleteProject, At
      <3> QED
        BY <3>2, <3>3, <3>4, <3>5
    <2>2. Relabels(q, "error")
      BY <1>1, <1>2, <1>3, <2>1 DEF Relabels, Ended, Early, Torn
    <2> QED
      BY <2>2, RelabelStep, StepKeeps DEF Kept
  <1>4. CASE StoreSync(q)
    <2>1. /\ req[q].at = "sync" /\ Goes(q, "answer") /\ req[q].op \in Synced
          /\ UNCHANGED <<counter, there, row, log, before>>
          /\ \E type : Stores(q, type, Nothing)
      BY <1>1, <1>4 DEF StoreSync, database, Shape
    <2>2. Commits(q, "answer")
      BY <1>1, <2>1 DEF Commits, Holds, Here
    <2>3. Logged(q)
      BY <2>1 DEF Logged
    <2>4. req[q].op \notin {"rename", "mode", "status"} \cup SettingsRequests
      BY <2>1 DEF Synced, TodoRequests, TaskRequests, SettingsRequests
    <2> QED
      BY <2>1, <2>2, <2>3, <2>4, PlainCommit
  <1>5. CASE ~StoreSync(q) /\ ~Goes(q, "error")
    <2>1. /\ req[q].at = "commit" /\ Goes(q, "answer")
          /\ req[q].op \in {"create", "delete", "addProject", "deleteProject"}
          /\ UNCHANGED <<counter, row, before>>
          /\ \E type : Stores(q, type, Nothing)
          /\ \E l \in Lists : log' = [log EXCEPT ![l] = Append(log[l], q)]
          /\ \/ UNCHANGED there
             \/ there' = [there EXCEPT !.conversation = FALSE]
             \/ there' = [project |-> FALSE, conversation |-> FALSE]
      <3>1. CASE CreateConversation(q)
        BY <1>2, <1>5, <3>1 DEF CreateConversation, At
      <3>2. CASE DeleteConversation(q)
        BY <1>2, <1>5, <3>2 DEF DeleteConversation, At
      <3>3. CASE CreateProjectFromTemplate(q)
        BY <1>2, <1>5, <3>3 DEF CreateProjectFromTemplate, At
      <3>4. CASE DeleteProject(q)
        BY <1>2, <1>5, <3>4 DEF DeleteProject, At
      <3> QED
        BY <1>5, <3>1, <3>2, <3>3, <3>4
    <2>2. there' \in [{"project", "conversation"} -> BOOLEAN] /\ (Here' => Here)
      <3>1. CASE UNCHANGED there
        BY <1>1, <3>1 DEF Here
      <3>2. CASE there' = [there EXCEPT !.conversation = FALSE]
        <4>1. there' \in [{"project", "conversation"} -> BOOLEAN]
          BY <1>1, <3>2
        <4>2. there'.conversation = FALSE
          BY <1>1, <3>2
        <4> QED
          BY <4>1, <4>2, Zenon DEF Here
      <3>3. CASE there' = [project |-> FALSE, conversation |-> FALSE]
        <4>1. /\ there' \in [{"project", "conversation"} -> BOOLEAN]
              /\ there'.conversation = FALSE
          BY <3>3, BothAre, Zenon
        <4> QED
          BY <4>1, Zenon DEF Here
      <3> QED
        BY <2>1, <3>1, <3>2, <3>3
    <2>3. Commits(q, "answer")
      BY <1>1, <2>1, <2>2 DEF Commits, Holds
    <2>4. Logged(q)
      <3>1. req[q].kind # "patch" /\ req'[q].at \notin Torn
        BY <1>1, <2>1, GoesTo DEF Shape, Torn, Inv, Labels
      <3> QED
        BY <1>2, <2>1, <3>1 DEF Logged
    <2>5. req[q].op \notin {"rename", "mode", "status"} \cup SettingsRequests
      BY <2>1 DEF SettingsRequests
    <2> QED
      BY <2>1, <2>3, <2>4, <2>5, PlainCommit
  <1> QED
    BY <1>3, <1>4, <1>5

\* The fields a transaction writes, if the conversation is still there.
IfHere(g) == IF Here THEN {g} ELSE {}

LEMMA FieldWritten ==
  ASSUME Inv, NEW q \in Request, NEW g \in Fields, NEW says, DOMAIN says \cap Fields = {g},
         says[g] = q, WritesConversation(says)
  PROVE  /\ IfHere(g) \in SUBSET Fields
         /\ \A f \in Fields : row'[f] = IF f \in IfHere(g) THEN q ELSE row[f]
         /\ row' \in [Fields -> Request \cup {Initial}]
  <1>1. row \in [Fields -> Request \cup {Initial}]
    BY DEF Inv, Types
  <1>2. CASE Here
    <2>1. row' = [f \in Fields |-> IF f \in DOMAIN says THEN says[f] ELSE row[f]]
      BY <1>2 DEF WritesConversation, Here
    <2>2. row' = [f \in Fields |-> IF f = g THEN q ELSE row[f]]
      BY <2>1
    <2> QED
      BY <1>1, <1>2, <2>2 DEF IfHere
  <1>3. CASE ~Here
    <2>1. UNCHANGED row
      BY <1>3 DEF WritesConversation, Here
    <2> QED
      BY <1>1, <1>3, <2>1 DEF IfHere
  <1> QED
    BY <1>2, <1>3

LEMMA RenameKeeps ==
  ASSUME Inv, NEW q \in Request, RenameConversation(q)
  PROVE  Kept(q)
  <1>1. Shape(req[q]) /\ counter \in Nat /\ "title" \in Fields /\ "title" \notin SettingsFields
    BY DEF Inv, Types, Control, Fields, SettingsFields
  <1>2. /\ req[q].op = "rename" /\ req[q].at = "commit" /\ Goes(q, "answer")
        /\ UNCHANGED <<counter, there, log, before>>
    BY DEF RenameConversation, At
  <1>3. PICK says : /\ says = [title |-> q] /\ WritesConversation(says)
                    /\ Stores(q, "conversation.updated", says)
    BY DEF RenameConversation
  <1>4. DOMAIN says = {"title"} /\ says["title"] = q
    BY <1>3
  <1>5. /\ IfHere("title") \in SUBSET Fields
        /\ \A f \in Fields : row'[f] = IF f \in IfHere("title") THEN q ELSE row[f]
        /\ row' \in [Fields -> Request \cup {Initial}]
    BY <1>1, <1>3, <1>4, FieldWritten
  <1>6. Here' <=> Here
    BY <1>2 DEF Here
  <1>7. Commits(q, "answer")
    BY <1>1, <1>2, <1>6 DEF Commits, Holds, Inv, Types
  <1>8. /\ Announced(q)
        /\ \E u \in stored' : u.req = q /\ u.says = says
    <2>1. \A f \in DOMAIN says : says[f] = row'[f] \/ (f \notin SettingsFields /\ ~Here')
      BY <1>1, <1>4, <1>5, <1>6 DEF IfHere
    <2> QED
      BY <1>1, <1>3, <1>4, <1>7, <2>1, OneUpdate DEF Commits
  <1>9. req'[q].op = "rename" /\ req'[q].kind = req[q].kind
    BY <1>2, GoesTo DEF Inv, Labels, Early
  <1>10. Written(q, IfHere("title"))
    <2>1. ~Second(q) /\ ~Second(q)'
      BY <1>2, <1>9 DEF Second
    <2>2. Wrote(q, "title")
      BY <1>1, <1>2 DEF Wrote, Shape
    <2>3. \A f \in Fields : Landed(q, f)' => f = "title"
      BY <1>9, <2>1 DEF Landed, SettingsFields
    <2>4. \A f \in IfHere("title") : f = "title"
      BY DEF IfHere
    <2>5. Here => "title" \in IfHere("title")
      BY DEF IfHere
    <2> QED
      BY <1>1, <1>2, <1>4, <1>5, <1>6, <1>8, <2>1, <2>2, <2>3, <2>4, <2>5 DEF Written
  <1> QED
    BY <1>2, <1>5, <1>7, <1>8, <1>10, CommitKeeps DEF Logged

LEMMA ModeKeeps ==
  ASSUME Inv, NEW q \in Request, UpdateMode(q)
  PROVE  Kept(q)
  <1>1. /\ Shape(req[q]) /\ counter \in Nat /\ "mode" \in Fields /\ "title" \in Fields
        /\ "title" \notin SettingsFields /\ "mode" \notin SettingsFields
    BY DEF Inv, Types, Control, Fields, SettingsFields
  <1>2. /\ req[q].op = "mode" /\ req[q].at = "commit" /\ Goes(q, "answer")
        /\ UNCHANGED <<counter, there, log, before>>
        /\ WritesConversation([mode |-> q])
    BY DEF UpdateMode, At
  <1>3. PICK says, title :
          /\ title = req[q].title
          /\ says = [title |-> title, mode |-> q]
          /\ Stores(q, "conversation.updated", says)
    BY DEF UpdateMode
  <1>4. DOMAIN says = {"title", "mode"} /\ says["mode"] = q /\ says["title"] = title
    BY <1>3
  <1>5. /\ IfHere("mode") \in SUBSET Fields
        /\ \A f \in Fields : row'[f] = IF f \in IfHere("mode") THEN q ELSE row[f]
        /\ row' \in [Fields -> Request \cup {Initial}]
    <2>1. PICK w : w = [mode |-> q] /\ WritesConversation(w)
      BY <1>2
    <2>2. DOMAIN w = {"mode"} /\ w["mode"] = q
      BY <2>1
    <2> QED
      BY <1>1, <2>1, <2>2, FieldWritten
  <1>6. Here' <=> Here
    BY <1>2 DEF Here
  <1>7. Commits(q, "answer")
    BY <1>1, <1>2, <1>6 DEF Commits, Holds, Inv, Types
  <1>8. row'["title"] = row["title"] /\ (title = row["title"] \/ Later("title", q)')
    <2>1. row'["title"] = row["title"]
      BY <1>1, <1>5 DEF IfHere
    <2>2. title = row["title"] \/ Later("title", q)
      BY <1>2, <1>3 DEF Inv, TitleIsRead
    <2> QED
      BY <1>2, <2>1, <2>2 DEF Later
  <1>9. /\ Announced(q)
        /\ \E u \in stored' : u.req = q /\ u.says = says
    <2>1. \A f \in DOMAIN says : says[f] = row'[f] \/ Later(f, q)' \/ (f \notin SettingsFields /\ ~Here')
      <3>1. Here => row'["mode"] = q
        BY <1>1, <1>5 DEF IfHere
      <3>2. says["title"] = row'["title"] \/ Later("title", q)'
        BY <1>4, <1>8
      <3>3. says["mode"] = row'["mode"] \/ ("mode" \notin SettingsFields /\ ~Here')
        BY <1>1, <1>4, <1>6, <3>1
      <3> QED
        BY <1>4, <3>2, <3>3, Zenon
    <2> QED
      BY <1>1, <1>2, <1>3, <1>4, <1>7, <2>1, OneUpdate DEF Commits
  <1>10. req'[q].op = "mode" /\ req'[q].kind = req[q].kind
    BY <1>2, GoesTo DEF Inv, Labels, Early
  <1>11. Written(q, IfHere("mode"))
    <2>1. Wrote(q, "mode")
      BY <1>1, <1>2 DEF Wrote, Shape
    <2>2. \A f \in Fields : Landed(q, f)' => f = "mode" \/ Landed(q, f)
      BY <1>2, <1>10 DEF Landed, SettingsFields, Second
    <2>3. \A f \in IfHere("mode") : f = "mode"
      BY DEF IfHere
    <2>4. Here => "mode" \in IfHere("mode")
      BY DEF IfHere
    <2>5. IfHere("mode") # {} => IfHere("mode") = {"mode"}
      BY DEF IfHere
    <2> QED
      BY <1>1, <1>2, <1>4, <1>5, <1>6, <1>9, <2>1, <2>2, <2>3, <2>4, <2>5 DEF Written
  <1> QED
    BY <1>2, <1>5, <1>7, <1>9, <1>11, CommitKeeps DEF Logged

LEMMA StatusKeeps ==
  ASSUME Inv, NEW q \in Request, UpdateStatus(q)
  PROVE  Kept(q)
  <1>1. /\ Shape(req[q]) /\ counter \in Nat /\ "status" \in Fields /\ "title" \in Fields
        /\ "title" \notin SettingsFields /\ "status" \notin SettingsFields
    BY DEF Inv, Types, Control, Fields, SettingsFields
  <1>2. /\ req[q].op = "status" /\ req[q].at = "commit"
        /\ UNCHANGED <<there, log, before>>
        /\ WritesConversation([status |-> q])
    BY DEF UpdateStatus, At
  <1>3. PICK says, title, none, u, v :
          /\ title = req[q].title /\ none = Nothing
          /\ says = [title |-> title, status |-> q]
          /\ u = [num |-> req[q].num, req |-> q, type |-> "conversation.updated", says |-> says]
          /\ v = [num |-> counter + 1, req |-> q, type |-> "conversation.archived", says |-> none]
          /\ \/ /\ req[q].kind = "archive" /\ Goes(q, "push")
                /\ counter' = counter + 1 /\ stored' = stored \cup {u, v}
             \/ /\ Goes(q, "answer") /\ counter' = counter /\ stored' = stored \cup {u}
    BY DEF UpdateStatus, Update
  <1>4. DOMAIN says = {"title", "status"} /\ says["status"] = q /\ says["title"] = title
    BY <1>3
  <1>5. /\ IfHere("status") \in SUBSET Fields
        /\ \A f \in Fields : row'[f] = IF f \in IfHere("status") THEN q ELSE row[f]
        /\ row' \in [Fields -> Request \cup {Initial}]
    <2>1. PICK w : w = [status |-> q] /\ WritesConversation(w)
      BY <1>2
    <2>2. DOMAIN w = {"status"} /\ w["status"] = q
      BY <2>1
    <2> QED
      BY <1>1, <2>1, <2>2, FieldWritten
  <1>6. Here' <=> Here
    BY <1>2 DEF Here
  <1>7. PICK l \in {"push", "answer"} : Commits(q, l)
    <2>1. /\ UNCHANGED before /\ counter' \in Nat /\ counter <= counter' /\ Holds(q)
          /\ there' \in [{"project", "conversation"} -> BOOLEAN]
      BY <1>1, <1>2, <1>3 DEF Holds, Inv, Types
    <2> QED
      BY <1>3, <1>6, <2>1 DEF Commits
  <1>8. row'["title"] = row["title"] /\ (title = row["title"] \/ Later("title", q)')
    <2>1. row'["title"] = row["title"]
      BY <1>1, <1>5 DEF IfHere
    <2>2. title = row["title"] \/ Later("title", q)
      BY <1>2, <1>3 DEF Inv, TitleIsRead
    <2> QED
      BY <1>2, <2>1, <2>2 DEF Later
  <1>9. \A f \in DOMAIN says :
          says[f] = row'[f] \/ Later(f, q)' \/ (f \notin SettingsFields /\ ~Here')
    <2>1. Here => row'["status"] = q
      BY <1>1, <1>5 DEF IfHere
    <2>2. says["title"] = row'["title"] \/ Later("title", q)'
      BY <1>4, <1>8
    <2>3. says["status"] = row'["status"] \/ ("status" \notin SettingsFields /\ ~Here')
      BY <1>1, <1>4, <1>6, <2>1
    <2> QED
      BY <1>4, <2>2, <2>3, Zenon
  <1>10. /\ u.num = req[q].num /\ u.req = q /\ u.says = says
         /\ v.num = counter + 1 /\ v.req = q /\ v.says = none /\ DOMAIN none = {}
    BY <1>3 DEF Nothing
  <1>11. Announced(q) /\ \E x \in stored' : x.req = q /\ x.says = says
    <2>1. /\ stored \subseteq stored' /\ u \in stored'
          /\ \A x \in New : x = u \/ (x = v /\ counter' = counter + 1 /\ counter < counter')
      BY <1>1, <1>3 DEF New
    <2>2. u.num # v.num
      BY <1>1, <1>10 DEF Inv, Tokens, Types, ReqType
    <2>3. \A x, y \in New : x.num = y.num => x = y
      BY <2>1, <2>2
    <2>4. DOMAIN says \subseteq Fields /\ Holds(q)
      BY <1>1, <1>4, <1>7 DEF Commits
    <2> QED
      BY <1>2, <1>9, <1>10, <2>1, <2>3, <2>4 DEF Announced
  <1>12. req'[q].op = "status" /\ req'[q].kind = req[q].kind
    BY <1>2, <1>7, GoesTo DEF Commits, Inv, Labels, Early
  <1>13. Written(q, IfHere("status"))
    <2>1. Wrote(q, "status") /\ ~Second(q)
      BY <1>1, <1>2 DEF Wrote, Second
    <2>2. \A f \in Fields : Landed(q, f)' => f = "status"
      BY <1>12 DEF Landed, SettingsFields, Second
    <2>3. \A f \in IfHere("status") : f = "status"
      BY DEF IfHere
    <2>4. Here => "status" \in IfHere("status")
      BY DEF IfHere
    <2> QED
      BY <1>1, <1>2, <1>4, <1>5, <1>6, <1>11, <2>1, <2>2, <2>3, <2>4 DEF Written
  <1> QED
    BY <1>2, <1>5, <1>7, <1>11, <1>13, CommitKeeps DEF Logged

LEMMA SettingsKeep ==
  ASSUME Inv, NEW q \in Request, UpdateSettings(q)
  PROVE  Kept(q)
  <1>1. /\ Shape(req[q]) /\ counter \in Nat /\ row \in [Fields -> Request \cup {Initial}]
        /\ SettingsFields \subseteq Fields /\ "settings" \in Lists /\ "commit" \in Early
    BY DEF Inv, Types, Control, Fields, SettingsFields, Lists, Early
  <1>2. /\ req[q].op \in SettingsRequests /\ req[q].at = "commit" /\ Goes(q, "answer")
        /\ UNCHANGED <<counter, there, before>>
        /\ row' = [f \in Fields |-> IF f \in Given(q) THEN q ELSE row[f]]
        /\ log' = [log EXCEPT !["settings"] = Append(log["settings"], q)]
    BY DEF UpdateSettings
  <1>3. PICK says : /\ says = [f \in SettingsFields |-> row'[f]]
                    /\ Stores(q, "settings.changed", says)
    BY DEF UpdateSettings
  <1>4. req[q].op \notin {"rename", "mode", "status"} /\ req[q].kind = req[q].op
    BY <1>1, <1>2 DEF Shape, SettingsRequests
  <1>5. Given(q) \in SUBSET Fields /\ Given(q) \subseteq SettingsFields
    BY <1>1, <1>2, <1>4 DEF Given, SettingsFields, SettingsRequests
  <1>6. Here' <=> Here
    BY <1>2 DEF Here
  <1>7. Commits(q, "answer")
    BY <1>1, <1>2, <1>6 DEF Commits, Holds, Inv, Types
  <1>8. Announced(q) /\ \E u \in stored' : u.req = q /\ u.says = says
    BY <1>1, <1>3, <1>4, <1>7, OneUpdate, SMTT(30) DEF Commits
  <1>9. req'[q].op = req[q].op /\ req'[q].kind = req[q].kind /\ req'[q].at = "answer"
    BY <1>2, GoesTo DEF Inv, Labels, Early
  <1>10. ~Second(q) /\ ~Second(q)'
    BY <1>4, <1>9 DEF Second
  <1>11. Written(q, Given(q))
    <2>1. \A f \in Given(q) : Wrote(q, f)
      BY <1>1, <1>4, <1>5 DEF Wrote, Given
    <2>2. \A f \in Fields : Landed(q, f)' => f \in Given(q)
      BY <1>2, <1>4, <1>9, <1>10 DEF Landed, Given, SettingsFields
    <2>3. \A f \in Given(q) : f \in DOMAIN says
      BY <1>3, <1>5
    <2> QED
      BY <1>2, <1>8, <1>10, <2>1, <2>2, <2>3 DEF Written
  <1>12. row' \in [Fields -> Request \cup {Initial}]
    BY <1>1, <1>2
  <1>13. Logged(q)
    <2>1. req[q].kind # "patch" /\ req'[q].at \notin Torn
      BY <1>2, <1>4, <1>9 DEF SettingsRequests, Torn
    <2> QED
      BY <1>1, <1>2, <2>1 DEF Logged
  <1> QED
    BY <1>5, <1>7, <1>8, <1>11, <1>12, <1>13, CommitKeeps

-----------------------------------------------------------------------------
(* A request arrives.                                                      *)

LEMMA BeginShape ==
  ASSUME NEW kind \in AnyKind, NEW t
  PROVE  /\ FirstOp(kind) \in Ops
         /\ FirstStep(kind, t) \in {"verify", "number", "write"}
         /\ FirstOp(kind) \in {"mode", "status"} => FirstStep(kind, t) = "verify"
         /\ FirstOp(kind) = "mode" => kind = "mode"
         /\ FirstOp(kind) = "rename" => kind \in {"rename", "patch"}
         /\ FirstOp(kind) = "status" <=> kind \in {"archive", "restore"}
         /\ FirstOp(kind) \notin {"rename", "mode", "status"} => kind = FirstOp(kind)
         /\ FirstStep(kind, t) = "write" => FirstOp(kind) \in Synced
         /\ FirstStep(kind, t) = "number" => FirstOp(kind) \notin Synced
  <1> USE DEF FirstOp, FirstStep, Synced, TodoRequests, TaskRequests, NumbersFirst,
              SettingsRequests
  <1>1. CASE kind \in ConversationRequests
    BY <1>1 DEF ConversationRequests, ConversationOps, Ops
  <1>2. CASE kind \in Synced
    BY <1>2 DEF Ops
  <1>3. CASE kind \in ProjectRequests
    BY <1>3 DEF ProjectRequests, Ops
  <1>4. CASE kind \in SettingsRequests
    BY <1>4 DEF Ops
  <1> QED
    BY <1>1, <1>2, <1>3, <1>4 DEF AnyKind

LEMMA BeginKeeps ==
  ASSUME Inv, NEW q \in Request, Begin(q)
  PROVE  Kept(q)
  <1>1. /\ counter \in Nat /\ req \in [Request -> ReqType] /\ Shape(req[q])
        /\ before \in [Request -> SUBSET Request] /\ row \in [Fields -> Request \cup {Initial}]
        /\ log \in [Lists -> Seq(Request)]
    BY DEF Inv, Types, Control
  <1>2. /\ req[q].at = "no" /\ UNCHANGED <<counter, stored, there, row, log>>
        /\ before' = [before EXCEPT ![q] = {r \in Request : Ended(r)}]
    BY DEF Begin, database
  <1>3. Untouched(q) /\ req[q].op = "none"
    <2>1. req[q].op = "none"
      BY <1>1, <1>2 DEF Shape
    <2> QED
      BY <1>2, <2>1 DEF Inv, Clean, Early, Second
  <1>4. PICK kind, t, op, at, s :
          /\ kind \in AnyKind /\ t \in Tab \cup {Other, Agent}
          /\ op = FirstOp(kind) /\ at = FirstStep(kind, t)
          /\ s = [NoRequest EXCEPT !.kind = kind, !.op = op, !.tab = t, !.at = at]
          /\ req' = [req EXCEPT ![q] = s]
    <2>1. Kinds \subseteq AnyKind
      BY DEF AnyKind
    <2> QED
      BY <2>1 DEF Begin
  <1>5. /\ s.kind = kind /\ s.op = op /\ s.at = at /\ s.num = 0 /\ s.title = Initial /\ s.tab = t
        /\ s = [kind |-> kind, op |-> op, at |-> at, tab |-> t, num |-> 0, title |-> Initial]
    BY <1>4 DEF NoRequest
  <1>6. /\ op \in Ops /\ at \in {"verify", "number", "write"}
        /\ op \in {"mode", "status"} => at = "verify"
        /\ op = "mode" => kind = "mode"
        /\ op = "rename" => kind \in {"rename", "patch"}
        /\ op = "status" <=> kind \in {"archive", "restore"}
        /\ op \notin {"rename", "mode", "status"} => kind = op
        /\ at = "write" => op \in Synced
        /\ at = "number" => op \notin Synced
    BY <1>4, BeginShape
  <1>7. s \in ReqType
    <2>1. at \in Labels
      BY <1>6 DEF Labels, Early
    <2> QED
      BY <1>4, <1>5, <1>6, <2>1 DEF ReqType
  <1>8. /\ req' \in [Request -> ReqType] /\ req'[q] = s
        /\ \A r \in Request \ {q} : req'[r] = req[r]
    BY <1>4, <1>7, OneRequest DEF Inv
  <1>9. Shape(s)
    BY <1>5, <1>6 DEF Shape
  <1>10. /\ before' \in [Request -> SUBSET Request] /\ before'[q] = {r \in Request : Ended(r)}
         /\ \A r \in Request \ {q} : before'[r] = before[r]
    BY <1>1, <1>2
  <1>11. ~Ended(q) /\ ~Ended(q)' /\ ~Second(q)' /\ ~Holds(q)' /\ req'[q].at \in Early
         /\ req'[q].at # "error"
    BY <1>2, <1>5, <1>6, <1>8 DEF Ended, Second, Holds, Early
  <1>12. \A r \in Request \ {q} : /\ Ended(r)' <=> Ended(r)
                                  /\ Second(r)' <=> Second(r)
                                  /\ Holds(r)' <=> Holds(r)
                                  /\ Untouched(r)' <=> Untouched(r)
    BY <1>2, <1>8 DEF Ended, Second, Holds, Untouched
  <1>13. Untouched(q)'
    BY <1>2, <1>3 DEF Untouched
  <1>14. \A f \in Fields, r \in Request \ {q} : Later(f, r)' <=> Later(f, r)
    BY <1>2, <1>10 DEF Later
  <1>15. Types'
    BY <1>1, <1>2, <1>8, <1>10 DEF Inv, Types, LogOK, StoredOK
  <1>16. Control'
    BY <1>8, <1>9 DEF Inv, Control
  <1>17. LandedIsKept'
    <2>1. \A f \in Fields : ~Landed(q, f)'
      BY <1>5, <1>6, <1>8, <1>11 DEF Landed
    <2>2. \A f \in Fields, r \in Request \ {q} : Landed(r, f)' <=> Landed(r, f)
      BY <1>8, <1>12 DEF Landed
    <2> QED
      BY <1>2, <1>14, <2>1, <2>2 DEF Inv, LandedIsKept, Here
  <1>18. RowIsAnnounced'
    <2>1. \A f \in Fields : row[f] # q
      BY <1>3 DEF Untouched
    <2>2. \A f \in Fields, r \in Request \ {q} : Wrote(r, f)' <=> Wrote(r, f)
      BY <1>8 DEF Wrote
    <2>3. ASSUME NEW f \in Fields, row[f] # Initial
          PROVE  /\ row[f] \in Request /\ Wrote(row[f], f)'
                 /\ \E u \in stored : u.req = row[f] /\ f \in DOMAIN u.says
      <3>1. PICK r \in Request \ {q} : r = row[f]
        BY <2>1, <2>3 DEF Inv, RowIsAnnounced
      <3>2. Wrote(r, f)'
        BY <2>2, <2>3, <3>1 DEF Inv, RowIsAnnounced
      <3>3. Wrote(row[f], f)'
        BY <1>2, <3>1, <3>2 DEF Wrote
      <3> QED
        BY <2>3, <3>3 DEF Inv, RowIsAnnounced
    <2> QED
      BY <1>2, <2>3 DEF RowIsAnnounced, Wrote
  <1>19. Clean' /\ Half'
    <2>1. Clean'
      BY <1>8, <1>12, <1>13 DEF Inv, Clean
    <2>2. /\ \A u \in stored : u.req # q
          /\ \A l \in Lists : q \notin ToSet(log[l])
      BY <1>3 DEF Untouched
    <2>3. Half'
      BY <1>2, <1>8, <2>2 DEF Inv, Half, HalfWay
    <2> QED
      BY <2>1, <2>3
  <1>20. Failed'
    <2>1. req'[q].at \notin Torn \cup {"error"}
      BY <1>11 DEF Early, Torn
    <2>2. \A r \in Request \ {q} : Untold(r) => Untold(r)'
      BY <1>2, <1>8 DEF Untold
    <2> QED
      BY <1>8, <1>12, <2>1, <2>2 DEF Inv, Failed
  <1>21. Past'
    <2>1. \A r \in Request : q \notin before'[r]
      BY <1>10, <1>11 DEF Inv, Past
    <2>2. \A r \in Request : before'[r] \subseteq Request
      BY <1>10
    <2>3. \A r \in Request : \A p \in before'[r] : Ended(p)
      BY <1>10 DEF Inv, Past
    <2> QED
      BY <1>12, <2>1, <2>2, <2>3 DEF Past
  <1>22. TitleIsRead'
    <2>1. ~(req'[q].at \in {"number", "commit"} /\ req'[q].op \in {"mode", "status"})
      BY <1>5, <1>6, <1>8
    <2>2. "title" \in Fields
      BY DEF Fields
    <2> QED
      BY <1>2, <1>8, <1>14, <2>1, <2>2 DEF Inv, TitleIsRead
  <1>23. SaidIsRow'
    <2> SUFFICES ASSUME NEW f \in Fields, f \in SettingsFields \/ Here', NEW u \in stored',
                        f \in DOMAIN u.says
                 PROVE  u.says[f] = row'[f] \/ Later(f, u.req)'
      BY DEF SaidIsRow, Carry, Later
    <2>1. u \in stored /\ (f \in SettingsFields \/ Here)
      BY <1>2 DEF Here
    <2>2. u.says[f] = row[f] \/ Later(f, u.req)
      BY <2>1 DEF Inv, SaidIsRow, Carry
    <2>3. PICK r \in Request \ {q} : r = u.req
      BY <1>3, <2>1 DEF Untouched, Inv, Types, StoredOK
    <2>4. u.says[f] = row'[f] \/ Later(f, r)'
      BY <1>2, <1>14, <2>2, <2>3
    <2> QED
      BY <2>3, <2>4 DEF Later
  <1>24. InOrder'
    <2>1. \A u \in stored : u.req # q
      BY <1>3 DEF Untouched
    <2>2. req'[q].num = 0
      BY <1>5, <1>8
    <2> QED
      BY <1>2, <1>8, <1>10, <2>1, <2>2 DEF Inv, InOrder
  <1>25. Tokens'
    <2>1. req'[q].num = 0
      BY <1>5, <1>8
    <2>2. \A r \in Request : req'[r].num <= counter'
      BY <1>1, <1>2, <1>8, <2>1 DEF Inv, Tokens
    <2> QED
      BY <1>2, <1>8, <1>11, <1>12, <2>2 DEF Inv, Tokens
  <1>26. LogGrows(q)
    <2>1. \A l \in Lists : Len(log[l]) \in Nat
      BY <1>1
    <2> QED
      BY <1>2, <2>1 DEF LogGrows
  <1> QED
    BY <1>15, <1>16, <1>17, <1>18, <1>19, <1>20, <1>21, <1>22, <1>23, <1>24, <1>25, <1>26
    DEF Inv, Kept

-----------------------------------------------------------------------------
(* The steps of the tabs, and the theorems.                                *)

LEMMA TabStepKeeps ==
  ASSUME Inv, UNCHANGED <<counter, stored, there, row, log, req, before>>
  PROVE  Inv'
  <1>1. \A q \in Request, f \in Fields :
          /\ Landed(q, f)' <=> Landed(q, f)
          /\ Later(f, q)' <=> Later(f, q)
          /\ Wrote(q, f)' <=> Wrote(q, f)
    BY DEF Landed, Later, Wrote, Second
  <1>2. \A q \in Request : /\ Ended(q)' <=> Ended(q)
                           /\ Second(q)' <=> Second(q)
                           /\ Holds(q)' <=> Holds(q)
                           /\ Untouched(q)' <=> Untouched(q)
                           /\ Untold(q)' <=> Untold(q)
    BY DEF Ended, Second, Holds, Untouched, Untold
  <1>3. Here' <=> Here
    BY DEF Here
  <1>4. Types' /\ Control'
    BY DEF Inv, Types, LogOK, StoredOK, Control
  <1>5. LandedIsKept' /\ Clean' /\ Half' /\ Failed'
    BY <1>1, <1>2, <1>3 DEF Inv, LandedIsKept, Clean, Half, HalfWay, Failed
  <1>6. RowIsAnnounced'
    BY DEF Inv, RowIsAnnounced, Wrote
  <1>7. Past'
    BY <1>2 DEF Inv, Past, Types
  <1>8. TitleIsRead' /\ SaidIsRow'
    BY DEF Inv, TitleIsRead, SaidIsRow, Carry, Later, Here
  <1>9. InOrder' /\ Tokens'
    BY <1>2 DEF Inv, InOrder, Tokens
  <1> QED
    BY <1>4, <1>5, <1>6, <1>7, <1>8, <1>9 DEF Inv

LEMMA InvInit == Init => Inv
  <1> SUFFICES ASSUME Init PROVE Inv
    OBVIOUS
  <1>1. /\ counter = 0 /\ stored = {} /\ row = [f \in Fields |-> Initial]
        /\ log = [l \in Lists |-> <<>>] /\ req = [q \in Request |-> NoRequest]
        /\ before = [q \in Request |-> {}]
        /\ there \in [{"project", "conversation"} -> BOOLEAN]
    BY BothAre DEF Init
  <1>2. /\ NoRequest \in ReqType /\ NoRequest.at = "no" /\ NoRequest.kind = "none"
        /\ NoRequest.op = "none" /\ NoRequest.num = 0
    BY DEF NoRequest, ReqType, Labels, Early
  <1>3. Types
    <2>1. ToSet(<<>>) = {} /\ IsInjective(<<>>) /\ <<>> \in Seq(Request)
      BY DEF ToSet, IsInjective
    <2>2. \A l \in Lists : log[l] = <<>>
      BY <1>1
    <2>3. LogOK
      BY <2>1, <2>2 DEF LogOK
    <2> QED
      BY <1>1, <1>2, <2>1, <2>3 DEF Types, StoredOK
  <1>4. \A q \in Request : req[q] = NoRequest /\ before[q] = {}
    BY <1>1
  <1>5. \A f \in Fields : row[f] = Initial
    BY <1>1
  <1>6. Control
    BY <1>2, <1>4 DEF Control, Shape, Ops, ConversationOps, Synced, TodoRequests, TaskRequests,
                      ProjectRequests, SettingsRequests
  <1>7. \A q \in Request : Untouched(q)
    BY <1>1, <1>5 DEF Untouched, ToSet
  <1>8. LandedIsKept
    BY <1>2, <1>4 DEF LandedIsKept, Landed, Second, SettingsFields
  <1>9. RowIsAnnounced /\ Clean /\ Half /\ Failed /\ Past /\ TitleIsRead /\ SaidIsRow
    BY <1>1, <1>2, <1>4, <1>5, <1>7
    DEF RowIsAnnounced, Clean, Half, HalfWay, Failed, Torn, Past, TitleIsRead, SaidIsRow, Carry,
        Untouched
  <1>10. InOrder /\ Tokens
    BY <1>1, <1>2, <1>4 DEF InOrder, Tokens, Holds
  <1> QED
    BY <1>3, <1>6, <1>8, <1>9, <1>10 DEF Inv

\* The steps of a request.
Does(q) ==
  \/ Begin(q) \/ Invalid(q) \/ Verify(q) \/ Number(q) \/ NumberFails(q)
  \/ Commit(q) \/ CommitFails(q) \/ PushArchived(q) \/ PatchMode(q)
  \/ Write(q) \/ WriteFails(q) \/ NumberSync(q) \/ StoreSync(q) \/ SyncFails(q)
  \/ Answer(q)

LEMMA RequestKeeps ==
  ASSUME Inv, NEW q \in Request, Does(q)
  PROVE  Kept(q)
  <1>1. CASE Begin(q)
    BY <1>1, BeginKeeps
  <1>2. CASE Verify(q) \/ PatchMode(q)
    BY <1>2, VerifyKeeps, PatchKeeps
  <1>3. CASE Number(q) \/ NumberSync(q)
    BY <1>3, NumberKeeps
  <1>4. CASE Commit(q)
    BY <1>4, PlainCommitsKeep, RenameKeeps, ModeKeeps, StatusKeeps, SettingsKeep DEF Commit
  <1>5. CASE StoreSync(q)
    BY <1>5, PlainCommitsKeep
  <1>6. CASE Write(q) /\ ~ReloadTodo(q) /\ ~RegisterTask(q) /\ ~RollBackTask(q)
    BY <1>6, WriteKeeps DEF Write
  <1>7. CASE \/ Invalid(q) \/ NumberFails(q) \/ CommitFails(q) \/ PushArchived(q)
             \/ WriteFails(q) \/ SyncFails(q) \/ Answer(q) \/ ReloadTodo(q)
             \/ RegisterTask(q) \/ RollBackTask(q)
    <2>1. UNCHANGED before
      BY <1>7 DEF Invalid, NumberFails, CommitFails, PushArchived, WriteFails, SyncFails,
                  Answer, ReloadTodo, RegisterTask, RollBackTask, Fails
    <2> QED
      BY <1>7, <2>1, RelabelKeeps
  <1> QED
    BY <1>1, <1>2, <1>3, <1>4, <1>5, <1>6, <1>7 DEF Does

\* A step of a tab changes nothing else; a step of a request keeps the invariant.
LEMMA InvStep == Inv /\ [Next]_vars => Inv'
  <1> SUFFICES ASSUME Inv, [Next]_vars PROVE Inv'
    OBVIOUS
  <1>1. CASE UNCHANGED vars
    BY <1>1, TabStepKeeps DEF vars, database
  <1>2. CASE \E t \in Tab : \/ Process(t)
                            \/ \E f \in fetches[t] : ReadList(t, f) \/ ReceiveList(t, f) \/ LoseList(t, f)
    <2>1. UNCHANGED <<counter, stored, there, row, log, req, before>>
      BY <1>2 DEF Process, ReadList, ReceiveList, LoseList, database
    <2> QED
      BY <2>1, TabStepKeeps
  <1>3. CASE \E q \in Request : Does(q)
    BY <1>3, RequestKeeps DEF Kept
  <1> QED
    BY <1>1, <1>2, <1>3 DEF Next, Does

LEMMA Invariance == Spec => []Inv
  BY InvInit, InvStep, PTL DEF Spec

\* What a request wrote and answered for stays, or was overwritten by a request
\* for the same field that had not ended when it arrived: each operation of the
\* services writes its own columns only.
THEOREM WritesAreKept == Spec => []NoWriteIsLost
  <1>1. Inv => NoWriteIsLost
    <2> SUFFICES ASSUME Inv, NEW q \in Request, req[q].at = "ok", NEW f \in Fields, Wrote(q, f)
                 PROVE  \/ row[f] = q
                        \/ \E r \in Request \ {q} : row[f] = r /\ Wrote(r, f) /\ r \notin before[q]
                        \/ f \notin SettingsFields /\ ~there.conversation
      BY DEF NoWriteIsLost
    <2>1. Shape(req[q]) /\ row[f] \in Request \cup {Initial}
      BY DEF Inv, Control, Types
    <2>2. Landed(q, f)
      <3>1. f \in SettingsFields => req[q].kind = req[q].op
        BY <2>1 DEF Shape, Wrote, SettingsFields
      <3>2. CASE req[q].kind \in {"rename", "patch"}
        <4>1. req[q].op # "patch"
          BY <2>1 DEF Shape, Ops, ConversationOps, Synced, TodoRequests, TaskRequests,
                      ProjectRequests, SettingsRequests
        <4> QED
          BY <2>1, <3>1, <3>2, <4>1 DEF Shape, Wrote, Landed, Second, SettingsFields
      <3>3. CASE req[q].kind = "mode"
        BY <2>1, <3>1, <3>3 DEF Shape, Wrote, Landed, Second, SettingsFields
      <3>4. CASE req[q].kind \notin {"rename", "patch", "mode"}
        BY <2>1, <3>1, <3>4 DEF Shape, Wrote, Landed, Second, SettingsFields
      <3> QED
        BY <3>2, <3>3, <3>4
    <2>3. row[f] = q \/ Later(f, q) \/ (f \notin SettingsFields /\ ~Here)
      BY <2>2 DEF Inv, LandedIsKept
    <2>4. ASSUME Later(f, q)
          PROVE  \E r \in Request \ {q} : row[f] = r /\ Wrote(r, f) /\ r \notin before[q]
      <3>1. PICK r \in Request \ {q} : r = row[f] /\ r \notin before[q]
        BY <2>4 DEF Later
      <3>2. Wrote(r, f)
        BY <3>1 DEF Inv, RowIsAnnounced
      <3> QED
        BY <3>1, <3>2
    <2> QED
      BY <2>3, <2>4 DEF Here
  <1> QED
    BY <1>1, Invariance, PTL

\* An answer with an error means that nothing was changed or announced, but for
\* the renaming of a patch whose second transaction failed, an item that could
\* not be read again and a task that could not be registered.  The last two are
\* in their list and nowhere else, and no update tells of them.
THEOREM ErrorsChangeNothing == Spec => []ErrorMeansNoChange
  <1>1. Inv => ErrorMeansNoChange
    <2> SUFFICES ASSUME Inv, NEW q \in Request, req[q].at = "error"
                 PROVE  /\ \A f \in Fields : row[f] = q => f = "title" /\ Renamed(q)
                        /\ \A u \in stored : u.req = q => DOMAIN u.says = {"title"} /\ Renamed(q)
                        /\ \A l \in Lists : q \in ToSet(log[l]) => InList(l, req[q].op)
      BY DEF ErrorMeansNoChange, InList, Renamed
    <2>1. CASE Untold(q)
      BY <2>1 DEF Untold
    <2>2. CASE Renamed(q)
      <3>1. HalfWay(q) /\ req[q].kind = "patch"
        BY <2>2 DEF HalfWay, Renamed
      <3>2. /\ \A l \in Lists : q \notin ToSet(log[l])
            /\ \A u \in stored : u.req = q => DOMAIN u.says = {"title"}
        BY <3>1 DEF Inv, Half
      <3>3. ASSUME NEW f \in Fields, row[f] = q PROVE f = "title"
        <4>1. PICK u \in stored : u.req = q /\ f \in DOMAIN u.says
          BY <3>3, RecordConstants DEF Inv, RowIsAnnounced
        <4> QED
          BY <3>2, <4>1
      <3> QED
        BY <2>2, <3>2, <3>3
    <2> QED
      BY <2>1, <2>2 DEF Inv, Failed, Second, Renamed
  <1> QED
    BY <1>1, Invariance, PTL

\* A client that replays the stored updates by their numbers ends with the row,
\* up to requests that overlapped: a number is taken before the transaction that
\* writes the row and stores the update.
THEOREM ReplayIsTheRow == Spec => []ReplayTellsTheRow
  <1>1. Inv => ReplayTellsTheRow
    <2> SUFFICES ASSUME Inv, NEW f \in Fields, f \in SettingsFields \/ there.conversation,
                        NEW u \in Carry(f), \A v \in Carry(f) : v.num <= u.num
                 PROVE  u.says[f] = row[f] \/ (row[f] # Initial /\ Overlap(u.req, row[f]))
      BY DEF ReplayTellsTheRow
    <2>1. u \in stored /\ u.req \in Request /\ u.num \in Nat
      BY DEF Carry, Inv, Types, StoredOK
    <2>2. u.says[f] = row[f] \/ Later(f, u.req)
      BY DEF Inv, SaidIsRow, Here
    <2>3. ASSUME Later(f, u.req) PROVE row[f] # Initial /\ Overlap(u.req, row[f])
      <3>1. PICK w \in Request : w = row[f] /\ w # u.req /\ w \notin before[u.req]
        BY <2>3 DEF Later
      <3>2. PICK v \in stored : v.req = w /\ f \in DOMAIN v.says
        BY <3>1 DEF Inv, RowIsAnnounced
      <3>3. v.num \in Nat /\ v.num <= u.num
        BY <3>2 DEF Carry, Inv, Types, StoredOK
      <3>4. u.req \notin before[w]
        BY <2>1, <3>1, <3>2, <3>3 DEF Inv, InOrder
      <3> QED
        BY <3>1, <3>4 DEF Overlap
    <2> QED
      BY <2>2, <2>3
  <1> QED
    BY <1>1, Invariance, PTL

=============================================================================
