------------------------- MODULE UpdateStreamProofs -------------------------
(***************************************************************************)
(* Proofs about a user's updates, for any finite set of publishing         *)
(* goroutines, any connections, any limits, and a counter that may be lost *)
(* at any time.                                                            *)
(***************************************************************************)
EXTENDS UpdateStream, FiniteSetTheorems, SequenceTheorems, WellFoundedInduction, TLAPS

-----------------------------------------------------------------------------
(* The inductive invariant.                                                *)

\* The updates a client may have, or may have heard of: their numbers are final.
Published == stored \cup {w \in Writer : at[w] = "done"}

\* A number is given once to an update, and the row is written before the push.
Numbered ==
  /\ \A w \in Writer : at[w] = "idle" => num[w] = 0
  /\ \A w \in Writer : at[w] # "idle" => num[w] >= 1
  /\ \A w \in stored : at[w] \in {"push", "done"}

\* The connections registered are open, and the total does not miss any.
Counted ==
  /\ IsFiniteSet(registered)
  /\ others + Cardinality(registered) <= total
  /\ total <= MaxConns
  /\ \A k \in registered : handler[k].at = "open"

\* A batch holds every number between its first and its last, or they are passed.
Inner(b) ==
  \A m \in Nat : (\E x \in Nums(b) : x <= m) /\ (\E y \in Nums(b) : m <= y) =>
    m \in passed \/ \E w \in b.upd : num[w] = m

SoundBatch(b) ==
  /\ b.upd # {} /\ b.upd \subseteq Published
  /\ \A n \in b.fill : n >= 1 /\ n \in passed /\ \E w \in b.upd : n < num[w]
  /\ Inner(b)

\* The batches the dispatcher has, the frames on the wire, and the answers of
\* a pull and a poll that are not used up.
Dispatched == (IF dispatch.at = "idle" THEN {} ELSE {dispatch.batch})
              \cup {waiting[i] : i \in DOMAIN waiting}

Frames == {wire[i] : i \in DOMAIN wire}

Held(c) == IF c.at \in {"answered", "set"} THEN {c.batch} ELSE {}
Answers == Held(pull) \cup Held(poll)

\* What the client was told of, will be told of, or refused to hear.
Told(w) == w \in notified \cup refused \/ \E b \in Dispatched : w \in b.upd

\* No number up to n is missing but those passed; nor one up to the end of b,
\* once b is dispatched.
Covered(n) == \A m \in 1 .. n : m \in passed \/ \E w \in Writer : num[w] = m /\ Told(w)

CoveredWith(b) ==
  \A y \in Nums(b) : \A m \in 1 .. y :
    m \in passed \/ \E w \in Writer : num[w] = m /\ (Told(w) \/ w \in b.upd)

Sound ==
  /\ \A b \in Dispatched : SoundBatch(b)
  /\ \A f \in Frames : f.hello = FALSE => SoundBatch(f.batch)
  /\ \A b \in Answers : HasUpdates(b) => SoundBatch(b) /\ CoveredWith(b)
  /\ poll.at = "set" => \A b \in Held(poll) : HasUpdates(b) /\ \A w \in b.upd : Told(w)

\* The numbers the client has started from.
Asked(c) == IF c.at = "asked" THEN {c.from} ELSE {}
Origins == {cursor} \cup Asked(pull) \cup Asked(poll)
           \cup (IF dispatch.at = "read" THEN {dispatch.from} ELSE {})

Reached == \A n \in Origins : Covered(n)

Inv == TypeOK /\ Numbered /\ Counted /\ Sound /\ Reached /\ CursorIsPublished

-----------------------------------------------------------------------------
(* The least and the greatest number.                                      *)

USE UpdateConstants DEF serverVars, connVars, socketVars, applyVars, history

\* A nonempty set of subsets of a finite set has a minimal element.
LEMMA MinimalSubset ==
  ASSUME NEW S, IsFiniteSet(S), NEW T, T \subseteq SUBSET S, T # {}
  PROVE  \E x \in T : \A y \in T : y \subseteq x => y = x
  <1>1. IsWellFoundedOn(StrictSubsetOrdering(S), SUBSET S)
    BY FS_StrictSubsetOrderingWellFounded, FS_FiniteSubsetsOfFinite
  <1>2. \E x \in T : \A y \in T : <<y, x>> \notin StrictSubsetOrdering(S)
    BY <1>1, WFMin
  <1> QED
    BY <1>2 DEF StrictSubsetOrdering

LEMMA LeastExists ==
  ASSUME NEW S \in SUBSET Nat, S # {}
  PROVE  Min(S) \in S /\ \A y \in S : Min(S) <= y
  <1>1. PICK n \in S : TRUE
    OBVIOUS
  <1> DEFINE U == {x \in S : x <= n}
             Below(x) == {y \in U : y < x}
             T == {Below(x) : x \in U}
  <1>0. S \subseteq Nat /\ n \in Nat /\ n <= n
    BY <1>1
  <1>2. U \in SUBSET Nat /\ n \in U /\ n \in Nat /\ \A x \in U : x <= n
    BY <1>0
  <1>3. T \subseteq SUBSET U /\ T # {}
    <2>1. Below(n) \in T
      BY <1>2
    <2> QED
      BY <2>1
  <1>4. \A x \in S : x \notin U => x > n
    BY <1>1
  <1>5. \A x, y \in U : y \in Below(x) <=> y < x
    OBVIOUS
  <1>6. \A x \in U : Below(x) \in T /\ Below(x) \subseteq U
    OBVIOUS
  <1>7. \A B \in T : \E x \in U : B = Below(x)
    OBVIOUS
  <1> HIDE DEF U, T, Below
  <1>8. IsFiniteSet(U)
    BY <1>2, FS_BoundedSetOfNaturals
  <1>9. PICK B \in T : \A C \in T : C \subseteq B => C = B
    BY <1>3, <1>8, MinimalSubset
  <1>10. PICK x \in U : B = Below(x)
    BY <1>7
  <1>11. ASSUME NEW y \in U PROVE x <= y
    <2>1. SUFFICES ASSUME y < x PROVE FALSE
      BY <1>2
    <2>2. y \in Below(x) /\ y \notin Below(y)
      BY <1>2, <1>5, <2>1
    <2>3. \A z \in Below(y) : z \in Below(x)
      <3> SUFFICES ASSUME NEW z \in Below(y) PROVE z \in Below(x)
        OBVIOUS
      <3>1. z \in U /\ z < y /\ z \in Nat /\ y \in Nat /\ x \in Nat
        BY <1>2, <1>5, <1>6
      <3>2. z < x
        BY <2>1, <3>1
      <3> QED
        BY <1>5, <3>1, <3>2
    <2> QED
      BY <1>6, <1>9, <1>10, <2>2, <2>3
  <1>12. x \in S /\ \A y \in S : x <= y
    BY <1>1, <1>2, <1>4, <1>11 DEF U
  <1> QED
    BY <1>12 DEF Min

\* The greatest number of a set of updates.
LEMMA GreatestExists ==
  ASSUME NEW S \in SUBSET Writer, S # {}, num \in [Writer -> Nat]
  PROVE  \E w \in S : \A v \in S : num[v] <= num[w]
  <1> DEFINE Above(w) == {v \in S : num[v] > num[w]}
             T == {Above(w) : w \in S}
  <1>1. IsFiniteSet(S)
    BY FS_Subset
  <1>2. T \subseteq SUBSET S /\ T # {}
    <2>1. PICK w \in S : TRUE
      OBVIOUS
    <2>2. Above(w) \in T
      BY <2>1
    <2> QED
      BY <2>2
  <1>3. \A v, w \in S : v \in Above(w) <=> num[v] > num[w]
    OBVIOUS
  <1>4. \A w \in S : Above(w) \in T /\ Above(w) \subseteq S
    OBVIOUS
  <1>5. \A B \in T : \E w \in S : B = Above(w)
    OBVIOUS
  <1> HIDE DEF T, Above
  <1>6. PICK B \in T : \A C \in T : C \subseteq B => C = B
    BY <1>1, <1>2, MinimalSubset
  <1>7. PICK w \in S : B = Above(w)
    BY <1>5
  <1>8. ASSUME NEW v \in S PROVE num[v] <= num[w]
    <2>1. SUFFICES ASSUME num[v] > num[w] PROVE FALSE
      OBVIOUS
    <2>2. v \in Above(w) /\ v \notin Above(v)
      BY <1>3, <2>1
    <2>3. Above(v) \subseteq Above(w)
      BY <1>3, <1>4, <2>1
    <2> QED
      BY <1>4, <1>6, <1>7, <2>2, <2>3
  <1> QED
    BY <1>8

LEMMA MaxIs ==
  ASSUME NEW S \in SUBSET Nat, NEW m \in S, \A y \in S : y <= m
  PROVE  Max(S) = m
  <1>1. Max(S) \in S /\ \A y \in S : Max(S) >= y
    BY DEF Max
  <1> DEFINE x == Max(S)
  <1>2. x \in Nat /\ m \in Nat /\ x >= m /\ x <= m
    BY <1>1
  <1> HIDE DEF x
  <1>3. x = m
    BY <1>2
  <1> QED
    BY <1>3 DEF x

\* The last number of some rows is that of one of them.
LEMMA LastIs ==
  ASSUME NEW S \in SUBSET Writer, S # {}, num \in [Writer -> Nat]
  PROVE  /\ LastOf(S) \in Nat /\ \A v \in S : num[v] <= LastOf(S)
         /\ \E w \in S : num[w] = LastOf(S)
  <1>1. PICK w \in S : \A v \in S : num[v] <= num[w]
    BY GreatestExists
  <1>2. Max({num[v] : v \in S}) = num[w]
    BY <1>1, MaxIs
  <1> QED
    BY <1>1, <1>2 DEF LastOf

\* The last number of a batch is that of one of its updates.
LEMMA BatchLast ==
  ASSUME TypeOK, NEW b \in Batch, SoundBatch(b)
  PROVE  /\ Max(Nums(b)) \in Nums(b) /\ Max(Nums(b)) \in Nat
         /\ \A y \in Nums(b) : y <= Max(Nums(b))
         /\ \E w \in b.upd : w \in Published /\ num[w] = Max(Nums(b))
  <1>1. b.upd \in SUBSET Writer /\ b.upd # {} /\ b.fill \subseteq Nat /\ num \in [Writer -> Nat]
    BY DEF Batch, TypeOK, SoundBatch
  <1>2. PICK w \in b.upd : \A v \in b.upd : num[v] <= num[w]
    BY <1>1, GreatestExists
  <1>3. num[w] \in Nums(b) /\ Nums(b) \subseteq Nat
    BY <1>1, <1>2 DEF Nums
  <1>4. \A y \in Nums(b) : y <= num[w]
    BY <1>1, <1>2 DEF Nums, SoundBatch
  <1>5. Max(Nums(b)) = num[w]
    BY <1>3, <1>4, MaxIs
  <1> QED
    BY <1>1, <1>2, <1>3, <1>4, <1>5 DEF SoundBatch

LEMMA BatchFirst ==
  ASSUME TypeOK, NEW b \in Batch, HasUpdates(b)
  PROVE  Min(Nums(b)) \in Nums(b)
  <1>1. b.upd \in SUBSET Writer /\ b.fill \subseteq Nat /\ num \in [Writer -> Nat]
    BY DEF Batch, TypeOK
  <1>2. Nums(b) \subseteq Nat /\ Nums(b) # {}
    BY <1>1 DEF Nums, HasUpdates
  <1> QED
    BY <1>2, LeastExists

-----------------------------------------------------------------------------
(* The dispatcher and the wire.                                            *)

LEMMA AppendElements ==
  ASSUME NEW S, NEW s \in Seq(S), NEW b \in S
  PROVE  /\ Append(s, b) \in Seq(S)
         /\ {Append(s, b)[i] : i \in DOMAIN Append(s, b)} = {s[i] : i \in DOMAIN s} \cup {b}
  <1>1. /\ Append(s, b) \in Seq(S) /\ DOMAIN s = 1 .. Len(s) /\ Len(s) \in Nat
        /\ DOMAIN Append(s, b) = 1 .. Len(s) + 1
        /\ \A i \in 1 .. Len(s) : Append(s, b)[i] = s[i]
        /\ Append(s, b)[Len(s) + 1] = b
    BY AppendProperties
  <1> DEFINE t == Append(s, b)
  <1> HIDE DEF t
  <1>2. \A i \in 1 .. Len(s) + 1 : i \in 1 .. Len(s) \/ i = Len(s) + 1
    BY <1>1
  <1>3. Len(s) + 1 \in DOMAIN t /\ \A i \in DOMAIN s : i \in DOMAIN t
    BY <1>1 DEF t
  <1> QED
    BY <1>1, <1>2, <1>3 DEF t

LEMMA TailElements ==
  ASSUME NEW S, NEW s \in Seq(S), s # <<>>
  PROVE  /\ Head(s) \in S /\ Tail(s) \in Seq(S)
         /\ {s[i] : i \in DOMAIN s} = {Tail(s)[i] : i \in DOMAIN Tail(s)} \cup {Head(s)}
  <1>1. /\ Tail(s) \in Seq(S) /\ Len(s) \in Nat \ {0} /\ DOMAIN s = 1 .. Len(s)
        /\ Head(s) = s[1] /\ s[1] \in S
        /\ DOMAIN Tail(s) = 1 .. Len(s) - 1
        /\ \A i \in 1 .. Len(s) - 1 : Tail(s)[i] = s[i + 1]
    BY HeadTailProperties, EmptySeq, LenProperties
  <1> DEFINE t == Tail(s)
  <1> HIDE DEF t
  <1>2. \A i \in 1 .. Len(s) : i = 1 \/ (i - 1 \in 1 .. Len(s) - 1 /\ (i - 1) + 1 = i)
    BY <1>1
  <1>3. \A i \in 1 .. Len(s) - 1 : i + 1 \in 1 .. Len(s)
    BY <1>1
  <1>4. 1 \in DOMAIN s
    BY <1>1
  <1>5. ASSUME NEW i \in DOMAIN s PROVE s[i] = Head(s) \/ \E j \in DOMAIN t : s[i] = t[j]
    <2>1. CASE i = 1
      BY <1>1, <2>1
    <2>2. CASE i # 1
      <3>1. i - 1 \in DOMAIN t /\ t[i - 1] = s[i]
        BY <1>1, <1>2, <2>2 DEF t
      <3> QED
        BY <3>1
    <2> QED
      BY <2>1, <2>2
  <1>6. ASSUME NEW j \in DOMAIN t PROVE \E i \in DOMAIN s : t[j] = s[i]
    BY <1>1, <1>3 DEF t
  <1>7. {s[i] : i \in DOMAIN s} = {t[j] : j \in DOMAIN t} \cup {Head(s)}
    BY <1>1, <1>4, <1>5, <1>6
  <1> QED
    BY <1>1, <1>7 DEF t

LEMMA ApplyAdds ==
  ASSUME TypeOK, NEW b \in Batch, Apply(b)
  PROVE  /\ Dispatched' = Dispatched \cup {b}
         /\ dispatch' \in Task /\ waiting' \in Seq(Batch)
         /\ dispatch' = dispatch \/ dispatch'.from = cursor
  <1>1. CASE dispatch.at = "idle"
    <2>1. dispatch' = Begin(b) /\ waiting' = waiting
      BY <1>1 DEF Apply
    <2>2. dispatch'.at = "read" /\ dispatch'.from = cursor /\ dispatch'.batch = b
      BY <2>1 DEF Begin
    <2>3. dispatch' \in Task
      BY <2>1 DEF Begin, Task, Steps, TypeOK
    <2> QED
      BY <1>1, <2>1, <2>2, <2>3 DEF Dispatched, TypeOK
  <1>2. CASE dispatch.at # "idle"
    <2>1. dispatch' = dispatch /\ waiting' = Append(waiting, b) /\ waiting \in Seq(Batch)
      BY <1>2 DEF Apply, TypeOK
    <2>2. /\ {waiting'[i] : i \in DOMAIN waiting'} = {waiting[i] : i \in DOMAIN waiting} \cup {b}
          /\ waiting' \in Seq(Batch)
      BY <2>1, AppendElements
    <2> QED
      BY <1>2, <2>1, <2>2 DEF Dispatched, TypeOK
  <1> QED
    BY <1>1, <1>2

LEMMA AdvanceDrops ==
  ASSUME TypeOK, dispatch.at # "idle", Advance
  PROVE  /\ Dispatched' \subseteq Dispatched
         /\ Dispatched \subseteq Dispatched' \cup {dispatch.batch}
         /\ dispatch' \in Task /\ waiting' \in Seq(Batch)
         /\ dispatch'.at # "idle" => dispatch'.from = cursor
  <1>1. CASE waiting = <<>>
    <2>1. dispatch' = Idle /\ waiting' = <<>>
      BY <1>1 DEF Advance
    <2>2. dispatch' \in Task /\ dispatch'.at = "idle"
      BY <2>1 DEF Idle, Task, Steps, Batch, NoBatch
    <2>3. DOMAIN waiting = {} /\ DOMAIN waiting' = {} /\ waiting' \in Seq(Batch)
      BY <1>1, <2>1
    <2>4. Dispatched' = {}
      BY <2>2, <2>3 DEF Dispatched
    <2>5. Dispatched = {dispatch.batch}
      BY <2>3 DEF Dispatched
    <2> QED
      BY <2>2, <2>3, <2>4, <2>5
  <1>2. CASE waiting # <<>>
    <2>1. dispatch' = Begin(Head(waiting)) /\ waiting' = Tail(waiting)
      BY <1>2 DEF Advance
    <2>2. /\ Head(waiting) \in Batch /\ waiting' \in Seq(Batch)
          /\ {waiting[i] : i \in DOMAIN waiting} =
               {waiting'[i] : i \in DOMAIN waiting'} \cup {Head(waiting)}
      BY <1>2, <2>1, TailElements, ZenonT(60) DEF TypeOK
    <2>3. dispatch'.at = "read" /\ dispatch'.from = cursor /\ dispatch'.batch = Head(waiting)
      BY <2>1 DEF Begin
    <2>4. dispatch' \in Task
      BY <2>1, <2>2 DEF Begin, Task, Steps, TypeOK
    <2> QED
      BY <2>2, <2>3, <2>4 DEF Dispatched
  <1> QED
    BY <1>1, <1>2

\* A frame is put at the end, or dropped.
LEMMA SendAdds ==
  ASSUME TypeOK, NEW b \in Batch, Send(b)
  PROVE  /\ wire' \in Seq([hello : BOOLEAN, max : Nat, batch : Batch])
         /\ \A f \in Frames' : f \in Frames \/ f.batch = b
  <1> DEFINE f == [hello |-> FALSE, max |-> 0, batch |-> b]
  <1>1. f \in [hello : BOOLEAN, max : Nat, batch : Batch] /\ f.batch = b
    OBVIOUS
  <1>2. wire' = wire \/ wire' = Append(wire, f)
    BY DEF Send
  <1> HIDE DEF f
  <1>3. wire \in Seq([hello : BOOLEAN, max : Nat, batch : Batch])
    BY DEF TypeOK
  <1>4. CASE wire' = wire
    BY <1>3, <1>4 DEF Frames
  <1>5. CASE wire' = Append(wire, f)
    <2> DEFINE S == [hello : BOOLEAN, max : Nat, batch : Batch]
    <2>1. wire \in Seq(S) /\ f \in S
      BY <1>1, <1>3
    <2> HIDE DEF S
    <2>2. /\ Append(wire, f) \in Seq(S)
          /\ {Append(wire, f)[i] : i \in DOMAIN Append(wire, f)} =
               {wire[i] : i \in DOMAIN wire} \cup {f}
      BY <2>1, AppendElements
    <2>3. Frames' = Frames \cup {f} /\ wire' \in Seq(S)
      BY <1>5, <2>2 DEF Frames
    <2> QED
      BY <1>1, <2>3 DEF S
  <1> QED
    BY <1>2, <1>4, <1>5

-----------------------------------------------------------------------------
(* What lasts.                                                             *)

LEMMA NumberedInit == Init => Numbered
  BY DEF Init, Numbered

LEMMA NumberedStep == TypeOK /\ Numbered /\ [Next]_vars => Numbered'
  <1> SUFFICES ASSUME TypeOK, Numbered, [Next]_vars PROVE Numbered'
    OBVIOUS
  <1>1. ASSUME NEW w \in Writer, WriterStep(w) PROVE Numbered'
    <2>1. CASE NextSeq(w)
      BY <2>1 DEF NextSeq, Goto, Numbered, TypeOK
    <2>2. CASE StoreUpdate(w) \/ StoreFails(w) \/ PushToUserConnections(w)
      BY <2>2 DEF StoreUpdate, StoreFails, PushToUserConnections, Goto, Numbered, TypeOK
    <2> QED
      BY <1>1, <2>1, <2>2 DEF WriterStep
  <1>2. CASE UNCHANGED <<at, num, stored>>
    BY <1>2 DEF Numbered
  <1>3. ASSUME NEW k \in Socket, HandlerStep(k) PROVE UNCHANGED <<at, num, stored>>
    BY <1>3
    DEF HandlerStep, KickAllConnections, ReadCounter, ReadStored, SyncCounter, Connected, Replay,
        AddConnection, RefuseConnection, RemoveConnection
  <1>4. CASE LoseCounter \/ DispatcherStep \/ PullStep \/ PollStep \/ SocketStep
    BY <1>2, <1>4
    DEF LoseCounter, DispatcherStep, MoveCursor, NotifySubscribers, RefuseBatch, PullStep,
        AnswerPull, LosePull, ReceivePull, EndPull, PollStep, Poll, AnswerPoll, LosePoll,
        ReceivePoll, SetFromPoll, SocketStep, Connect, OnOpen, OnMessage, OnClose
  <1>5. CASE UNCHANGED vars
    BY <1>2, <1>5 DEF vars
  <1> QED
    BY <1>1, <1>2, <1>3, <1>4, <1>5 DEF Next

\* Published updates stay so, numbers are final, and nothing is untold.
NumbersLast ==
  /\ Published \subseteq Published'
  /\ \A w \in Writer : num[w] >= 1 => num'[w] = num[w]
  /\ passed \subseteq passed'

ToldLasts == notified \subseteq notified' /\ refused \subseteq refused' /\
             \A b \in Dispatched : b \in Dispatched' \/ b.upd \subseteq notified' \cup refused'

LEMMA ToldStays ==
  ASSUME ToldLasts, NEW w, Told(w)
  PROVE  Told(w)'
  BY DEF ToldLasts, Told

LEMMA BatchStays ==
  ASSUME TypeOK, Numbered, NumbersLast, NEW b \in Batch, SoundBatch(b)
  PROVE  Nums(b)' = Nums(b) /\ SoundBatch(b)'
  <1>1. \A w \in b.upd : w \in Writer /\ w \in Published' /\ num'[w] = num[w]
    BY DEF SoundBatch, NumbersLast, Numbered, Published, TypeOK, Batch
  <1>2. Nums(b)' = Nums(b)
    BY <1>1 DEF Nums
  <1>3. Inner(b)'
    BY <1>1, <1>2 DEF SoundBatch, Inner, NumbersLast
  <1> QED
    BY <1>1, <1>2, <1>3 DEF SoundBatch, NumbersLast

LEMMA CoveredStays ==
  ASSUME TypeOK, NumbersLast, ToldLasts, NEW n \in Nat, Covered(n)
  PROVE  Covered(n)'
  <1> SUFFICES ASSUME NEW m \in 1 .. n, m \notin passed'
               PROVE  \E w \in Writer : num'[w] = m /\ Told(w)'
    BY DEF Covered
  <1>1. PICK w \in Writer : num[w] = m /\ Told(w)
    BY DEF Covered, NumbersLast
  <1> QED
    BY <1>1, ToldStays DEF NumbersLast

LEMMA CoveredWithStays ==
  ASSUME TypeOK, Numbered, NumbersLast, ToldLasts, NEW b \in Batch, SoundBatch(b), CoveredWith(b)
  PROVE  CoveredWith(b)'
  <1> SUFFICES ASSUME NEW y \in Nums(b), NEW m \in 1 .. y, m \notin passed'
               PROVE  \E w \in Writer : num'[w] = m /\ (Told(w)' \/ w \in b.upd)
    BY BatchStays DEF CoveredWith
  <1>1. PICK w \in Writer : num[w] = m /\ (Told(w) \/ w \in b.upd)
    BY DEF CoveredWith, NumbersLast
  <1> QED
    BY <1>1, ToldStays DEF NumbersLast

\* What a step has to show.
LEMMA Keeps ==
  ASSUME TypeOK, Numbered, Sound, Reached, CursorIsPublished, NumbersLast, ToldLasts,
         \A b \in Dispatched' : b \in Dispatched \/ SoundBatch(b)',
         \A f \in Frames' : f \in Frames \/ f.hello # FALSE \/ SoundBatch(f.batch)',
         \A b \in Answers' : b \in Answers \/ (SoundBatch(b)' /\ CoveredWith(b)') \/ ~HasUpdates(b)',
         \/ poll' = poll \/ poll'.at # "set"
         \/ \A b \in Held(poll)' : HasUpdates(b)' /\ \A w \in b.upd : Told(w)',
         \A n \in Origins' : n \in Origins \/ Covered(n)',
         cursor' = cursor \/ CursorIsPublished'
  PROVE  Sound' /\ Reached' /\ CursorIsPublished'
  <1>1. /\ \A b \in Dispatched : b \in Batch
        /\ \A f \in Frames : f.batch \in Batch
        /\ \A b \in Answers : b \in Batch
        /\ \A n \in Origins : n \in Nat
    <2>1. \A i \in DOMAIN waiting : waiting[i] \in Batch
      BY DEF TypeOK
    <2>2. \A i \in DOMAIN wire : wire[i].batch \in Batch
      <3> DEFINE S == [hello : BOOLEAN, max : Nat, batch : Batch]
      <3>1. wire \in Seq(S) /\ \A f \in S : f.batch \in Batch
        BY DEF TypeOK
      <3> HIDE DEF S
      <3>2. \A i \in DOMAIN wire : wire[i] \in S
        BY <3>1
      <3> QED
        BY <3>1, <3>2
    <2>3. /\ dispatch.batch \in Batch /\ pull.batch \in Batch /\ poll.batch \in Batch
          /\ dispatch.from \in Nat /\ pull.from \in Nat /\ poll.from \in Nat /\ cursor \in Nat
      BY DEF TypeOK, Task
    <2> QED
      BY <2>1, <2>2, <2>3 DEF Dispatched, Frames, Answers, Held, Origins, Asked
  <1>2. \A b \in Dispatched' : SoundBatch(b)'
    BY <1>1, BatchStays DEF Sound
  <1>3. \A f \in Frames' : f.hello = FALSE => SoundBatch(f.batch)'
    BY <1>1, BatchStays DEF Sound
  <1>4. \A b \in Answers : HasUpdates(b)' => HasUpdates(b)
    <2>1. \A b : HasUpdates(b) <=> b.upd # {} \/ b.fill # {}
      BY DEF HasUpdates, Nums
    <2>2. \A b : HasUpdates(b)' <=> b.upd # {} \/ b.fill # {}
      BY DEF HasUpdates, Nums
    <2> QED
      BY <2>1, <2>2
  <1>5. \A b \in Answers' : HasUpdates(b)' => SoundBatch(b)' /\ CoveredWith(b)'
    BY <1>1, <1>4, BatchStays, CoveredWithStays DEF Sound
  <1>6. poll'.at = "set" => \A b \in Held(poll)' : HasUpdates(b)' /\ \A w \in b.upd : Told(w)'
    <2>1. CASE poll' = poll
      <3>1. \A b \in Held(poll) : poll.at = "set" => HasUpdates(b)' /\ \A w \in b.upd : Told(w)'
        BY <1>1, BatchStays, ToldStays DEF Sound, Answers, HasUpdates
      <3> QED
        BY <2>1, <3>1 DEF Held
    <2> QED
      BY <2>1
  <1>7. \A n \in Origins' : Covered(n)'
    BY <1>1, CoveredStays DEF Reached
  <1>8. CursorIsPublished'
    BY DEF CursorIsPublished, NumbersLast, Published, Numbered, TypeOK
  <1> QED
    BY <1>2, <1>3, <1>5, <1>6, <1>7, <1>8 DEF Sound, Reached

-----------------------------------------------------------------------------
(* Batches read from the rows.                                             *)

LEMMA RowsSound ==
  ASSUME TypeOK, Numbered, UNCHANGED <<num, stored, at>>,
         NEW n \in Nat, NEW R \in SUBSET stored, R # {}, \A w \in R : num[w] > n,
         Holes(n, R) \subseteq passed', NEW F, F = {} \/ F = Holes(n, R),
         NEW b, b = [upd |-> R, fill |-> F]
  PROVE  /\ b \in Batch /\ SoundBatch(b)'
         /\ \A y \in Nums(b) : \A m \in 1 .. y :
              m <= n \/ m \in passed' \/ \E w \in b.upd : num[w] = m
  <1> DEFINE L == LastOf(R)
  <1>1. R \in SUBSET Writer /\ num \in [Writer -> Nat]
    BY DEF TypeOK
  <1>2. L \in Nat /\ (\A w \in R : num[w] <= L) /\ \E w \in R : num[w] = L
    BY <1>1, LastIs
  <1>3. Holes(n, R) = ((n + 1) .. L) \ {num[w] : w \in R}
    BY DEF Holes
  <1> HIDE DEF L
  <1>4. b.upd = R /\ b.fill = F /\ b \in Batch
    BY <1>1, <1>2, <1>3 DEF Batch
  <1>5. \A f \in F : f >= 1 /\ f <= L /\ f > n /\ f \in Nat /\ f \in passed'
                     /\ \E w \in R : f < num[w]
    BY <1>1, <1>2, <1>3
  <1>6. \A x \in Nums(b) : x \in Nat /\ x > n /\ x <= L
    BY <1>1, <1>2, <1>4, <1>5 DEF Nums
  <1>7. \A m \in Nat : m > n /\ m <= L => m \in passed' \/ \E w \in R : num[w] = m
    BY <1>2, <1>3
  <1>8. Nums(b)' = Nums(b)
    BY DEF Nums
  <1>9. Inner(b)'
    <2> SUFFICES ASSUME NEW m \in Nat, NEW x \in Nums(b), x <= m, NEW y \in Nums(b), m <= y
                 PROVE  m \in passed' \/ \E w \in b.upd : num[w] = m
      BY <1>8 DEF Inner
    <2>1. m > n /\ m <= L
      BY <1>2, <1>6
    <2> QED
      BY <1>4, <1>7, <2>1
  <1>10. R \subseteq Published'
    BY DEF Published
  <1>11. SoundBatch(b)'
    BY <1>4, <1>5, <1>9, <1>10 DEF SoundBatch
  <1>12. \A y \in Nums(b) : \A m \in 1 .. y :
           m <= n \/ m \in passed' \/ \E w \in b.upd : num[w] = m
    <2> SUFFICES ASSUME NEW y \in Nums(b), NEW m \in 1 .. y, m > n
                 PROVE  m \in passed' \/ \E w \in b.upd : num[w] = m
      BY <1>6
    <2>1. m \in Nat /\ m <= L
      BY <1>2, <1>6
    <2> QED
      BY <1>4, <1>7, <2>1
  <1> QED
    BY <1>4, <1>11, <1>12

\* An answer covers what follows the number it was asked from.
LEMMA PageSound ==
  ASSUME TypeOK, Numbered, UNCHANGED <<num, stored, at, notified, refused, dispatch, waiting>>,
         NEW n \in Nat, Covered(n), passed \subseteq passed', Page(n).fill \subseteq passed',
         NEW b, b = Page(n)
  PROVE  b \in Batch /\ ((SoundBatch(b)' /\ CoveredWith(b)') \/ ~HasUpdates(b)')
  <1> DEFINE R == Rows(n, PageLimit)
  <1>1. R \in SUBSET stored /\ \A w \in R : num[w] > n
    BY DEF Rows
  <1>2. b = [upd |-> R, fill |-> Holes(n, R)]
    BY DEF Page
  <1> HIDE DEF R
  <1>3. CASE R = {}
    <2>1. b = [upd |-> {}, fill |-> {}]
      BY <1>2, <1>3 DEF Holes
    <2> QED
      BY <2>1 DEF Batch, HasUpdates, Nums
  <1>4. CASE R # {}
    <2>1. Holes(n, R) \subseteq passed'
      BY <1>2 DEF Page, R
    <2>2. /\ b \in Batch /\ SoundBatch(b)'
          /\ \A y \in Nums(b) : \A m \in 1 .. y :
               m <= n \/ m \in passed' \/ \E w \in b.upd : num[w] = m
      BY <1>1, <1>2, <1>4, <2>1, RowsSound
    <2>3. CoveredWith(b)'
      <3> SUFFICES ASSUME NEW y \in Nums(b), NEW m \in 1 .. y, m \notin passed'
                   PROVE  \E w \in Writer : num[w] = m /\ (Told(w)' \/ w \in b.upd)
        BY DEF CoveredWith, Nums
      <3>2. \A w : Told(w) => Told(w)'
        BY DEF Told, Dispatched
      <3>3. CASE m <= n
        BY <3>2, <3>3 DEF Covered
      <3>4. CASE \E w \in b.upd : num[w] = m
        BY <2>2, <3>4 DEF Batch
      <3> QED
        BY <2>2, <3>3, <3>4
    <2> QED
      BY <2>2, <2>3
  <1> QED
    BY <1>3, <1>4

-----------------------------------------------------------------------------
(* The steps of the server.                                                *)

\* A step the client does not see.
LEMMA Unseen ==
  ASSUME Inv, NumbersLast, UNCHANGED <<wire, applyVars, pull, poll, notified, refused>>
  PROVE  Sound' /\ Reached' /\ CursorIsPublished'
  <1>1. ToldLasts
    BY DEF ToldLasts, Dispatched
  <1>2. Dispatched' = Dispatched /\ Frames' = Frames /\ Answers' = Answers /\ Origins' = Origins
    BY DEF Dispatched, Frames, Answers, Held, Origins, Asked
  <1> QED
    BY <1>1, <1>2, Keeps DEF Inv

\* A step that only sends a batch.
LEMMA Sending ==
  ASSUME Inv, NumbersLast, UNCHANGED <<applyVars, pull, poll, notified, refused>>,
         NEW b \in Batch, Send(b), SoundBatch(b)'
  PROVE  Sound' /\ Reached' /\ CursorIsPublished'
  <1>1. ToldLasts
    BY DEF ToldLasts, Dispatched
  <1>2. Dispatched' = Dispatched /\ Answers' = Answers /\ Origins' = Origins
    BY DEF Dispatched, Answers, Held, Origins, Asked
  <1>3. \A f \in Frames' : f \in Frames \/ f.batch = b
    BY SendAdds DEF Inv
  <1>4. \A f \in Frames' : f \in Frames \/ SoundBatch(f.batch)'
    BY <1>3
  <1> QED
    BY <1>1, <1>2, <1>4, Keeps DEF Inv

LEMMA WriterSteps ==
  ASSUME Inv, NEW w \in Writer, WriterStep(w)
  PROVE  TypeOK' /\ Sound' /\ Reached' /\ CursorIsPublished'
  <1> USE DEF Inv
  <1>1. CASE NextSeq(w)
    <2>1. TypeOK'
      BY <1>1 DEF NextSeq, Goto, TypeOK
    <2>2. NumbersLast
      BY <1>1 DEF NextSeq, Goto, NumbersLast, Numbered, Published, TypeOK
    <2>3. UNCHANGED <<wire, applyVars, pull, poll, notified, refused>>
      BY <1>1 DEF NextSeq
    <2> QED
      BY <2>1, <2>2, <2>3, Unseen
  <1>2. CASE StoreUpdate(w) \/ StoreFails(w)
    <2>1. TypeOK'
      BY <1>2 DEF StoreUpdate, StoreFails, Goto, TypeOK
    <2>2. NumbersLast
      BY <1>2 DEF StoreUpdate, StoreFails, Goto, NumbersLast, Published, TypeOK
    <2>3. UNCHANGED <<wire, applyVars, pull, poll, notified, refused>>
      BY <1>2 DEF StoreUpdate, StoreFails
    <2> QED
      BY <2>1, <2>2, <2>3, Unseen
  <1>3. CASE PushToUserConnections(w)
    <2> DEFINE b == [upd |-> {w}, fill |-> {}]
    <2>1. /\ Send(b) /\ Goto(w, "done") /\ at[w] = "push"
          /\ UNCHANGED <<counter, num, stored, connVars, socket, opened, applyVars, pull, poll,
                         history>>
      BY <1>3 DEF PushToUserConnections
    <2>2. b \in Batch /\ b.upd = {w} /\ b.fill = {}
      BY DEF Batch
    <2> HIDE DEF b
    <2>3. wire' \in Seq([hello : BOOLEAN, max : Nat, batch : Batch])
      BY <2>1, <2>2, SendAdds
    <2>4. TypeOK'
      BY <2>1, <2>3 DEF Goto, TypeOK
    <2>5. NumbersLast /\ w \in Published'
      BY <2>1 DEF Goto, NumbersLast, Published, TypeOK
    <2>6. Nums(b)' = {num[w]} /\ num'[w] = num[w]
      BY <2>1, <2>2 DEF Nums
    <2>7. Inner(b)'
      <3>1. \A m \in Nat : num[w] <= m /\ m <= num[w] => num[w] = m
        BY DEF TypeOK
      <3> QED
        BY <2>2, <2>6, <3>1 DEF Inner
    <2>8. SoundBatch(b)'
      BY <2>2, <2>5, <2>7 DEF SoundBatch
    <2>9. Sound' /\ Reached' /\ CursorIsPublished'
      BY <2>1, <2>2, <2>5, <2>8, Sending
    <2> QED
      BY <2>4, <2>9
  <1> QED
    BY <1>1, <1>2, <1>3 DEF WriterStep

LEMMA HandlerTyped ==
  ASSUME TypeOK, NEW k \in Socket, NEW from, NEW h, Handle(k, from, h),
         h \in [at : {"none", "accept", "kicked", "stale", "sync", "hello", "replay", "register",
                      "open", "gone"}, last : Nat, max : Nat]
  PROVE  handler' \in [Socket -> [at : {"none", "accept", "kicked", "stale", "sync", "hello",
                                        "replay", "register", "open", "gone"},
                                  last : Nat, max : Nat]]
  BY DEF Handle, TypeOK

LEMMA MovesTyped ==
  ASSUME TypeOK, NEW k \in Socket, NEW from, NEW to, Moves(k, from, to),
         to \in {"kicked", "sync", "hello", "replay", "register", "gone"}
  PROVE  handler' \in [Socket -> [at : {"none", "accept", "kicked", "stale", "sync", "hello",
                                        "replay", "register", "open", "gone"},
                                  last : Nat, max : Nat]]
  <1>1. [handler[k] EXCEPT !.at = to] \in
          [at : {"none", "accept", "kicked", "stale", "sync", "hello", "replay", "register",
                 "open", "gone"}, last : Nat, max : Nat]
    BY DEF TypeOK
  <1> QED
    BY <1>1, HandlerTyped DEF Moves

LEMMA HandlerSteps ==
  ASSUME Inv, NEW k \in Socket, HandlerStep(k)
  PROVE  TypeOK' /\ Sound' /\ Reached' /\ CursorIsPublished'
  <1> USE DEF Inv
  <1>1. ASSUME TypeOK', UNCHANGED <<at, num, stored, wire, applyVars, pull, poll, notified, refused,
                                    passed>>
        PROVE  TypeOK' /\ Sound' /\ Reached' /\ CursorIsPublished'
    BY <1>1, Unseen DEF NumbersLast, Published
  <1>2. CASE KickAllConnections(k)
    <2>1. TypeOK'
      BY <1>2, MovesTyped DEF KickAllConnections, TypeOK
    <2> QED
      BY <1>1, <1>2, <2>1 DEF KickAllConnections
  <1>3. CASE ReadCounter(k)
    <2>1. [handler[k] EXCEPT !.max = counter,
             !.at = IF counter = 0 \/ counter < handler[k].last THEN "stale" ELSE "hello"]
          \in [at : {"none", "accept", "kicked", "stale", "sync", "hello", "replay", "register",
                     "open", "gone"}, last : Nat, max : Nat]
      BY DEF TypeOK
    <2>2. TypeOK'
      BY <1>3, <2>1, HandlerTyped DEF ReadCounter, TypeOK
    <2> QED
      BY <1>1, <1>3, <2>2 DEF ReadCounter
  <1>4. CASE ReadStored(k)
    <2> DEFINE most == IF stored = {} THEN 0 ELSE LastOf(stored)
    <2>1. most \in Nat
      BY LastIs DEF TypeOK
    <2>2. Handle(k, "stale",
            IF most > handler[k].max THEN [handler[k] EXCEPT !.max = most, !.at = "sync"]
            ELSE [handler[k] EXCEPT !.at = "hello"])
      BY <1>4 DEF ReadStored
    <2> HIDE DEF most
    <2>3. (IF most > handler[k].max THEN [handler[k] EXCEPT !.max = most, !.at = "sync"]
           ELSE [handler[k] EXCEPT !.at = "hello"])
          \in [at : {"none", "accept", "kicked", "stale", "sync", "hello", "replay", "register",
                     "open", "gone"}, last : Nat, max : Nat]
      BY <2>1 DEF TypeOK
    <2>4. TypeOK'
      BY <1>4, <2>2, <2>3, HandlerTyped DEF ReadStored, TypeOK
    <2> QED
      BY <1>1, <1>4, <2>4 DEF ReadStored
  <1>5. CASE SyncCounter(k)
    <2>1. TypeOK'
      BY <1>5, MovesTyped DEF SyncCounter, TypeOK
    <2> QED
      BY <1>1, <1>5, <2>1 DEF SyncCounter
  <1>6. CASE Connected(k)
    <2> DEFINE S == [hello : BOOLEAN, max : Nat, batch : Batch]
               f == [hello |-> TRUE, max |-> handler[k].max, batch |-> NoBatch]
    <2>1. f \in S /\ f.hello = TRUE /\ wire \in Seq(S)
      BY DEF TypeOK, NoBatch, Batch
    <2>2. wire' = wire \/ wire' = Append(wire, f)
      BY <1>6 DEF Connected
    <2> HIDE DEF S, f
    <2>3. wire' \in Seq(S) /\ \A g \in Frames' : g \in Frames \/ g = f
      <3>1. CASE wire' = wire
        BY <2>1, <3>1 DEF Frames
      <3>2. CASE wire' = Append(wire, f)
        <4>1. Append(wire, f) \in Seq(S) /\ {Append(wire, f)[i] : i \in DOMAIN Append(wire, f)} =
                {wire[i] : i \in DOMAIN wire} \cup {f}
          BY <2>1, AppendElements, SMTT(30)
        <4> QED
          BY <3>2, <4>1 DEF Frames
      <3> QED
        BY <2>2, <3>1, <3>2
    <2>4. \A g \in Frames' : g \in Frames \/ g.hello # FALSE
      BY <2>1, <2>3
    <2>5. UNCHANGED <<serverVars, registered, total, socket, opened, applyVars, pull, poll, history>>
          /\ (Moves(k, "hello", "replay") \/ Moves(k, "hello", "gone"))
      BY <1>6 DEF Connected
    <2>6. TypeOK'
      BY <2>3, <2>5, MovesTyped DEF TypeOK, S
    <2>7. NumbersLast /\ ToldLasts
      BY <2>5 DEF NumbersLast, Published, ToldLasts, Dispatched
    <2>8. Dispatched' = Dispatched /\ Answers' = Answers /\ Origins' = Origins
      BY <2>5 DEF Dispatched, Answers, Held, Origins, Asked
    <2>9. Sound' /\ Reached' /\ CursorIsPublished'
      BY <2>4, <2>5, <2>7, <2>8, Keeps
    <2> QED
      BY <2>6, <2>9
  <1>7. CASE Replay(k)
    <2>1. PICK last, R, b :
            /\ last = handler[k].last
            /\ R = {w \in Rows(last, ReplayLimit) : num[w] <= handler[k].max}
            /\ b = [upd |-> R, fill |-> {}]
            /\ Moves(k, "replay", "register")
            /\ UNCHANGED <<serverVars, registered, total, socket, opened, applyVars, pull, poll,
                           notified, refused, others>>
            /\ \/ R # {} /\ Send(b) /\ passed' = passed \cup Holes(last, R)
               \/ UNCHANGED <<wire, passed>>
      BY <1>7 DEF Replay
    <2>2. R \in SUBSET stored /\ (\A w \in R : num[w] > last) /\ last \in Nat
      BY <2>1 DEF Rows, TypeOK
    <2>3. handler' \in [Socket -> [at : {"none", "accept", "kicked", "stale", "sync", "hello",
                                        "replay", "register", "open", "gone"},
                                  last : Nat, max : Nat]]
      BY <2>1, MovesTyped
    <2>4. CASE UNCHANGED <<wire, passed>>
      <3>1. TypeOK'
        BY <2>1, <2>3, <2>4 DEF TypeOK
      <3> QED
        BY <1>1, <2>1, <2>4, <3>1
    <2>5. CASE R # {} /\ Send(b) /\ passed' = passed \cup Holes(last, R)
      <3>1. b \in Batch /\ SoundBatch(b)'
        BY <2>1, <2>2, <2>5, RowsSound
      <3>2. Holes(last, R) \subseteq Nat
        <4>1. LastOf(R) \in Nat
          BY <2>2, <2>5, LastIs DEF TypeOK
        <4> QED
          BY <2>2, <2>5, <4>1 DEF Holes
      <3>3. wire' \in Seq([hello : BOOLEAN, max : Nat, batch : Batch])
        BY <2>5, <3>1, SendAdds
      <3>4. TypeOK'
        BY <2>1, <2>3, <2>5, <3>2, <3>3 DEF TypeOK
      <3>5. NumbersLast
        BY <2>1, <2>5 DEF NumbersLast, Published
      <3>6. Sound' /\ Reached' /\ CursorIsPublished'
        BY <2>1, <2>5, <3>1, <3>5, Sending
      <3> QED
        BY <3>4, <3>6
    <2> QED
      BY <2>1, <2>4, <2>5
  <1>8. CASE AddConnection(k)
    <2>1. PICK h \in [at : {"none", "accept", "kicked", "stale", "sync", "hello", "replay",
                           "register", "open", "gone"}, last : Nat, max : Nat] :
            Handle(k, "register", h)
      BY <1>8 DEF AddConnection
    <2>2. handler' \in [Socket -> [at : {"none", "accept", "kicked", "stale", "sync", "hello",
                                        "replay", "register", "open", "gone"},
                                  last : Nat, max : Nat]]
      BY <2>1, HandlerTyped
    <2>3. TypeOK'
      <3>1. registered' = registered \cup {k} /\ total' = total + 1
        BY <1>8 DEF AddConnection
      <3>2. registered' \subseteq Socket /\ total' \in Nat
        BY <3>1 DEF TypeOK
      <3> QED
        BY <1>8, <2>2, <3>2 DEF AddConnection, TypeOK
    <2> QED
      BY <1>1, <1>8, <2>3 DEF AddConnection
  <1>9. CASE RefuseConnection(k)
    <2>1. TypeOK'
      BY <1>9, MovesTyped DEF RefuseConnection, TypeOK
    <2> QED
      BY <1>1, <1>9, <2>1 DEF RefuseConnection
  <1>10. CASE RemoveConnection(k)
    <2>1. total' \in Nat
      <3>1. Cardinality(registered) \in Nat /\ Cardinality(registered) # 0
        BY <1>10, FS_CardinalityType, FS_EmptySet DEF RemoveConnection, Counted
      <3> QED
        BY <1>10, <3>1 DEF RemoveConnection, Counted, TypeOK
    <2>2. TypeOK'
      BY <1>10, <2>1 DEF RemoveConnection, TypeOK
    <2> QED
      BY <1>1, <1>10, <2>2 DEF RemoveConnection
  <1> QED
    BY <1>2, <1>3, <1>4, <1>5, <1>6, <1>7, <1>8, <1>9, <1>10, HandlerStep(k) DEF HandlerStep

-----------------------------------------------------------------------------
(* The steps of the client.                                                *)

LEMMA Bounds ==
  ASSUME TypeOK
  PROVE  /\ \A b \in Dispatched : b \in Batch
         /\ \A b \in Answers : b \in Batch
         /\ \A n \in Origins : n \in Nat
  <1>1. \A i \in DOMAIN waiting : waiting[i] \in Batch
    BY DEF TypeOK
  <1>2. /\ dispatch.batch \in Batch /\ pull.batch \in Batch /\ poll.batch \in Batch
        /\ dispatch.from \in Nat /\ pull.from \in Nat /\ poll.from \in Nat /\ cursor \in Nat
    BY DEF TypeOK, Task
  <1> QED
    BY <1>1, <1>2 DEF Dispatched, Answers, Held, Origins, Asked

\* A batch handed to the dispatcher is told from then on.
LEMMA Applying ==
  ASSUME TypeOK, NEW b \in Batch, Apply(b), UNCHANGED <<notified, refused>>
  PROVE  /\ ToldLasts /\ Dispatched' = Dispatched \cup {b}
         /\ \A w \in b.upd : Told(w)'
  <1>1. Dispatched' = Dispatched \cup {b}
    BY ApplyAdds
  <1> QED
    BY <1>1 DEF ToldLasts, Told

LEMMA LoseCounterKeeps ==
  ASSUME Inv, LoseCounter
  PROVE  TypeOK' /\ Sound' /\ Reached' /\ CursorIsPublished'
  <1>1. TypeOK' /\ NumbersLast /\ UNCHANGED <<wire, applyVars, pull, poll, notified, refused>>
    BY DEF Inv, LoseCounter, TypeOK, NumbersLast, Published
  <1> QED
    BY <1>1, Unseen

LEMMA MoveCursorKeeps ==
  ASSUME Inv, MoveCursor
  PROVE  TypeOK' /\ Sound' /\ Reached' /\ CursorIsPublished'
  <1> USE DEF Inv
  <1>1. PICK b, n, last :
          /\ b = dispatch.batch /\ n = dispatch.from /\ last = Max(Nums(b))
          /\ dispatch.at = "read" /\ Min(Nums(b)) = n + 1 /\ cursor' = last
          /\ dispatch' = [dispatch EXCEPT !.at = "written"]
          /\ UNCHANGED <<serverVars, connVars, socketVars, waiting, pull, poll, history>>
    BY DEF MoveCursor, Continuous
  <1>2. b \in Batch /\ b \in Dispatched /\ SoundBatch(b) /\ n \in Nat /\ n \in Origins
    BY <1>1, Bounds DEF Dispatched, Sound, Origins
  <1>3. HasUpdates(b)
    BY <1>2 DEF HasUpdates, SoundBatch, Nums
  <1>4. /\ last \in Nums(b) /\ last \in Nat
        /\ \E w \in b.upd : w \in Published /\ num[w] = last
    BY <1>1, <1>2, BatchLast
  <1>5. n + 1 \in Nums(b)
    BY <1>1, <1>2, <1>3, BatchFirst
  <1>6. Covered(last)
    <2> SUFFICES ASSUME NEW m \in 1 .. last, m \notin passed
                 PROVE  \E w \in Writer : num[w] = m /\ Told(w)
      BY DEF Covered
    <2>1. m \in Nat /\ m <= last
      BY <1>4
    <2>2. CASE m <= n
      BY <1>2, <2>1, <2>2 DEF Reached, Covered
    <2>3. CASE n + 1 <= m
      <3>1. \E w \in b.upd : num[w] = m
        BY <1>2, <1>4, <1>5, <2>1, <2>3 DEF SoundBatch, Inner
      <3> QED
        BY <1>2, <3>1 DEF Told, Batch
    <2> QED
      BY <1>2, <2>1, <2>2, <2>3
  <1>7. dispatch' \in Task /\ dispatch'.at = "written" /\ dispatch'.batch = b
    BY <1>1 DEF TypeOK, Task, Steps
  <1>8. Dispatched' = Dispatched
    BY <1>1, <1>7 DEF Dispatched
  <1>9. NumbersLast /\ ToldLasts
    BY <1>1, <1>8 DEF NumbersLast, ToldLasts, Published
  <1>10. Covered(last)'
    BY <1>4, <1>6, <1>9, CoveredStays
  <1>11. TypeOK'
    BY <1>1, <1>4, <1>7 DEF TypeOK
  <1>12. Frames' = Frames /\ Answers' = Answers
    BY <1>1 DEF Frames, Answers, Held
  <1>13. \A m \in Origins' : m \in Origins \/ m = last
    BY <1>1, <1>7 DEF Origins, Asked
  <1>14. CursorIsPublished'
    BY <1>1, <1>4 DEF CursorIsPublished, Published
  <1> QED
    BY <1>1, <1>8, <1>9, <1>10, <1>11, <1>12, <1>13, <1>14, Keeps

LEMMA NotifyKeeps ==
  ASSUME Inv, NotifySubscribers
  PROVE  TypeOK' /\ Sound' /\ Reached' /\ CursorIsPublished'
  <1> USE DEF Inv
  <1>1. PICK b :
          /\ b = dispatch.batch /\ dispatch.at = "written" /\ notified' = notified \cup b.upd
          /\ Advance
          /\ UNCHANGED <<serverVars, connVars, socketVars, cursor, pull, poll, refused, passed,
                         others>>
    BY DEF NotifySubscribers
  <1>2. b \in Batch
    BY <1>1 DEF TypeOK, Task
  <1>3. /\ Dispatched' \subseteq Dispatched /\ Dispatched \subseteq Dispatched' \cup {b}
        /\ dispatch' \in Task /\ waiting' \in Seq(Batch)
        /\ dispatch'.at # "idle" => dispatch'.from = cursor
    BY <1>1, AdvanceDrops
  <1>4. NumbersLast /\ ToldLasts
    BY <1>1, <1>3 DEF NumbersLast, ToldLasts, Published
  <1>5. TypeOK'
    BY <1>1, <1>2, <1>3 DEF TypeOK, Batch
  <1>6. Frames' = Frames /\ Answers' = Answers
    BY <1>1 DEF Frames, Answers, Held
  <1>7. Origins' \subseteq Origins
    BY <1>1, <1>3 DEF Origins, Asked
  <1> QED
    BY <1>1, <1>3, <1>4, <1>5, <1>6, <1>7, Keeps

LEMMA RefuseKeeps ==
  ASSUME Inv, RefuseBatch
  PROVE  TypeOK' /\ Sound' /\ Reached' /\ CursorIsPublished'
  <1> USE DEF Inv
  <1>1. PICK b, n :
          /\ b = dispatch.batch /\ n = dispatch.from /\ dispatch.at = "read"
          /\ refused' = refused \cup b.upd
          /\ pull' = pull \/ pull' = [at |-> "asked", from |-> n, batch |-> NoBatch]
          /\ Advance
          /\ UNCHANGED <<serverVars, connVars, socketVars, cursor, poll, notified, passed,
                         others>>
    BY DEF RefuseBatch, StartPull
  <1>2. b \in Batch /\ n \in Nat /\ n \in Origins
    BY <1>1 DEF TypeOK, Task, Origins
  <1>3. /\ Dispatched' \subseteq Dispatched /\ Dispatched \subseteq Dispatched' \cup {b}
        /\ dispatch' \in Task /\ waiting' \in Seq(Batch)
        /\ dispatch'.at # "idle" => dispatch'.from = cursor
    BY <1>1, AdvanceDrops
  <1>4. NumbersLast /\ ToldLasts
    BY <1>1, <1>3 DEF NumbersLast, ToldLasts, Published
  <1>5. pull' \in Task
    BY <1>1, <1>2 DEF TypeOK, Task, Steps, NoBatch, Batch
  <1>6. TypeOK'
    BY <1>1, <1>2, <1>3, <1>5 DEF TypeOK, Batch
  <1>7. Frames' = Frames /\ Answers' \subseteq Answers
    BY <1>1 DEF Frames, Answers, Held
  <1>8. Origins' \subseteq Origins
    BY <1>1, <1>2, <1>3 DEF Origins, Asked
  <1> QED
    BY <1>1, <1>3, <1>4, <1>6, <1>7, <1>8, Keeps

LEMMA PullStepKeeps ==
  ASSUME Inv, PullStep
  PROVE  TypeOK' /\ Sound' /\ Reached' /\ CursorIsPublished'
  <1> USE DEF Inv
  <1>1. CASE AnswerPull
    <2>1. PICK n, b :
            /\ n = pull.from /\ b = Page(n) /\ pull.at = "asked"
            /\ pull' = [at |-> "answered", from |-> 0, batch |-> b]
            /\ passed' = passed \cup b.fill
            /\ UNCHANGED <<serverVars, connVars, socketVars, applyVars, poll, notified, refused,
                           others>>
      BY <1>1 DEF AnswerPull
    <2>2. n \in Origins /\ n \in Nat /\ Covered(n)
      BY <2>1 DEF Origins, Asked, Reached, TypeOK, Task
    <2>3. b \in Batch /\ ((SoundBatch(b)' /\ CoveredWith(b)') \/ ~HasUpdates(b)')
      BY <2>1, <2>2, PageSound
    <2>4. pull' \in Task
      BY <2>1, <2>3 DEF Task, Steps
    <2>5. TypeOK'
      BY <2>1, <2>3, <2>4 DEF TypeOK, Batch
    <2>6. Dispatched' = Dispatched /\ Frames' = Frames
      BY <2>1 DEF Dispatched, Frames
    <2>7. NumbersLast /\ ToldLasts
      BY <2>1, <2>6 DEF NumbersLast, ToldLasts, Published
    <2>8. Answers' \subseteq Answers \cup {b} /\ Origins' \subseteq Origins
      BY <2>1 DEF Answers, Held, Origins, Asked
    <2> QED
      BY <2>1, <2>3, <2>5, <2>6, <2>7, <2>8, Keeps
  <1>2. CASE LosePull \/ EndPull
    <2>1. /\ pull' = Idle
          /\ UNCHANGED <<serverVars, connVars, socketVars, applyVars, poll, history>>
      BY <1>2 DEF LosePull, EndPull
    <2>2. TypeOK'
      BY <2>1, SMTT(30) DEF TypeOK, Idle, Task, Steps, NoBatch, Batch
    <2>3. Dispatched' = Dispatched /\ Frames' = Frames
      BY <2>1 DEF Dispatched, Frames
    <2>4. NumbersLast /\ ToldLasts
      BY <2>1, <2>3 DEF NumbersLast, ToldLasts, Published
    <2>5. Answers' \subseteq Answers /\ Origins' \subseteq Origins
      BY <2>1 DEF Answers, Held, Origins, Asked, Idle
    <2> QED
      BY <2>1, <2>2, <2>3, <2>4, <2>5, Keeps
  <1>3. CASE ReceivePull /\ HasUpdates(pull.batch)
    <2>1. PICK b, last :
            /\ b = pull.batch /\ last = Max(Nums(b)) /\ pull.at = "answered" /\ Apply(b)
            /\ cursor' = last /\ pull' = [Idle EXCEPT !.at = "closing"]
            /\ UNCHANGED <<serverVars, connVars, socketVars, poll, history>>
      BY <1>3 DEF ReceivePull
    <2>2. b \in Batch /\ b \in Answers /\ SoundBatch(b) /\ CoveredWith(b)
      BY <1>3, <2>1 DEF Answers, Held, Sound, TypeOK, Task
    <2>3. /\ last \in Nums(b) /\ last \in Nat
          /\ \E w \in b.upd : w \in Published /\ num[w] = last
      BY <2>1, <2>2, BatchLast
    <2>4. /\ ToldLasts /\ Dispatched' = Dispatched \cup {b} /\ \A w \in b.upd : Told(w)'
      BY <2>1, <2>2, Applying
    <2>5. /\ dispatch' \in Task /\ waiting' \in Seq(Batch)
          /\ dispatch' = dispatch \/ dispatch'.from = cursor
      BY <2>1, <2>2, ApplyAdds
    <2>6. pull' \in Task /\ pull'.at = "closing"
      BY <2>1 DEF Idle, Task, Steps, NoBatch, Batch
    <2>7. TypeOK'
      BY <2>1, <2>3, <2>5, <2>6 DEF TypeOK
    <2>8. NumbersLast
      BY <2>1 DEF NumbersLast, Published
    <2>9. SoundBatch(b)'
      BY <2>2, <2>8, BatchStays
    <2>10. Covered(last)'
      <3> SUFFICES ASSUME NEW m \in 1 .. last, m \notin passed'
                   PROVE  \E w \in Writer : num'[w] = m /\ Told(w)'
        BY DEF Covered
      <3>1. PICK w \in Writer : num[w] = m /\ (Told(w) \/ w \in b.upd)
        BY <2>1, <2>2, <2>3 DEF CoveredWith
      <3> QED
        BY <2>1, <2>4, <3>1, ToldStays
    <2>11. Frames' = Frames /\ Answers' \subseteq Answers
      BY <2>1, <2>6 DEF Frames, Answers, Held
    <2>12. \A m \in Origins' : m \in Origins \/ m = last
      BY <2>1, <2>5, <2>6 DEF Origins, Asked
    <2>13. CursorIsPublished'
      BY <2>1, <2>3 DEF CursorIsPublished, Published
    <2> QED
      BY <2>1, <2>4, <2>7, <2>8, <2>9, <2>10, <2>11, <2>12, <2>13, Keeps
  <1>4. CASE ReceivePull /\ ~HasUpdates(pull.batch)
    <2>1. /\ pull' = Idle
          /\ UNCHANGED <<serverVars, connVars, socketVars, applyVars, poll, history>>
      BY <1>4 DEF ReceivePull
    <2>2. TypeOK'
      BY <2>1, SMTT(30) DEF TypeOK, Idle, Task, Steps, NoBatch, Batch
    <2>3. Dispatched' = Dispatched /\ Frames' = Frames
      BY <2>1 DEF Dispatched, Frames
    <2>4. NumbersLast /\ ToldLasts
      BY <2>1, <2>3 DEF NumbersLast, ToldLasts, Published
    <2>5. Answers' \subseteq Answers /\ Origins' \subseteq Origins
      BY <2>1 DEF Answers, Held, Origins, Asked, Idle
    <2> QED
      BY <2>1, <2>2, <2>3, <2>4, <2>5, Keeps
  <1> QED
    BY <1>1, <1>2, <1>3, <1>4 DEF PullStep

LEMMA PollStepKeeps ==
  ASSUME Inv, PollStep
  PROVE  TypeOK' /\ Sound' /\ Reached' /\ CursorIsPublished'
  <1> USE DEF Inv
  <1>1. CASE Poll
    <2>1. /\ poll' = [at |-> "asked", from |-> cursor, batch |-> NoBatch]
          /\ UNCHANGED <<serverVars, connVars, socketVars, applyVars, pull, history>>
      BY <1>1 DEF Poll
    <2>2. TypeOK'
      BY <2>1, SMTT(30) DEF TypeOK, Task, Steps, NoBatch, Batch
    <2>3. Dispatched' = Dispatched /\ Frames' = Frames
      BY <2>1 DEF Dispatched, Frames
    <2>4. NumbersLast /\ ToldLasts
      BY <2>1, <2>3 DEF NumbersLast, ToldLasts, Published
    <2>5. Answers' \subseteq Answers /\ Origins' \subseteq Origins /\ poll'.at # "set"
      BY <2>1 DEF Answers, Held, Origins, Asked
    <2> QED
      BY <2>1, <2>2, <2>3, <2>4, <2>5, Keeps
  <1>2. CASE AnswerPoll
    <2>1. PICK n, b :
            /\ n = poll.from /\ b = Page(n) /\ poll.at = "asked"
            /\ poll' = [at |-> "answered", from |-> 0, batch |-> b]
            /\ passed' = passed \cup b.fill
            /\ UNCHANGED <<serverVars, connVars, socketVars, applyVars, pull, notified, refused,
                           others>>
      BY <1>2 DEF AnswerPoll
    <2>2. n \in Origins /\ n \in Nat /\ Covered(n)
      BY <2>1 DEF Origins, Asked, Reached, TypeOK, Task
    <2>3. b \in Batch /\ ((SoundBatch(b)' /\ CoveredWith(b)') \/ ~HasUpdates(b)')
      BY <2>1, <2>2, PageSound
    <2>4. poll' \in Task /\ poll'.at # "set"
      BY <2>1, <2>3 DEF Task, Steps
    <2>5. TypeOK'
      BY <2>1, <2>3, <2>4 DEF TypeOK, Batch
    <2>6. Dispatched' = Dispatched /\ Frames' = Frames
      BY <2>1 DEF Dispatched, Frames
    <2>7. NumbersLast /\ ToldLasts
      BY <2>1, <2>6 DEF NumbersLast, ToldLasts, Published
    <2>8. Answers' \subseteq Answers \cup {b} /\ Origins' \subseteq Origins
      BY <2>1 DEF Answers, Held, Origins, Asked
    <2> QED
      BY <2>1, <2>3, <2>4, <2>5, <2>6, <2>7, <2>8, Keeps
  <1>3. CASE LosePoll \/ (ReceivePoll /\ ~HasUpdates(poll.batch))
    <2>1. /\ poll' = [Idle EXCEPT !.at = "armed"]
          /\ UNCHANGED <<serverVars, connVars, socketVars, applyVars, pull, history>>
      BY <1>3 DEF LosePoll, ReceivePoll
    <2>2. poll' \in Task /\ poll'.at = "armed"
      BY <2>1 DEF Idle, Task, Steps, NoBatch, Batch
    <2>3. TypeOK'
      BY <2>1, <2>2 DEF TypeOK
    <2>4. Dispatched' = Dispatched /\ Frames' = Frames
      BY <2>1 DEF Dispatched, Frames
    <2>5. NumbersLast /\ ToldLasts
      BY <2>1, <2>4 DEF NumbersLast, ToldLasts, Published
    <2>6. Answers' \subseteq Answers /\ Origins' \subseteq Origins
      BY <2>1, <2>2 DEF Answers, Held, Origins, Asked
    <2> QED
      BY <2>1, <2>2, <2>3, <2>4, <2>5, <2>6, Keeps
  <1>4. CASE ReceivePoll /\ HasUpdates(poll.batch)
    <2>1. PICK b :
            /\ b = poll.batch /\ poll.at = "answered" /\ Apply(b)
            /\ poll' = [poll EXCEPT !.at = "set", !.from = cursor]
            /\ UNCHANGED <<serverVars, connVars, socketVars, cursor, pull, history>>
      BY <1>4 DEF ReceivePoll
    <2>2. b \in Batch /\ b \in Answers /\ SoundBatch(b)
      BY <1>4, <2>1 DEF Answers, Held, Sound, TypeOK, Task
    <2>3. /\ ToldLasts /\ Dispatched' = Dispatched \cup {b} /\ \A w \in b.upd : Told(w)'
      BY <2>1, <2>2, Applying
    <2>4. /\ dispatch' \in Task /\ waiting' \in Seq(Batch)
          /\ dispatch' = dispatch \/ dispatch'.from = cursor
      BY <2>1, <2>2, ApplyAdds
    <2>5. poll' \in Task /\ poll'.at = "set" /\ poll'.batch = b
      BY <2>1 DEF TypeOK, Task, Steps
    <2>6. TypeOK'
      BY <2>1, <2>4, <2>5 DEF TypeOK
    <2>7. NumbersLast
      BY <2>1 DEF NumbersLast, Published
    <2>8. SoundBatch(b)'
      BY <2>2, <2>7, BatchStays
    <2>9. HasUpdates(b)' /\ Held(poll)' = {b}
      BY <2>5, <2>8 DEF SoundBatch, HasUpdates, Nums, Held
    <2>10. Frames' = Frames /\ Answers' \subseteq Answers
      BY <2>1, <2>2, <2>5 DEF Frames, Answers, Held
    <2>11. Origins' \subseteq Origins
      BY <2>1, <2>4, <2>5 DEF Origins, Asked
    <2> QED
      BY <2>1, <2>3, <2>6, <2>7, <2>8, <2>9, <2>10, <2>11, Keeps
  <1>5. CASE SetFromPoll
    <2>1. PICK b, last :
            /\ b = poll.batch /\ last = Max(Nums(b)) /\ poll.at = "set"
            /\ cursor' = last \/ cursor' = cursor
            /\ poll' = [Idle EXCEPT !.at = "armed"]
            /\ UNCHANGED <<serverVars, connVars, socketVars, dispatch, waiting, pull, history>>
      BY <1>5 DEF SetFromPoll
    <2>2. /\ b \in Batch /\ b \in Answers /\ SoundBatch(b) /\ CoveredWith(b)
          /\ \A w \in b.upd : Told(w)
      BY <2>1 DEF Answers, Held, Sound, TypeOK, Task
    <2>3. /\ last \in Nums(b) /\ last \in Nat
          /\ \E w \in b.upd : w \in Published /\ num[w] = last
      BY <2>1, <2>2, BatchLast
    <2>4. Covered(last)
      BY <2>2, <2>3 DEF CoveredWith, Covered
    <2>5. poll' \in Task /\ poll'.at = "armed"
      BY <2>1 DEF Idle, Task, Steps, NoBatch, Batch
    <2>6. TypeOK'
      BY <2>1, <2>3, <2>5 DEF TypeOK
    <2>7. Dispatched' = Dispatched /\ Frames' = Frames
      BY <2>1 DEF Dispatched, Frames
    <2>8. NumbersLast /\ ToldLasts
      BY <2>1, <2>7 DEF NumbersLast, ToldLasts, Published
    <2>9. Covered(last)'
      BY <2>3, <2>4, <2>8, CoveredStays
    <2>10. /\ Answers' \subseteq Answers
           /\ \A m \in Origins' : m \in Origins \/ m = last
      BY <2>1, <2>5 DEF Answers, Held, Origins, Asked
    <2>11. cursor' = cursor \/ CursorIsPublished'
      BY <2>1, <2>3 DEF CursorIsPublished, Published
    <2> QED
      BY <2>1, <2>5, <2>6, <2>7, <2>8, <2>9, <2>10, <2>11, Keeps
  <1> QED
    BY <1>1, <1>2, <1>3, <1>4, <1>5 DEF PollStep

LEMMA SocketStepKeeps ==
  ASSUME Inv, SocketStep
  PROVE  TypeOK' /\ Sound' /\ Reached' /\ CursorIsPublished'
  <1> USE DEF Inv
  <1>1. ASSUME NEW k \in Socket, Connect(k)
        PROVE  TypeOK' /\ Sound' /\ Reached' /\ CursorIsPublished'
    <2>1. [at |-> "accept", last |-> cursor, max |-> 0]
          \in [at : {"none", "accept", "kicked", "stale", "sync", "hello", "replay", "register",
                     "open", "gone"}, last : Nat, max : Nat]
      BY DEF TypeOK
    <2>2. handler' \in [Socket -> [at : {"none", "accept", "kicked", "stale", "sync", "hello",
                                        "replay", "register", "open", "gone"},
                                  last : Nat, max : Nat]]
      BY <1>1, <2>1, HandlerTyped DEF Connect
    <2>3. TypeOK'
      BY <1>1, <2>2 DEF Connect, TypeOK
    <2>4. NumbersLast /\ UNCHANGED <<wire, applyVars, pull, poll, notified, refused>>
      BY <1>1 DEF Connect, NumbersLast, Published
    <2> QED
      BY <2>3, <2>4, Unseen
  <1>2. ASSUME UNCHANGED <<serverVars, connVars, applyVars, pull, history>>,
               poll' = poll \/ poll' = Idle \/ poll' = [Idle EXCEPT !.at = "armed"],
               wire' = wire \/ wire' = <<>>,
               socket' \in Socket \cup {NoSocket}, opened' \in BOOLEAN
        PROVE  TypeOK' /\ Sound' /\ Reached' /\ CursorIsPublished'
    <2>1. poll' \in Task /\ (poll' = poll \/ poll'.at \in {"idle", "armed"})
      <3>1. /\ Idle \in Task /\ Idle.at = "idle"
            /\ [Idle EXCEPT !.at = "armed"] \in Task
            /\ [Idle EXCEPT !.at = "armed"].at = "armed"
        BY DEF Idle, Task, Steps, NoBatch, Batch
      <3> QED
        BY <1>2, <3>1 DEF TypeOK
    <2>2. wire' \in Seq([hello : BOOLEAN, max : Nat, batch : Batch])
      <3>1. CASE wire' = wire
        BY <3>1 DEF TypeOK
      <3>2. CASE wire' = <<>>
        BY <3>2
      <3> QED
        BY <1>2, <3>1, <3>2
    <2>3. TypeOK'
      BY <1>2, <2>1, <2>2 DEF TypeOK
    <2>4. Dispatched' = Dispatched /\ Frames' \subseteq Frames
      <3>1. CASE wire' = wire
        BY <1>2, <3>1 DEF Dispatched, Frames
      <3>2. CASE wire' = <<>>
        <4>1. DOMAIN wire' = {}
          BY <3>2
        <4> QED
          BY <1>2, <4>1 DEF Dispatched, Frames
      <3> QED
        BY <1>2, <3>1, <3>2
    <2>5. NumbersLast /\ ToldLasts
      BY <1>2, <2>4 DEF NumbersLast, ToldLasts, Published
    <2>6. Answers' \subseteq Answers /\ Origins' \subseteq Origins
      BY <1>2, <2>1 DEF Answers, Held, Origins, Asked
    <2> QED
      BY <1>2, <2>1, <2>3, <2>4, <2>5, <2>6, Keeps
  <1>3. CASE OnOpen
    BY <1>2, <1>3 DEF OnOpen, TypeOK
  <1>4. CASE OnClose
    BY <1>2, <1>4 DEF OnClose
  <1>5. CASE OnMessage
    <2> DEFINE S == [hello : BOOLEAN, max : Nat, batch : Batch]
    <2>1. PICK f :
            /\ f = Head(wire) /\ wire # <<>> /\ wire' = Tail(wire)
            /\ IF f.hello
               THEN /\ IF f.max > cursor THEN StartPull(cursor) ELSE UNCHANGED pull
                    /\ UNCHANGED applyVars
               ELSE Apply(f.batch) /\ UNCHANGED <<cursor, pull>>
            /\ UNCHANGED <<serverVars, connVars, socket, opened, poll, history>>
      BY <1>5 DEF OnMessage
    <2>2. wire \in Seq(S) /\ \A g \in S : g.hello \in BOOLEAN /\ g.batch \in Batch
      BY DEF TypeOK
    <2> HIDE DEF S
    <2>3. f \in S /\ wire' \in Seq(S) /\ Frames = Frames' \cup {f}
      <3>1. /\ Head(wire) \in S /\ Tail(wire) \in Seq(S)
            /\ {wire[i] : i \in DOMAIN wire} =
                 {Tail(wire)[i] : i \in DOMAIN Tail(wire)} \cup {Head(wire)}
        BY <2>1, <2>2, TailElements
      <3>2. /\ Frames' = {Tail(wire)[i] : i \in DOMAIN Tail(wire)}
            /\ Frames = {wire[i] : i \in DOMAIN wire}
        BY <2>1 DEF Frames
      <3> QED
        BY <2>1, <3>1, <3>2
    <2>4. NumbersLast
      BY <2>1 DEF NumbersLast, Published
    <2>5. f.hello = TRUE \/ f.hello = FALSE
      BY <2>2, <2>3
    <2>6. CASE f.hello = TRUE
      <3>1. /\ pull' = pull \/ pull' = [at |-> "asked", from |-> cursor, batch |-> NoBatch]
            /\ UNCHANGED applyVars
        BY <2>1, <2>6 DEF StartPull
      <3>2. pull' \in Task
        BY <3>1 DEF TypeOK, Task, Steps, NoBatch, Batch
      <3>3. TypeOK'
        BY <2>1, <2>3, <3>1, <3>2 DEF TypeOK, S
      <3>4. Dispatched' = Dispatched
        BY <3>1 DEF Dispatched
      <3>5. ToldLasts
        BY <2>1, <3>4 DEF ToldLasts
      <3>6. Answers' \subseteq Answers /\ Origins' \subseteq Origins
        BY <2>1, <3>1 DEF Answers, Held, Origins, Asked
      <3> QED
        BY <2>1, <2>3, <2>4, <3>1, <3>3, <3>4, <3>5, <3>6, Keeps
    <2>7. CASE f.hello = FALSE
      <3>1. Apply(f.batch) /\ UNCHANGED <<cursor, pull>>
        BY <2>1, <2>7
      <3>2. PICK b \in Batch : b = f.batch
        BY <2>2, <2>3
      <3>3. SoundBatch(b)
        BY <2>3, <2>7, <3>2 DEF Sound
      <3>4. ToldLasts /\ Dispatched' = Dispatched \cup {b}
        BY <2>1, <3>1, <3>2, Applying
      <3>5. /\ dispatch' \in Task /\ waiting' \in Seq(Batch)
            /\ dispatch' = dispatch \/ dispatch'.from = cursor
        BY <3>1, <3>2, ApplyAdds
      <3>6. TypeOK'
        BY <2>1, <2>3, <3>1, <3>5 DEF TypeOK, S
      <3>7. SoundBatch(b)'
        BY <2>4, <3>3, BatchStays
      <3>8. Answers' = Answers /\ Origins' \subseteq Origins
        BY <2>1, <3>1, <3>5 DEF Answers, Held, Origins, Asked
      <3> QED
        BY <2>1, <2>3, <2>4, <3>1, <3>4, <3>6, <3>7, <3>8, Keeps
    <2> QED
      BY <2>5, <2>6, <2>7
  <1> QED
    BY <1>1, <1>3, <1>4, <1>5 DEF SocketStep

-----------------------------------------------------------------------------
(* Counting the connections.                                               *)

LEMMA CountedStays ==
  ASSUME TypeOK, Counted, UNCHANGED <<registered, total, others>>,
         \A j \in Socket : handler'[j] = handler[j] \/ handler[j].at # "open"
  PROVE  Counted'
  BY DEF Counted, TypeOK

LEMMA CountedStep == Inv /\ [Next]_vars => Counted'
  <1> SUFFICES ASSUME Inv, [Next]_vars PROVE Counted'
    OBVIOUS
  <1> USE DEF Inv
  <1>0. /\ Cardinality(registered) \in Nat /\ IsFiniteSet(registered) /\ MaxConns \in Nat
        /\ total \in Nat /\ others \in Nat
        /\ others + Cardinality(registered) <= total /\ total <= MaxConns
    BY FS_CardinalityType DEF Counted, TypeOK
  <1>1. ASSUME NEW k \in Socket, HandlerStep(k) PROVE Counted'
    <2>1. CASE KickAllConnections(k)
      <3>1. registered' = {} /\ total' = total /\ UNCHANGED others
        BY <2>1 DEF KickAllConnections
      <3>2. IsFiniteSet({}) /\ Cardinality({}) = 0
        BY FS_EmptySet
      <3> QED
        BY <1>0, <3>1, <3>2 DEF Counted
    <2>2. CASE AddConnection(k)
      <3>1. /\ total < MaxConns /\ registered' = registered \cup {k} /\ total' = total + 1
            /\ others' = others /\ handler[k].at = "register"
            /\ handler' = [handler EXCEPT ![k] = [at |-> "open", last |-> 0, max |-> 0]]
        BY <2>2 DEF AddConnection, Handle
      <3>2. k \notin registered
        BY <3>1 DEF Counted
      <3>3. IsFiniteSet(registered') /\ Cardinality(registered') = Cardinality(registered) + 1
        BY <1>0, <3>1, <3>2, FS_AddElement
      <3>4. \A j \in registered' : handler'[j].at = "open"
        BY <3>1 DEF Counted, TypeOK
      <3> QED
        BY <1>0, <3>1, <3>3, <3>4 DEF Counted
    <2>3. CASE RemoveConnection(k)
      <3>1. /\ k \in registered /\ registered' = registered \ {k} /\ total' = total - 1
            /\ UNCHANGED <<handler, others>>
        BY <2>3 DEF RemoveConnection
      <3>2. IsFiniteSet(registered') /\ Cardinality(registered') = Cardinality(registered) - 1
        BY <1>0, <3>1, FS_RemoveElement
      <3> QED
        BY <1>0, <3>1, <3>2 DEF Counted
    <2>4. CASE \/ ReadCounter(k) \/ ReadStored(k) \/ SyncCounter(k) \/ Connected(k) \/ Replay(k)
               \/ RefuseConnection(k)
      <3>1. /\ UNCHANGED <<registered, total, others>>
            /\ handler[k].at # "open" /\ \E h : handler' = [handler EXCEPT ![k] = h]
        BY <2>4 DEF ReadCounter, ReadStored, SyncCounter, Connected, Replay, RefuseConnection,
                    Moves, Handle
      <3>2. \A j \in Socket : handler'[j] = handler[j] \/ handler[j].at # "open"
        BY <3>1 DEF TypeOK
      <3> QED
        BY <3>1, <3>2, CountedStays
    <2> QED
      BY <1>1, <2>1, <2>2, <2>3, <2>4 DEF HandlerStep
  <1>2. CASE UNCHANGED <<handler, registered, total, others>>
    BY <1>2, CountedStays
  <1>3. ASSUME NEW k \in Socket, Connect(k) PROVE Counted'
    <2>1. /\ UNCHANGED <<registered, total, others>> /\ handler[k].at = "none"
          /\ \E h : handler' = [handler EXCEPT ![k] = h]
      BY <1>3 DEF Connect, Handle
    <2>2. \A j \in Socket : handler'[j] = handler[j] \/ handler[j].at # "open"
      BY <2>1 DEF TypeOK
    <2> QED
      BY <2>1, <2>2, CountedStays
  <1>4. ASSUME NEW w \in Writer, WriterStep(w)
        PROVE  UNCHANGED <<handler, registered, total, others>>
    BY <1>4 DEF WriterStep, NextSeq, StoreUpdate, StoreFails, PushToUserConnections
  <1>5. CASE LoseCounter \/ DispatcherStep \/ PullStep \/ PollStep \/ OnOpen \/ OnMessage \/ OnClose
    BY <1>2, <1>5
    DEF LoseCounter, DispatcherStep, MoveCursor, NotifySubscribers, RefuseBatch, PullStep,
        AnswerPull, LosePull, ReceivePull, EndPull, PollStep, Poll, AnswerPoll, LosePoll,
        ReceivePoll, SetFromPoll, OnOpen, OnMessage, OnClose
  <1>6. CASE UNCHANGED vars
    BY <1>2, <1>6 DEF vars
  <1> QED
    BY <1>1, <1>2, <1>3, <1>4, <1>5, <1>6 DEF Next, SocketStep

-----------------------------------------------------------------------------
(* The invariant, and what follows from it.                                *)

LEMMA InvInit == Init => Inv
  <1> SUFFICES ASSUME Init PROVE Inv
    OBVIOUS
  <1>1. TypeOK
    <2>1. Idle \in Task
      BY DEF Idle, Task, Steps, NoBatch, Batch
    <2>2. wire \in Seq([hello : BOOLEAN, max : Nat, batch : Batch]) /\ waiting \in Seq(Batch)
      BY DEF Init
    <2>3. total \in Nat /\ others \in Nat
      BY UpdateConstants DEF Init
    <2> QED
      BY <2>1, <2>2, <2>3 DEF Init, TypeOK
  <1>2. Counted
    <2>1. MaxConns \in Nat /\ IsFiniteSet({}) /\ Cardinality({}) = 0
      BY UpdateConstants, FS_EmptySet
    <2> QED
      BY <2>1 DEF Init, Counted
  <1>3. DOMAIN waiting = {} /\ DOMAIN wire = {}
    BY DEF Init
  <1>4. dispatch.at = "idle" /\ pull.at = "idle" /\ poll.at = "idle" /\ cursor = 0
    BY DEF Init, Idle
  <1>5. Dispatched = {} /\ Frames = {} /\ Answers = {} /\ Origins = {0}
    BY <1>3, <1>4 DEF Dispatched, Frames, Answers, Held, Origins, Asked
  <1>6. Sound
    BY <1>4, <1>5 DEF Sound
  <1>7. Reached
    BY <1>5 DEF Reached, Covered
  <1> QED
    BY <1>1, <1>2, <1>4, <1>6, <1>7, NumberedInit DEF Inv, CursorIsPublished

LEMMA InvStep == Inv /\ [Next]_vars => Inv'
  <1> SUFFICES ASSUME Inv, [Next]_vars PROVE Inv'
    OBVIOUS
  <1>1. Numbered' /\ Counted'
    BY NumberedStep, CountedStep DEF Inv
  <1>2. TypeOK' /\ Sound' /\ Reached' /\ CursorIsPublished'
    <2>1. CASE UNCHANGED vars
      <3>1. TypeOK' /\ NumbersLast /\ UNCHANGED <<wire, applyVars, pull, poll, notified, refused>>
        BY <2>1 DEF vars, Inv, TypeOK, NumbersLast, Published
      <3> QED
        BY <3>1, Unseen
    <2>2. CASE DispatcherStep
      BY <2>2, MoveCursorKeeps, NotifyKeeps, RefuseKeeps DEF DispatcherStep
    <2> QED
      BY <2>1, <2>2, WriterSteps, HandlerSteps, LoseCounterKeeps, PullStepKeeps, PollStepKeeps,
         SocketStepKeeps
      DEF Next
  <1> QED
    BY <1>1, <1>2 DEF Inv

LEMMA Invariance == Spec => []Inv
  BY InvInit, InvStep, PTL DEF Spec

\* Every variable holds a value of its kind: the numbers, the rows and the
\* connections of the server, and the batches the client has at hand.
THEOREM TypesHold == Spec => []TypeOK
  <1>1. Inv => TypeOK
    BY DEF Inv
  <1> QED
    BY <1>1, Invariance, PTL

\* The stored cursor is 0 or the number of an update that was published, though
\* a pull, a poll and the dispatcher all write it, and Redis may lose the counter.
THEOREM CursorIsReal == Spec => []CursorIsPublished
  <1>1. Inv => CursorIsPublished
    BY DEF Inv
  <1> QED
    BY <1>1, Invariance, PTL

\* An update below the cursor that no subscriber heard of, or is about to, was
\* stored late, was refused as a gap, or shares its number.
THEOREM NothingElseIsMissed == Spec => []MissedIsExplained
  <1>1. Inv => MissedIsExplained
    <2> SUFFICES ASSUME Inv, NEW w \in stored, num[w] <= cursor, num[w] \notin passed,
                        w \notin refused, w \notin notified,
                        ~ \E v \in Writer \ {w} : num[v] = num[w]
                 PROVE  InDispatcher(w)
      BY DEF MissedIsExplained
    <2>1. w \in Writer /\ num[w] \in Nat /\ num[w] >= 1 /\ cursor \in Nat
      BY DEF Inv, TypeOK, Numbered
    <2>2. Covered(cursor)
      BY DEF Inv, Reached, Origins
    <2>3. PICK v \in Writer : num[v] = num[w] /\ Told(v)
      BY <2>1, <2>2 DEF Covered
    <2>4. PICK b \in Dispatched : w \in b.upd
      BY <2>3 DEF Told
    <2> QED
      BY <2>4 DEF Dispatched, InDispatcher
  <1> QED
    BY <1>1, Invariance, PTL

\* The manager never lets in more connections than its limit, over all users:
\* its total errs upwards only, whatever connections are kicked or removed.
THEOREM LimitIsKept == Spec => [](others + Cardinality(registered) <= MaxConns)
  <1>1. Inv => others + Cardinality(registered) <= MaxConns
    BY FS_CardinalityType DEF Inv, TypeOK, Counted, UpdateConstants
  <1> QED
    BY <1>1, UpdateConstants, Invariance, PTL

=============================================================================
