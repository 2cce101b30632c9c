------------------------ MODULE MessageTrackerProofs ------------------------
(***************************************************************************)
(* Proofs about the messages of a run, for any finite set of tool calls    *)
(* and any number of model calls.                                          *)
(***************************************************************************)
EXTENDS MessageTracker, FiniteSetTheorems, TLAPS

-----------------------------------------------------------------------------
(* The inductive invariant.  Its part about trackers and rows speaks of    *)
(* any values of them, as a callback may complete two messages one after   *)
(* the other.                                                              *)

Keys == {"root"} \X Role

Typed(n, trs, rws, end, drp) ==
  /\ n \in 0..(MaxSteps + Cardinality(Call))
  /\ DOMAIN trs \subseteq Keys /\ \A k \in DOMAIN trs : trs[k] \in TrackerType
  /\ DOMAIN rws \subseteq 1..n /\ \A m \in DOMAIN rws : rws[m] \in RowType
  /\ end \in [Msg -> Nat]
  /\ drp \subseteq Msg

\* A tracker's message is its own, numbered, and its end is not announced.
OwnMessage(n, trs, end) ==
  /\ \A k \in DOMAIN trs : trs[k].msg <= n
  /\ \A k \in DOMAIN trs : trs[k].done => trs[k].msg # NoMsg
  /\ \A j, k \in DOMAIN trs : trs[j].msg = trs[k].msg => j = k \/ trs[j].msg = NoMsg
  /\ \A k \in DOMAIN trs : trs[k].msg # NoMsg => end[trs[k].msg] = 0

EndedOnce(n, end) == \A m \in Msg : end[m] <= 1 /\ (m > n => end[m] = 0)

\* The messages of open trackers are in progress, and no others are.
InProgress(trs, rws, drp) ==
  /\ \A k \in DOMAIN trs :
       ~trs[k].done /\ trs[k].msg \in DOMAIN rws => rws[trs[k].msg].finish = "none"
  /\ \A m \in DOMAIN rws : rws[m].finish = "none" =>
       m \in drp \/ \E k \in DOMAIN trs : ~trs[k].done /\ trs[k].msg = m

Sound(n, trs, rws, end, drp) ==
  /\ Typed(n, trs, rws, end, drp)
  /\ OwnMessage(n, trs, end)
  /\ EndedOnce(n, end)
  /\ InProgress(trs, rws, drp)

\* Tool calls run in the tool step, and a message is marked stopped after the
\* context was cancelled or when the run is over.
Control ==
  /\ \A c \in Call : at[c] \in {"called", "started"} => phase = "tools"
  /\ stop # "none" => cancelled
  /\ \A k \in DOMAIN trackers : trackers[k].done => cancelled \/ phase = "closed"

\* One message for each model call and each tool call that was begun.
Begun == {c \in Call : at[c] \notin {"new", "called"}}

Bound ==
  /\ msgs <= step + Cardinality(Begun)
  /\ phase = "model" /\ Tracker(Assistant).msg = NoMsg => msgs < step + Cardinality(Begun)

Tracked == Sound(msgs, trackers, rows, ended, dropped)

Inv == TypeOK /\ Tracked /\ Control /\ Bound /\ StoppedIsMarked

-----------------------------------------------------------------------------
(* What an update of trackers and rows preserves.                          *)

LEMMA NumbersAreNat == MaxSteps \in Nat /\ Cardinality(Call) \in Nat
  BY TrackerAssumption, FS_CardinalityType

\* A message is made for the tracker of key, and its row, if it can be.
LEMMA InsertSound ==
  ASSUME NEW n, NEW trs, NEW rws, NEW end, NEW drp, Sound(n, trs, rws, end, drp),
         n + 1 \in Msg, NEW key \in Keys, key \in DOMAIN trs => trs[key].msg = NoMsg,
         NEW t \in TrackerType, t.msg = n + 1, t.done = FALSE,
         NEW r \in RowType, r.finish = "none",
         NEW rws2, rws2 = rws \/ rws2 = With(n + 1, r, rws)
  PROVE  Sound(n + 1, With(key, t, trs), rws2, end, drp)
  <1> DEFINE trs2 == With(key, t, trs)
  <1>1. /\ DOMAIN trs2 = DOMAIN trs \cup {key}
        /\ trs2[key] = t
        /\ \A k \in DOMAIN trs \ {key} : trs2[k] = trs[k]
    BY DEF With
  <1>2. /\ DOMAIN rws \subseteq DOMAIN rws2 /\ DOMAIN rws2 \subseteq DOMAIN rws \cup {n + 1}
        /\ \A m \in DOMAIN rws2 : m # n + 1 => rws2[m] = rws[m]
        /\ n + 1 \in DOMAIN rws2 => rws2[n + 1] = r
        /\ n \in Nat /\ n + 1 \notin DOMAIN rws
    BY NumbersAreNat DEF With, Sound, Typed
  <1> HIDE DEF trs2
  <1>3. Typed(n + 1, trs2, rws2, end, drp)
    BY <1>1, <1>2, NumbersAreNat, SMTT(30) DEF Sound, Typed, Msg
  <1>4. OwnMessage(n + 1, trs2, end)
    BY <1>1, <1>2 DEF Sound, Typed, OwnMessage, EndedOnce, TrackerType, NoMsg, Msg
  <1>5. EndedOnce(n + 1, end)
    BY <1>2 DEF Sound, EndedOnce, Msg
  <1>6. InProgress(trs2, rws2, drp)
    <2>1. ASSUME NEW k \in DOMAIN trs2, ~trs2[k].done, trs2[k].msg \in DOMAIN rws2
          PROVE  rws2[trs2[k].msg].finish = "none"
      BY <1>1, <1>2, <2>1 DEF Sound, Typed, OwnMessage, InProgress, TrackerType, Msg, NoMsg
    <2>2. ASSUME NEW m \in DOMAIN rws2, rws2[m].finish = "none", m \notin drp
          PROVE  \E k \in DOMAIN trs2 : ~trs2[k].done /\ trs2[k].msg = m
      <3>1. CASE m = n + 1
        BY <1>1, <3>1
      <3>2. CASE m # n + 1
        <4>1. PICK k \in DOMAIN trs : ~trs[k].done /\ trs[k].msg = m
          BY <1>2, <2>2, <3>2 DEF Sound, InProgress
        <4>2. k # key
          BY <1>2, <2>2, <3>2, <4>1 DEF Sound, Typed, NoMsg
        <4> QED
          BY <1>1, <4>1, <4>2
      <3> QED
        BY <3>1, <3>2
    <2> QED
      BY <2>1, <2>2 DEF InProgress
  <1> QED
    BY <1>3, <1>4, <1>5, <1>6 DEF Sound, trs2

\* The tracker of key is made, or changed in what is not its message.
LEMMA PlaceSound ==
  ASSUME NEW n, NEW trs, NEW rws, NEW end, NEW drp, Sound(n, trs, rws, end, drp),
         NEW key \in Keys, NEW t \in TrackerType,
         key \in DOMAIN trs => t.msg = trs[key].msg /\ t.done = trs[key].done,
         key \notin DOMAIN trs => t.msg = NoMsg /\ t.done = FALSE
  PROVE  Sound(n, With(key, t, trs), rws, end, drp)
  <1> DEFINE trs2 == With(key, t, trs)
  <1>1. /\ DOMAIN trs2 = DOMAIN trs \cup {key}
        /\ trs2[key] = t
        /\ \A k \in DOMAIN trs \ {key} : trs2[k] = trs[k]
    BY DEF With
  <1>2. n \in Nat /\ 0 \notin DOMAIN rws
    BY NumbersAreNat DEF Sound, Typed
  <1> HIDE DEF trs2
  <1>3. Typed(n, trs2, rws, end, drp) /\ EndedOnce(n, end)
    BY <1>1 DEF Sound, Typed
  <1>4. OwnMessage(n, trs2, end)
    BY <1>1, <1>2 DEF Sound, Typed, OwnMessage, NoMsg
  <1>5. InProgress(trs2, rws, drp)
    BY <1>1, <1>2 DEF Sound, InProgress, NoMsg
  <1> QED
    BY <1>3, <1>4, <1>5 DEF Sound, trs2

\* A tracker without a message goes; a number may be lost.
LEMMA DropSound ==
  ASSUME NEW n, NEW trs, NEW rws, NEW end, NEW drp, Sound(n, trs, rws, end, drp),
         NEW n2, n2 = n \/ n2 = n + 1, n2 \in 0..(MaxSteps + Cardinality(Call)),
         NEW key, key \in DOMAIN trs => trs[key].msg = NoMsg
  PROVE  Sound(n2, Without(key, trs), rws, end, drp)
  <1> DEFINE trs2 == Without(key, trs)
  <1>1. /\ DOMAIN trs2 = DOMAIN trs \ {key}
        /\ \A k \in DOMAIN trs2 : trs2[k] = trs[k]
    BY DEF Without, Restrict
  <1>2. n \in Nat /\ n2 \in Nat /\ n <= n2 /\ 0 \notin DOMAIN rws
    BY NumbersAreNat DEF Sound, Typed
  <1> HIDE DEF trs2
  <1>3. Typed(n2, trs2, rws, end, drp) /\ EndedOnce(n2, end)
    BY <1>1, <1>2, NumbersAreNat DEF Sound, Typed, EndedOnce, Msg
  <1>4. OwnMessage(n2, trs2, end)
    BY <1>1, <1>2, NumbersAreNat DEF Sound, Typed, OwnMessage, NoMsg, TrackerType, Msg
  <1>5. InProgress(trs2, rws, drp)
    BY <1>1, <1>2 DEF Sound, InProgress, NoMsg
  <1> QED
    BY <1>3, <1>4, <1>5 DEF Sound, trs2

SameFinish(rws, rws2) ==
  /\ DOMAIN rws2 = DOMAIN rws
  /\ \A m \in DOMAIN rws : rws2[m] \in RowType /\ rws2[m].finish = rws[m].finish

LEMMA TextSound ==
  ASSUME NEW n, NEW trs, NEW rws, NEW end, NEW drp, Sound(n, trs, rws, end, drp),
         NEW rws2, SameFinish(rws, rws2)
  PROVE  Sound(n, trs, rws2, end, drp)
  BY DEF Sound, Typed, InProgress, SameFinish

\* The message of key is finished, and its tracker goes.
Closes(trs, rws, end, drp, key, written, told, rws2, end2, drp2) ==
  /\ DOMAIN rws2 = DOMAIN rws
  /\ \A m \in DOMAIN rws : rws2[m] \in RowType
  /\ \A m \in DOMAIN rws \ {trs[key].msg} : rws2[m].finish = rws[m].finish
  /\ written /\ trs[key].msg \in DOMAIN rws => rws2[trs[key].msg].finish = "stop"
  /\ ~written => rws2 = rws
  /\ end2 = [end EXCEPT ![trs[key].msg] = IF told THEN @ + 1 ELSE @]
  /\ drp2 = IF written THEN drp ELSE drp \cup {trs[key].msg}

LEMMA CloseSound ==
  ASSUME NEW n, NEW trs, NEW rws, NEW end, NEW drp, Sound(n, trs, rws, end, drp),
         NEW key \in DOMAIN trs, trs[key].msg # NoMsg,
         NEW written \in BOOLEAN, NEW told \in BOOLEAN, NEW rws2, NEW end2, NEW drp2,
         Closes(trs, rws, end, drp, key, written, told, rws2, end2, drp2)
  PROVE  Sound(n, Without(key, trs), rws2, end2, drp2)
  <1> DEFINE trs2 == Without(key, trs)
             m    == trs[key].msg
  <1>1. /\ DOMAIN trs2 = DOMAIN trs \ {key}
        /\ \A k \in DOMAIN trs2 : trs2[k] = trs[k]
    BY DEF Without, Restrict
  <1>2. n \in Nat /\ m \in Msg /\ m <= n /\ end[m] = 0 /\ end \in [Msg -> Nat]
    BY NumbersAreNat DEF Sound, Typed, OwnMessage, TrackerType
  <1>3. \A k \in DOMAIN trs2 : trs2[k].msg # m
    BY <1>1 DEF Sound, OwnMessage
  <1>4. /\ end2 \in [Msg -> Nat] /\ end2[m] <= 1
        /\ \A x \in Msg \ {m} : end2[x] = end[x]
    BY <1>2 DEF Closes
  <1> HIDE DEF trs2, m
  <1>5. Typed(n, trs2, rws2, end2, drp2)
    <2>1. drp2 \subseteq Msg
      BY <1>2 DEF Sound, Typed, Closes, m
    <2> QED
      BY <1>1, <1>4, <2>1 DEF Sound, Typed, Closes
  <1>6. OwnMessage(n, trs2, end2)
    <2>1. \A k \in DOMAIN trs2 : trs2[k].msg # NoMsg => trs2[k].msg \in Msg \ {m}
      BY <1>1, <1>3 DEF Sound, Typed, TrackerType
    <2> QED
      BY <1>1, <1>4, <2>1 DEF Sound, OwnMessage
  <1>7. EndedOnce(n, end2)
    BY <1>2, <1>4, NumbersAreNat DEF Sound, EndedOnce, Msg
  <1>8. InProgress(trs2, rws2, drp2)
    <2>1. ASSUME NEW k \in DOMAIN trs2, ~trs2[k].done, trs2[k].msg \in DOMAIN rws2
          PROVE  rws2[trs2[k].msg].finish = "none"
      BY <1>1, <1>3, <2>1 DEF Sound, InProgress, Closes, m
    <2>2. ASSUME NEW x \in DOMAIN rws2, rws2[x].finish = "none", x \notin drp2
          PROVE  \E k \in DOMAIN trs2 : ~trs2[k].done /\ trs2[k].msg = x
      <3>1. x # m
        BY <2>2 DEF Closes, m
      <3>2. x \notin drp /\ x \in DOMAIN rws /\ rws[x].finish = "none"
        BY <2>2, <3>1 DEF Closes, m
      <3>3. PICK k \in DOMAIN trs : ~trs[k].done /\ trs[k].msg = x
        BY <3>2 DEF Sound, InProgress
      <3> QED
        BY <1>1, <3>1, <3>3 DEF m
    <2> QED
      BY <2>1, <2>2 DEF InProgress
  <1> QED
    BY <1>5, <1>6, <1>7, <1>8 DEF Sound, trs2

\* The trackers in progress are marked, and the rows of their messages.
LEMMA MarkSound ==
  ASSUME Tracked, NEW lost, MarkStopped(lost)
  PROVE  Tracked'
  <1>1. /\ DOMAIN trackers' = DOMAIN trackers
        /\ \A k \in DOMAIN trackers :
             /\ trackers'[k] \in TrackerType /\ trackers'[k].msg = trackers[k].msg
             /\ trackers'[k].done <=> trackers[k].done \/ k \in Open
    BY DEF MarkStopped, Open, Tracked, Sound, Typed, TrackerType
  <1>2. /\ DOMAIN rows' = DOMAIN rows
        /\ \A m \in DOMAIN rows :
             /\ rows'[m] \in RowType
             /\ m \in OpenMsgs \ lost => rows'[m].finish = "error"
             /\ m \notin OpenMsgs \ lost => rows'[m] = rows[m]
    BY DEF MarkStopped, Tracked, Sound, Typed, RowType
  <1>3. UNCHANGED <<msgs, ended>> /\ dropped' = dropped \cup (OpenMsgs \cap lost)
    BY DEF MarkStopped
  <1>4. OpenMsgs \subseteq Msg
    BY DEF OpenMsgs, Open, Tracked, Sound, Typed, TrackerType
  <1>5. \A k \in DOMAIN trackers : trackers[k].msg = NoMsg => trackers[k].done = FALSE
    BY DEF Tracked, Sound, OwnMessage, Typed, TrackerType
  <1>6. Typed(msgs, trackers, rows, ended, dropped)'
    BY <1>1, <1>2, <1>3, <1>4 DEF Tracked, Sound, Typed
  <1>7. OwnMessage(msgs, trackers, ended)'
    BY <1>1, <1>3 DEF Tracked, Sound, OwnMessage, Open
  <1>8. EndedOnce(msgs, ended)'
    BY <1>3 DEF Tracked, Sound, EndedOnce
  <1>9. InProgress(trackers, rows, dropped)'
    <2>1. \A k \in DOMAIN trackers : ~trackers'[k].done => trackers[k].msg = NoMsg
      BY <1>1 DEF Open
    <2>2. NoMsg \notin DOMAIN rows
      BY DEF Tracked, Sound, Typed, NoMsg
    <2>3. ASSUME NEW m \in DOMAIN rows, rows'[m].finish = "none"
          PROVE  m \in dropped'
      <3>1. rows[m].finish = "none" /\ m \notin OpenMsgs \ lost
        BY <1>2, <2>3
      <3>2. m \in dropped \/ m \in OpenMsgs
        BY <2>2, <3>1 DEF Tracked, Sound, InProgress, OpenMsgs, Open
      <3> QED
        BY <1>3, <3>1, <3>2
    <2> QED
      BY <1>1, <1>2, <2>1, <2>2, <2>3 DEF InProgress
  <1> QED
    BY <1>6, <1>7, <1>8, <1>9 DEF Tracked, Sound

-----------------------------------------------------------------------------
(* The operators of the callbacks.                                         *)

LEMMA KeysOfCallbacks ==
  /\ Assistant \in Keys /\ Assistant = <<"root", "assistant">>
  /\ \A c : Key(c, "assistant") = Assistant
  /\ \A c : Key(c, "tool") = <<"root", "tool">> /\ Key(c, "tool") \in Keys
  BY DEF Assistant, Key, AddrString, Address, Keys, Role

LEMMA TrackerTyped ==
  ASSUME Tracked, NEW key \in Keys
  PROVE  /\ Tracker(key) \in TrackerType
         /\ key \in DOMAIN trackers => Tracker(key) = trackers[key]
         /\ key \notin DOMAIN trackers => Tracker(key).msg = NoMsg
         /\ Tracker(key).msg = NoMsg => Tracker(key).done = FALSE
  <1>1. NewTracker(key[2]) \in TrackerType /\ NewTracker(key[2]).msg = NoMsg
        /\ NewTracker(key[2]).done = FALSE
    BY DEF NewTracker, TrackerType, Keys
  <1> QED
    BY <1>1 DEF Tracker, Tracked, Sound, Typed, OwnMessage, TrackerType

LEMMA TextKeepsFinish ==
  ASSUME NEW rs, \A m \in DOMAIN rs : rs[m] \in RowType, NEW m, NEW text \in SUBSET (1..MaxSteps)
  PROVE  SameFinish(rs, SetText(m, text, rs))
  BY DEF SetText, SameFinish, RowType

LEMMA CallKeepsFinish ==
  ASSUME NEW rs, \A m \in DOMAIN rs : rs[m] \in RowType, NEW m,
         NEW in \in Call \cup {NoCall}, NEW out \in Call \cup {NoCall}
  PROVE  SameFinish(rs, SetCall(m, in, out, rs))
  BY DEF SetCall, SameFinish, RowType

LEMMA FinishSetsOne ==
  ASSUME NEW rs, NEW rs2, SameFinish(rs, rs2), NEW m
  PROVE  /\ DOMAIN SetFinish(m, "stop", rs2) = DOMAIN rs
         /\ \A x \in DOMAIN rs : SetFinish(m, "stop", rs2)[x] \in RowType
         /\ \A x \in DOMAIN rs \ {m} : SetFinish(m, "stop", rs2)[x].finish = rs[x].finish
         /\ m \in DOMAIN rs => SetFinish(m, "stop", rs2)[m].finish = "stop"
  BY DEF SetFinish, SameFinish, RowType

LEMMA CallSets ==
  ASSUME NEW S \in SUBSET Call
  PROVE  /\ IsFiniteSet(S) /\ Cardinality(S) \in Nat
         /\ Cardinality(S) <= Cardinality(Call)
         /\ \A T \in SUBSET S : Cardinality(T) <= Cardinality(S) /\ Cardinality(T) \in Nat
         /\ \A c \in Call \ S : Cardinality(S \cup {c}) = Cardinality(S) + 1
  <1>1. IsFiniteSet(S)
    BY TrackerAssumption, FS_Subset
  <1>2. \A T \in SUBSET S : Cardinality(T) <= Cardinality(S) /\ Cardinality(T) \in Nat
    BY <1>1, FS_Subset, FS_CardinalityType
  <1>3. \A c \in Call \ S : Cardinality(S \cup {c}) = Cardinality(S) + 1
    BY <1>1, FS_AddElement
  <1> QED
    BY <1>1, <1>2, <1>3, TrackerAssumption, FS_Subset, FS_CardinalityType

LEMMA BegunBound ==
  /\ IsFiniteSet(Begun) /\ Cardinality(Begun) \in Nat
  /\ Cardinality(Begun) <= Cardinality(Call)
  <1>1. Begun \in SUBSET Call
    BY DEF Begun
  <1> QED
    BY <1>1, CallSets

-----------------------------------------------------------------------------
(* Trackers and rows.                                                      *)

LEMMA ResultsOfWrites ==
  /\ Insertion \subseteq {"ok", "noseq", "norow"} /\ Write \subseteq BOOLEAN
  /\ cancelled => Insertion = {"noseq"} /\ Write = {FALSE}
  BY TrackerAssumption DEF Insertion, Write

LEMMA NextNumber ==
  ASSUME TypeOK, Bound, phase = "model", Tracker(Assistant).msg = NoMsg
  PROVE  msgs + 1 \in Msg
  BY BegunBound, NumbersAreNat DEF TypeOK, Bound, Msg

LEMMA FirstDeltaSound ==
  ASSUME TypeOK, Tracked, Bound, NEW result \in Insertion, NEW written \in Write,
         FirstDelta(result, written)
  PROVE  Tracked'
  <1> DEFINE t    == Tracker(Assistant)
             text == IF result = "ok" THEN {step} ELSE {}
             made == RowsWith(t, result)
             t2   == [Named(t, result) EXCEPT !.text = text]
  <1>1. /\ t \in TrackerType /\ t.msg = NoMsg /\ t.done = FALSE
        /\ text \in SUBSET (1..MaxSteps)
        /\ Assistant \in DOMAIN trackers => trackers[Assistant] = t
    BY KeysOfCallbacks, TrackerTyped DEF FirstDelta, TypeOK
  <1>2. /\ trackers' = With(Assistant, t2, trackers)
        /\ rows' = IF written THEN SetText(msgs + 1, text, made) ELSE made
        /\ msgs' = IF result = "noseq" THEN msgs ELSE msgs + 1
        /\ UNCHANGED <<ended, dropped>>
    BY DEF FirstDelta, Insert
  <1>3. Sound(msgs', trackers', made, ended, dropped)
    <2>1. CASE result = "noseq"
      <3>1. t2 \in TrackerType /\ t2.msg = NoMsg /\ t2.done = FALSE /\ made = rows
        BY <1>1, <2>1 DEF Named, TrackerType, RowsWith
      <3> HIDE DEF t, text, t2, made
      <3> QED
        BY <1>1, <1>2, <2>1, <3>1, PlaceSound, KeysOfCallbacks DEF Tracked
    <2>2. CASE result # "noseq"
      <3>1. msgs + 1 \in Msg
        BY NextNumber DEF FirstDelta
      <3>2. t2 \in TrackerType /\ t2.msg = msgs + 1 /\ t2.done = FALSE
        BY <1>1, <2>2, <3>1 DEF Named, TrackerType
      <3>3. Row(t) \in RowType /\ Row(t).finish = "none"
        BY <1>1 DEF Row, RowType, TrackerType
      <3>4. made = rows \/ made = With(msgs + 1, Row(t), rows)
        BY DEF RowsWith
      <3> HIDE DEF t, text, t2, made
      <3> QED
        BY <1>1, <1>2, <2>2, <3>1, <3>2, <3>3, <3>4, InsertSound, KeysOfCallbacks DEF Tracked
    <2> QED
      BY <2>1, <2>2
  <1> HIDE DEF text, made
  <1>4. rows' = made \/ SameFinish(made, rows')
    BY <1>1, <1>2, <1>3, TextKeepsFinish DEF Sound, Typed
  <1> QED
    BY <1>2, <1>3, <1>4, TextSound DEF Tracked

LEMMA NextDeltaSound ==
  ASSUME TypeOK, Tracked, NEW written \in Write, NextDelta(written)
  PROVE  Tracked'
  <1> DEFINE t    == Tracker(Assistant)
             text == t.text \cup {step}
             t2   == [t EXCEPT !.text = text]
  <1>1. t \in TrackerType /\ Assistant \in DOMAIN trackers /\ trackers[Assistant] = t
    BY KeysOfCallbacks, TrackerTyped DEF NextDelta
  <1>2. text \in SUBSET (1..MaxSteps)
    BY <1>1 DEF TypeOK, TrackerType
  <1>3. t2 \in TrackerType /\ t2.msg = t.msg /\ t2.done = t.done
    BY <1>1, <1>2 DEF TrackerType
  <1>4. /\ trackers' = With(Assistant, t2, trackers)
        /\ rows' = IF written THEN SetText(t.msg, text, rows) ELSE rows
        /\ UNCHANGED <<msgs, ended, dropped>>
    BY DEF NextDelta
  <1> HIDE DEF t, text, t2
  <1>5. Sound(msgs, trackers', rows, ended, dropped)
    BY <1>1, <1>3, <1>4, PlaceSound, KeysOfCallbacks DEF Tracked
  <1>6. rows' = rows \/ SameFinish(rows, rows')
    BY <1>2, <1>4, TextKeepsFinish DEF Tracked, Sound, Typed
  <1> QED
    BY <1>4, <1>5, <1>6, TextSound DEF Tracked

LEMMA CompleteNothingSound ==
  ASSUME TypeOK, Tracked, Bound, NEW result \in Insertion, CompleteNothing(result)
  PROVE  Tracked'
  <1>1. msgs + 1 \in Msg
    BY NextNumber DEF CompleteNothing
  <1>2. Assistant \in DOMAIN trackers => trackers[Assistant].msg = NoMsg
    BY KeysOfCallbacks, TrackerTyped DEF CompleteNothing
  <1>3. /\ msgs' = msgs \/ msgs' = msgs + 1
        /\ trackers' = Without(Assistant, trackers)
        /\ UNCHANGED <<rows, ended, dropped>>
    BY DEF CompleteNothing, Insert
  <1>4. msgs' \in 0..(MaxSteps + Cardinality(Call))
    BY <1>1, <1>3, NumbersAreNat DEF TypeOK, Msg
  <1> QED
    BY <1>2, <1>3, <1>4, DropSound DEF Tracked

LEMMA CompletedSound ==
  ASSUME TypeOK, Tracked, Bound, NEW result \in Insertion, NEW written \in Write,
         NEW numbered \in Write, OnCompleted(result, written, numbered)
  PROVE  Tracked'
  <1> DEFINE t    == Tracker(Assistant)
             new  == t.msg = NoMsg
             m    == IF new THEN msgs + 1 ELSE t.msg
             made == IF new THEN RowsWith(t, "ok") ELSE rows
             text == t.text \cup {step}
             t2   == IF new THEN [t EXCEPT !.msg = msgs + 1] ELSE t
             trs  == IF new THEN With(Assistant, t2, trackers) ELSE trackers
  <1>1. /\ t \in TrackerType
        /\ Assistant \in DOMAIN trackers => trackers[Assistant] = t
        /\ Assistant \notin DOMAIN trackers => new
        /\ new => t.done = FALSE
    BY KeysOfCallbacks, TrackerTyped
  <1>2. /\ trackers' = Without(Assistant, trackers)
        /\ rows' = IF written THEN SetFinish(m, "stop", SetText(m, text, made)) ELSE made
        /\ ended' = [ended EXCEPT ![m] = IF written /\ numbered THEN @ + 1 ELSE @]
        /\ dropped' = IF written THEN dropped ELSE dropped \cup {m}
        /\ msgs' = IF new THEN msgs + 1 ELSE msgs
    BY DEF OnCompleted, Insert, Finish
  <1>3. text \in SUBSET (1..MaxSteps)
    BY <1>1 DEF TypeOK, TrackerType
  <1>4. Sound(msgs', trs, made, ended, dropped)
    <2>1. CASE new
      <3>1. msgs + 1 \in Msg
        BY <2>1, NextNumber DEF OnCompleted
      <3>2. t2 \in TrackerType /\ t2.msg = msgs + 1 /\ t2.done = FALSE
        BY <1>1, <2>1, <3>1 DEF TrackerType
      <3>3. Row(t) \in RowType /\ Row(t).finish = "none"
        BY <1>1 DEF Row, RowType, TrackerType
      <3>4. made = With(msgs + 1, Row(t), rows) /\ trs = With(Assistant, t2, trackers)
        BY <2>1 DEF RowsWith
      <3> HIDE DEF t, m, made, text, t2, trs
      <3> QED
        BY <1>1, <1>2, <2>1, <3>1, <3>2, <3>3, <3>4, InsertSound, KeysOfCallbacks DEF Tracked
    <2>2. CASE ~new
      BY <1>2, <2>2 DEF Tracked
    <2> QED
      BY <2>1, <2>2
  <1>5. /\ Assistant \in DOMAIN trs /\ trs[Assistant].msg = m /\ m # NoMsg
        /\ Without(Assistant, trs) = Without(Assistant, trackers)
    <2>1. t2.msg = m /\ m # NoMsg
      BY <1>1 DEF TypeOK, NoMsg, TrackerType
    <2>2. CASE new
      BY <2>1, <2>2 DEF With, Without, Restrict
    <2>3. CASE ~new
      BY <1>1, <2>1, <2>3
    <2> QED
      BY <2>2, <2>3
  <1> DEFINE told == written /\ numbered
  <1>6. told \in BOOLEAN /\ written \in BOOLEAN /\ numbered \in BOOLEAN
    BY ResultsOfWrites
  <1> HIDE DEF t, new, m, made, text, t2, trs
  <1>7. SameFinish(made, SetText(m, text, made))
    BY <1>3, <1>4, TextKeepsFinish DEF Sound, Typed
  <1>8. Closes(trs, made, ended, dropped, Assistant, written, told, rows', ended', dropped')
    <2>1. CASE written
      BY <1>2, <1>5, <1>7, <2>1, FinishSetsOne DEF Closes
    <2>2. CASE ~written
      BY <1>2, <1>4, <1>5, <2>2 DEF Closes, Sound, Typed
    <2> QED
      BY <2>1, <2>2
  <1> HIDE DEF told
  <1> QED
    BY <1>2, <1>4, <1>5, <1>6, <1>8, CloseSound DEF Tracked

LEMMA InputSound ==
  ASSUME TypeOK, Tracked, Bound, NEW c \in Call, NEW result \in Insertion,
         OnInputToolCalling(c, result)
  PROVE  Tracked'
  <1> DEFINE key == Key(c, "tool")
             t   == Tracker(key)
             own == [t EXCEPT !.sender = c, !.input = c]
  <1>1. /\ key \in Keys /\ t \in TrackerType
        /\ key \in DOMAIN trackers => trackers[key] = t
        /\ key \notin DOMAIN trackers => t.msg = NoMsg
        /\ t.msg = NoMsg => t.done = FALSE
    BY KeysOfCallbacks, TrackerTyped
  <1>2. UNCHANGED <<ended, dropped>>
    BY DEF OnInputToolCalling
  <1>3. own \in TrackerType /\ own.msg = t.msg /\ own.done = t.done
    BY <1>1 DEF TrackerType
  <1>4. CASE t.msg = NoMsg
    <2> DEFINE t2 == Named(own, result)
    <2>1. /\ trackers' = With(key, t2, trackers) /\ rows' = RowsWith(own, result)
          /\ msgs' = IF result = "noseq" THEN msgs ELSE msgs + 1
      BY <1>4 DEF OnInputToolCalling, Insert
    <2>2. CASE result = "noseq"
      <3>1. t2 = own /\ rows' = rows
        BY <2>1, <2>2 DEF Named, RowsWith
      <3> HIDE DEF key, t, own, t2
      <3> QED
        BY <1>1, <1>2, <1>3, <1>4, <2>1, <2>2, <3>1, PlaceSound DEF Tracked
    <2>3. CASE result # "noseq"
      <3>1. msgs + 1 \in Msg
        <4>1. c \in Call \ Begun /\ Begun \cup {c} \subseteq Call
          BY DEF OnInputToolCalling, Begun
        <4>2. Cardinality(Begun \cup {c}) = Cardinality(Begun) + 1
          BY <4>1, CallSets
        <4>3. Cardinality(Begun \cup {c}) <= Cardinality(Call)
          BY <4>1, CallSets
        <4> QED
          BY <4>2, <4>3, BegunBound, NumbersAreNat DEF TypeOK, Bound, Msg
      <3>2. t2 \in TrackerType /\ t2.msg = msgs + 1 /\ t2.done = FALSE
        BY <1>1, <1>3, <1>4, <2>3, <3>1 DEF Named, TrackerType
      <3>3. Row(own) \in RowType /\ Row(own).finish = "none"
        BY <1>3 DEF Row, RowType, TrackerType
      <3>4. rows' = rows \/ rows' = With(msgs + 1, Row(own), rows)
        BY <2>1 DEF RowsWith
      <3> HIDE DEF key, t, own, t2
      <3> QED
        BY <1>1, <1>2, <1>4, <2>1, <2>3, <3>1, <3>2, <3>3, <3>4, InsertSound DEF Tracked
    <2> QED
      BY <2>2, <2>3
  <1>5. CASE t.msg # NoMsg
    <2> DEFINE t2 == [t EXCEPT !.input = c]
    <2>1. trackers' = With(key, t2, trackers) /\ UNCHANGED <<rows, msgs>>
      BY <1>5 DEF OnInputToolCalling
    <2>2. t2 \in TrackerType /\ t2.msg = t.msg /\ t2.done = t.done
      BY <1>1 DEF TrackerType
    <2> HIDE DEF key, t, own, t2
    <2> QED
      BY <1>1, <1>2, <1>5, <2>1, <2>2, PlaceSound DEF Tracked
  <1> QED
    BY <1>4, <1>5

\* The first half of OnOutputToolCalling.
LEMMA AssistantSound ==
  ASSUME TypeOK, Tracked, NEW c \in Call, NEW written \in BOOLEAN, NEW numbered \in BOOLEAN
  PROVE  LET s == CompleteAssistant(c, written, numbered)
         IN  /\ Sound(msgs, s.trackers, s.rows, s.ended, s.dropped)
             /\ \A k \in Keys \ {Assistant} :
                  /\ k \in DOMAIN s.trackers <=> k \in DOMAIN trackers
                  /\ k \in DOMAIN trackers => s.trackers[k] = trackers[k]
  <1> DEFINE s == CompleteAssistant(c, written, numbered)
             t == Tracker(Assistant)
  <1>1. /\ Assistant \in Keys /\ t \in TrackerType /\ Key(c, "assistant") = Assistant
        /\ Assistant \in DOMAIN trackers => trackers[Assistant] = t
        /\ Assistant \notin DOMAIN trackers => t.msg = NoMsg
        /\ t.msg = NoMsg => t.done = FALSE
    BY KeysOfCallbacks, TrackerTyped
  <1>2. CASE t.msg = NoMsg
    <2>1. /\ s.trackers = With(Assistant, t, trackers) /\ s.rows = rows
          /\ s.ended = ended /\ s.dropped = dropped
      BY <1>1, <1>2 DEF CompleteAssistant
    <2>2. Sound(msgs, With(Assistant, t, trackers), rows, ended, dropped)
      <3> HIDE DEF s, t
      <3> QED
        BY <1>1, <1>2, PlaceSound DEF Tracked
    <2> HIDE DEF s, t
    <2> QED
      BY <1>1, <2>1, <2>2 DEF With, s
  <1>3. CASE t.msg # NoMsg
    <2> DEFINE told == written /\ numbered
    <2>1. /\ s.trackers = Without(Assistant, trackers)
          /\ s.rows = IF written THEN SetFinish(t.msg, "stop", SetText(t.msg, t.text, rows)) ELSE rows
          /\ s.ended = [ended EXCEPT ![t.msg] = IF told THEN @ + 1 ELSE @]
          /\ s.dropped = IF written THEN dropped ELSE dropped \cup {t.msg}
      BY <1>1, <1>3 DEF CompleteAssistant
    <2>2. SameFinish(rows, SetText(t.msg, t.text, rows))
      BY <1>1, TextKeepsFinish DEF Tracked, Sound, Typed, TrackerType
    <2>3. Assistant \in DOMAIN trackers /\ trackers[Assistant] = t /\ told \in BOOLEAN
      BY <1>1, <1>3
    <2> HIDE DEF s, t, told
    <2>4. Closes(trackers, rows, ended, dropped, Assistant, written, told,
                 s.rows, s.ended, s.dropped)
      <3>1. CASE written
        BY <2>1, <2>2, <2>3, <3>1, FinishSetsOne DEF Closes
      <3>2. CASE ~written
        BY <2>1, <2>3, <3>2 DEF Closes, Tracked, Sound, Typed
      <3> QED
        BY <3>1, <3>2
    <2>5. Sound(msgs, Without(Assistant, trackers), s.rows, s.ended, s.dropped)
      BY <1>3, <2>3, <2>4, CloseSound DEF Tracked
    <2> QED
      BY <1>1, <2>1, <2>5 DEF Without, Restrict, s
  <1> QED
    BY <1>2, <1>3

LEMMA OutputSound ==
  ASSUME TypeOK, Tracked, NEW c \in Call, NEW w1 \in Write, NEW n1 \in Write, NEW w2 \in Write,
         NEW n2 \in Write, OnOutputToolCalling(c, w1, n1, w2, n2)
  PROVE  Tracked'
  <1> DEFINE key == Key(c, "tool")
             s   == CompleteAssistant(c, w1, n1)
             t   == trackers[key]
  <1>1. w1 \in BOOLEAN /\ n1 \in BOOLEAN /\ w2 \in BOOLEAN /\ n2 \in BOOLEAN
    BY ResultsOfWrites
  <1>2. key \in Keys /\ key # Assistant
    BY KeysOfCallbacks
  <1>3. /\ Sound(msgs, s.trackers, s.rows, s.ended, s.dropped)
        /\ key \in DOMAIN s.trackers <=> key \in DOMAIN trackers
        /\ key \in DOMAIN trackers => s.trackers[key] = t
    BY <1>1, <1>2, AssistantSound
  <1>4. msgs' = msgs /\ trackers' = Without(key, s.trackers)
    BY DEF OnOutputToolCalling
  <1>5. CASE key \in DOMAIN trackers /\ t.msg # NoMsg
    <2>1. /\ rows' = IF w2 THEN SetFinish(t.msg, "stop", SetCall(t.msg, t.input, c, s.rows)) ELSE s.rows
          /\ ended' = IF n2 THEN [s.ended EXCEPT ![t.msg] = @ + 1] ELSE s.ended
          /\ dropped' = IF w2 THEN s.dropped ELSE s.dropped \cup {t.msg}
      BY <1>5 DEF OnOutputToolCalling
    <2>2. t \in TrackerType
      BY <1>5 DEF Tracked, Sound, Typed
    <2> HIDE DEF key, s, t
    <2>3. SameFinish(s.rows, SetCall(t.msg, t.input, c, s.rows))
      BY <1>3, <2>2, CallKeepsFinish DEF Sound, Typed, TrackerType
    <2>4. ended' = [s.ended EXCEPT ![t.msg] = IF n2 THEN @ + 1 ELSE @]
      BY <1>3, <2>1 DEF Sound, Typed
    <2>5. Closes(s.trackers, s.rows, s.ended, s.dropped, key, w2, n2, rows', ended', dropped')
      <3>1. CASE w2
        BY <1>3, <1>5, <2>1, <2>3, <2>4, <3>1, FinishSetsOne DEF Closes
      <3>2. CASE ~w2
        BY <1>3, <1>5, <2>1, <2>4, <3>2 DEF Closes, Sound, Typed
      <3> QED
        BY <3>1, <3>2
    <2> QED
      BY <1>1, <1>3, <1>4, <1>5, <2>5, CloseSound DEF Tracked
  <1>6. CASE ~(key \in DOMAIN trackers /\ t.msg # NoMsg)
    <2>1. NoMsg \notin DOMAIN s.rows
      BY <1>3 DEF Sound, Typed, NoMsg
    <2>2. ended' = s.ended /\ dropped' = s.dropped
      BY <1>6 DEF OnOutputToolCalling
    <2>3. rows' = s.rows
      BY <1>6, <2>1 DEF OnOutputToolCalling, SetFinish, SetCall
    <2>4. msgs \in 0..(MaxSteps + Cardinality(Call))
      BY DEF TypeOK
    <2> HIDE DEF key, s, t
    <2> QED
      BY <1>3, <1>4, <1>6, <2>2, <2>3, <2>4, DropSound DEF Tracked
  <1> QED
    BY <1>5, <1>6

LEMMA TrackedStep ==
  ASSUME TypeOK, Tracked, Bound, [Next]_vars
  PROVE  Tracked'
  <1> USE DEF vars, agentVars, trackerVars
  <1>1. ASSUME UNCHANGED trackerVars
        PROVE  Tracked'
    BY <1>1 DEF Tracked
  <1>2. CASE ModelStep
    BY <1>1, <1>2, FirstDeltaSound, NextDeltaSound, CompleteNothingSound, CompletedSound
    DEF ModelStep, FinishToolCalls, FinishEmpty, ModelFails
  <1>3. ASSUME NEW c \in Call, ToolStep(c)
        PROVE  Tracked'
    BY <1>1, <1>3, InputSound, OutputSound DEF ToolStep, ToolStops
  <1>4. CASE LoopStep \/ StopStep
    BY <1>1, <1>4, MarkSound
    DEF LoopStep, StopStep, OnEnd, OnError, StopAfterOverflow, OnInterrupted, TimeOut, Cancel, Stop
  <1>5. CASE ToolsDone \/ UNCHANGED vars
    BY <1>1, <1>5 DEF ToolsDone
  <1> QED
    BY <1>2, <1>3, <1>4, <1>5 DEF Next

-----------------------------------------------------------------------------
(* After a stop.                                                           *)

LEMMA CancelledWritesNothing ==
  ASSUME cancelled, ModelStep \/ \E c \in Call : ToolStep(c)
  PROVE  rows' = rows /\ dropped \subseteq dropped'
  <1>1. Insertion = {"noseq"} /\ Write = {FALSE}
    BY ResultsOfWrites
  <1>2. CASE ModelStep
    <2>1. ASSUME NEW result \in Insertion, NEW written \in Write, NEW numbered \in Write,
                 OnCompleted(result, written, numbered)
          PROVE  rows' = rows /\ dropped \subseteq dropped'
      BY <1>1, <2>1 DEF OnCompleted, Finish
    <2>2. ASSUME NEW result \in Insertion, NEW written \in Write, FirstDelta(result, written)
          PROVE  rows' = rows /\ dropped \subseteq dropped'
      BY <1>1, <2>2 DEF FirstDelta, RowsWith
    <2> QED
      BY <1>1, <1>2, <2>1, <2>2 DEF ModelStep, NextDelta, FinishToolCalls, FinishEmpty,
         CompleteNothing, ModelFails, trackerVars
  <1>3. ASSUME NEW c \in Call, ToolStep(c)
        PROVE  rows' = rows /\ dropped \subseteq dropped'
    <2>1. ASSUME NEW result \in Insertion, OnInputToolCalling(c, result)
          PROVE  rows' = rows /\ dropped \subseteq dropped'
      BY <1>1, <2>1 DEF OnInputToolCalling, RowsWith
    <2>2. ASSUME NEW n1 \in Write, NEW n2 \in Write,
                 OnOutputToolCalling(c, FALSE, n1, FALSE, n2)
          PROVE  rows' = rows /\ dropped \subseteq dropped'
      <3>1. LET s == CompleteAssistant(c, FALSE, n1)
            IN  s.rows = rows /\ dropped \subseteq s.dropped
        BY DEF CompleteAssistant
      <3> QED
        BY <2>2, <3>1 DEF OnOutputToolCalling
    <2> QED
      BY <1>1, <1>3, <2>1, <2>2 DEF ToolStep, ToolStops, trackerVars
  <1> QED
    BY <1>2, <1>3

\* Only Stop of the session and the time limit cancel the run.
LEMMA CallbacksKeepStop ==
  ASSUME ModelStep \/ \E c \in Call : ToolStep(c)
  PROVE  UNCHANGED <<stop, cancelled>>
  <1>1. \A result, written : FirstDelta(result, written) => UNCHANGED <<stop, cancelled>>
    BY DEF FirstDelta
  <1>2. \A result, written, numbered :
          OnCompleted(result, written, numbered) => UNCHANGED <<stop, cancelled>>
    BY DEF OnCompleted
  <1>3. CASE ModelStep
    BY <1>1, <1>2, <1>3
    DEF ModelStep, NextDelta, FinishToolCalls, FinishEmpty, CompleteNothing, ModelFails
  <1>4. \A c, result : OnInputToolCalling(c, result) => UNCHANGED <<stop, cancelled>>
    BY DEF OnInputToolCalling
  <1>5. \A c, w1, n1, w2, n2 :
          OnOutputToolCalling(c, w1, n1, w2, n2) => UNCHANGED <<stop, cancelled>>
    BY DEF OnOutputToolCalling
  <1>6. ASSUME NEW c \in Call, ToolStep(c)
        PROVE  UNCHANGED <<stop, cancelled>>
    BY <1>4, <1>5, <1>6 DEF ToolStep, ToolStops
  <1> QED
    BY <1>3, <1>6

LEMMA MarkedStays ==
  ASSUME NEW lost, MarkStopped(lost)
  PROVE  /\ DOMAIN rows' = DOMAIN rows /\ dropped \subseteq dropped'
         /\ \A m \in DOMAIN rows : rows'[m].finish = "none" => rows[m].finish = "none"
  BY DEF MarkStopped

LEMMA StoppedStep ==
  ASSUME TypeOK, Tracked, Control, StoppedIsMarked, [Next]_vars
  PROVE  StoppedIsMarked'
  <1>1. ASSUME NEW lost, Stop(lost)
        PROVE  StoppedIsMarked'
    <2> SUFFICES ASSUME NEW m \in DOMAIN rows', rows'[m].finish = "none" PROVE m \in dropped'
      BY DEF StoppedIsMarked
    <2>1. m \in DOMAIN rows /\ rows[m].finish = "none" /\ dropped \subseteq dropped'
      BY <1>1, MarkedStays DEF Stop
    <2>2. m \in dropped \/ m \in OpenMsgs
      BY <2>1 DEF Tracked, Sound, InProgress, OpenMsgs, Open, Typed, NoMsg
    <2>3. m \in OpenMsgs \ lost => rows'[m].finish = "error"
      BY <1>1, <2>1 DEF Stop, MarkStopped, Tracked, Sound, Typed, RowType
    <2> QED
      BY <1>1, <2>1, <2>2, <2>3 DEF Stop, MarkStopped
  <1>2. CASE UNCHANGED <<rows, stop>> /\ dropped \subseteq dropped'
    BY <1>2 DEF StoppedIsMarked
  <1>3. ASSUME NEW lost, MarkStopped(lost), UNCHANGED stop
        PROVE  StoppedIsMarked'
    BY <1>3, MarkedStays DEF StoppedIsMarked
  <1>4. CASE ModelStep \/ \E c \in Call : ToolStep(c)
    <2>1. UNCHANGED stop
      BY <1>4, CallbacksKeepStop
    <2>2. CASE stop = "none"
      BY <2>1, <2>2 DEF StoppedIsMarked
    <2>3. CASE stop # "none"
      BY <1>2, <1>4, <2>1, <2>3, CancelledWritesNothing DEF Control
    <2> QED
      BY <2>2, <2>3
  <1>5. ASSUME stop' # "stopped"
        PROVE  StoppedIsMarked'
    BY <1>5 DEF StoppedIsMarked
  <1>6. CASE ToolsDone \/ LoopStep \/ StopStep \/ UNCHANGED vars
    BY <1>1, <1>2, <1>3, <1>5, <1>6 DEF ToolsDone, LoopStep, OnEnd, OnError, StopAfterOverflow,
       OnInterrupted, StopStep, TimeOut, Cancel, vars, trackerVars
  <1> QED
    BY <1>4, <1>6 DEF Next

-----------------------------------------------------------------------------
(* Control and types.                                                      *)

\* A callback of the model or of a tool marks no tracker.
LEMMA CallbacksMarkNone ==
  ASSUME Tracked, ModelStep \/ \E c \in Call : ToolStep(c), NEW k \in DOMAIN trackers',
         trackers'[k].done
  PROVE  k \in DOMAIN trackers /\ trackers[k].done
  <1> USE KeysOfCallbacks, TrackerTyped
  <1>1. ASSUME NEW key \in Keys, NEW t, trackers' = With(key, t, trackers),
               t.done = Tracker(key).done
        PROVE  k \in DOMAIN trackers /\ trackers[k].done
    BY <1>1 DEF With, Tracker, NewTracker
  <1>2. ASSUME NEW result, NEW written, FirstDelta(result, written)
        PROVE  k \in DOMAIN trackers /\ trackers[k].done
    <2> DEFINE t  == Tracker(Assistant)
               t2 == [Named(t, result) EXCEPT !.text = IF result = "ok" THEN {step} ELSE {}]
    <2>1. t2.done = t.done
      BY DEF Named, TrackerType
    <2>2. trackers' = With(Assistant, t2, trackers)
      BY <1>2 DEF FirstDelta
    <2> HIDE DEF t2
    <2> QED
      BY <1>1, <2>1, <2>2
  <1>3. ASSUME NEW written, NextDelta(written)
        PROVE  k \in DOMAIN trackers /\ trackers[k].done
    <2> DEFINE t  == Tracker(Assistant)
               t2 == [t EXCEPT !.text = t.text \cup {step}]
    <2>1. t2.done = t.done
      BY DEF TrackerType
    <2>2. trackers' = With(Assistant, t2, trackers)
      BY <1>3 DEF NextDelta
    <2> HIDE DEF t2
    <2> QED
      BY <1>1, <2>1, <2>2
  <1>4. ASSUME NEW key, trackers' = Without(key, trackers)
        PROVE  k \in DOMAIN trackers /\ trackers[k].done
    BY <1>4 DEF Without, Restrict
  <1>5. CASE trackers' = trackers
    BY <1>5
  <1>6. CASE ModelStep
    BY <1>2, <1>3, <1>4, <1>5, <1>6 DEF ModelStep, FinishToolCalls, FinishEmpty, CompleteNothing,
       OnCompleted, ModelFails, trackerVars
  <1>7. ASSUME NEW c \in Call, NEW result, OnInputToolCalling(c, result)
        PROVE  k \in DOMAIN trackers /\ trackers[k].done
    <2> DEFINE key == Key(c, "tool")
               t   == Tracker(key)
               own == [t EXCEPT !.sender = c, !.input = c]
               t2  == IF t.msg = NoMsg THEN Named(own, result) ELSE [t EXCEPT !.input = c]
    <2>1. t2.done = t.done
      BY DEF Named, TrackerType
    <2>2. trackers' = With(key, t2, trackers) /\ key \in Keys
      BY <1>7 DEF OnInputToolCalling
    <2> HIDE DEF t2, key
    <2> QED
      BY <1>1, <2>1, <2>2
  <1>8. ASSUME NEW c \in Call, NEW w1, NEW n1, NEW w2, NEW n2, OnOutputToolCalling(c, w1, n1, w2, n2)
        PROVE  k \in DOMAIN trackers /\ trackers[k].done
    <2> DEFINE s == CompleteAssistant(c, w1, n1)
    <2>1. trackers' = Without(Key(c, "tool"), s.trackers)
      BY <1>8 DEF OnOutputToolCalling
    <2>2. \/ s.trackers = With(Assistant, Tracker(Assistant), trackers)
          \/ s.trackers = Without(Assistant, trackers)
      BY DEF CompleteAssistant
    <2>3. k \in DOMAIN s.trackers /\ s.trackers[k].done
      BY <2>1 DEF Without, Restrict
    <2> HIDE DEF s
    <2> QED
      BY <2>2, <2>3 DEF With, Without, Restrict, Tracker, NewTracker
  <1>9. ASSUME NEW c \in Call, ToolStep(c)
        PROVE  k \in DOMAIN trackers /\ trackers[k].done
    BY <1>5, <1>7, <1>8, <1>9 DEF ToolStep, ToolStops, trackerVars
  <1> QED
    BY <1>6, <1>9

LEMMA ControlStep ==
  ASSUME TypeOK, Tracked, Control, [Next]_vars
  PROVE  Control'
  <1> USE DEF vars, agentVars, trackerVars
  <1>1. \A c \in Call : at'[c] \in {"called", "started"} => phase' = "tools"
    <2>1. CASE ModelStep
      BY <2>1 DEF ModelStep, FirstDelta, NextDelta, FinishToolCalls, FinishEmpty, CompleteNothing,
         OnCompleted, ModelFails, Control, TypeOK
    <2>2. ASSUME NEW c \in Call, ToolStep(c)
          PROVE  phase' = "tools"
      BY <2>2 DEF ToolStep, OnInputToolCalling, OnOutputToolCalling, ToolStops, Control
    <2>3. CASE ToolsDone
      BY <2>3 DEF ToolsDone, TypeOK
    <2>4. CASE LoopStep \/ StopStep \/ UNCHANGED vars
      BY <2>4 DEF LoopStep, OnEnd, OnError, StopAfterOverflow, OnInterrupted, StopStep, TimeOut,
         Cancel, Stop, Control
    <2> QED
      BY <2>1, <2>2, <2>3, <2>4 DEF Next
  <1>2. CASE ModelStep \/ \E c \in Call : ToolStep(c)
    <2>1. phase # "closed"
      <3>1. ModelStep => phase = "model"
        BY DEF ModelStep, FirstDelta, NextDelta, FinishToolCalls, FinishEmpty, CompleteNothing,
           OnCompleted, ModelFails
      <3>2. \A c \in Call : ToolStep(c) => phase = "tools"
        BY DEF ToolStep, OnInputToolCalling, OnOutputToolCalling, ToolStops, Control
      <3> QED
        BY <1>2, <3>1, <3>2
    <2>2. \A k \in DOMAIN trackers' : trackers'[k].done => cancelled'
      BY <1>2, <2>1, CallbacksKeepStop, CallbacksMarkNone DEF Control
    <2>3. stop' # "none" => cancelled'
      BY <1>2, CallbacksKeepStop DEF Control
    <2> QED
      BY <1>1, <2>2, <2>3 DEF Control
  <1>3. CASE LoopStep
    BY <1>1, <1>3 DEF LoopStep, OnEnd, OnError, StopAfterOverflow, OnInterrupted, Control
  <1>4. CASE StopStep
    BY <1>1, <1>4 DEF StopStep, TimeOut, Cancel, Stop, Control
  <1>5. CASE ToolsDone \/ UNCHANGED vars
    BY <1>1, <1>5 DEF ToolsDone, Control
  <1> QED
    BY <1>2, <1>3, <1>4, <1>5 DEF Next

\* A step of a call that was begun or begins.
LEMMA BegunSteps ==
  ASSUME TypeOK, NEW c \in Call, NEW label \in {"started", "ended", "failed", "interrupted"},
         at[c] \in {"called", "started"}, Moves(c, label)
  PROVE  Begun' = Begun \cup {c} /\ (at[c] = "called" => c \notin Begun)
  BY DEF Begun, Moves, TypeOK

LEMMA BoundStep ==
  ASSUME TypeOK, Tracked, Control, Bound, [Next]_vars
  PROVE  Bound'
  <1> USE DEF vars, agentVars, trackerVars
  <1> DEFINE begun == Cardinality(Begun)
  <1>0. begun \in Nat /\ msgs \in Nat /\ step \in Nat /\ msgs <= step + begun
        /\ (phase = "model" /\ Tracker(Assistant).msg = NoMsg => msgs < step + begun)
    BY BegunBound, NumbersAreNat DEF TypeOK, Bound
  <1>1. ASSUME Cardinality(Begun') = begun, step' = step, msgs' <= msgs,
               phase' = "model" => phase = "model" /\ Tracker(Assistant)'.msg = Tracker(Assistant).msg,
               msgs' \in Nat
        PROVE  Bound'
    BY <1>0, <1>1 DEF Bound
  <1>2. at' = at => Begun' = Begun
    BY DEF Begun
  <1>3. ASSUME NEW result \in Insertion, NEW written \in Write, FirstDelta(result, written)
        PROVE  Bound'
    <2> DEFINE t  == Tracker(Assistant)
               t2 == [Named(t, result) EXCEPT !.text = IF result = "ok" THEN {step} ELSE {}]
    <2>1. t \in TrackerType /\ t.msg = NoMsg
      BY <1>3, KeysOfCallbacks, TrackerTyped DEF FirstDelta
    <2>2. t2.msg = IF result = "noseq" THEN NoMsg ELSE msgs + 1
      BY <2>1 DEF Named, TrackerType
    <2>3. /\ trackers' = With(Assistant, t2, trackers) /\ phase = "model"
          /\ msgs' = IF result = "noseq" THEN msgs ELSE msgs + 1
          /\ UNCHANGED <<phase, step, at>>
      BY <1>3 DEF FirstDelta, Insert
    <2> HIDE DEF t2
    <2>4. Tracker(Assistant)' = t2
      BY <2>3 DEF Tracker, With
    <2>5. Begun' = Begun
      BY <1>2, <2>3
    <2> QED
      BY <1>0, <2>1, <2>2, <2>3, <2>4, <2>5 DEF Bound, NoMsg
  <1>4. ASSUME NEW written \in Write, NextDelta(written)
        PROVE  Bound'
    <2> DEFINE t  == Tracker(Assistant)
               t2 == [t EXCEPT !.text = t.text \cup {step}]
    <2>1. t2.msg = t.msg
      BY KeysOfCallbacks, TrackerTyped DEF TrackerType
    <2>2. trackers' = With(Assistant, t2, trackers) /\ UNCHANGED <<phase, step, at, msgs>>
      BY <1>4 DEF NextDelta
    <2> HIDE DEF t2
    <2>3. Tracker(Assistant)' = t2
      BY <2>2 DEF Tracker, With
    <2> QED
      BY <1>0, <1>1, <1>2, <2>1, <2>2, <2>3
  <1>5. ASSUME NEW calls \in SUBSET Call, FinishToolCalls(calls)
        PROVE  Bound'
    <2>1. Begun' = Begun
      BY <1>5 DEF FinishToolCalls, Begun
    <2> QED
      BY <1>0, <2>1, <1>5 DEF FinishToolCalls, Bound
  <1>6. ASSUME at' = at, step' = step, phase' # "model",
               msgs' \in {msgs, msgs + 1},
               msgs' = msgs + 1 => phase = "model" /\ Tracker(Assistant).msg = NoMsg
        PROVE  Bound'
    BY <1>0, <1>2, <1>6 DEF Bound
  <1>7. CASE ModelStep
    <2>1. \A result, written, numbered : OnCompleted(result, written, numbered) => Bound'
      BY <1>0, <1>6 DEF OnCompleted, Insert
    <2>2. \A result : CompleteNothing(result) => Bound'
      BY <1>0, <1>6 DEF CompleteNothing, Insert
    <2>3. FinishEmpty \/ (\E how \in {"failed", "overflowed"} : ModelFails(how)) => Bound'
      BY <1>0, <1>6 DEF FinishEmpty, ModelFails
    <2> QED
      BY <1>3, <1>4, <1>5, <1>7, <2>1, <2>2, <2>3 DEF ModelStep
  <1>8. ASSUME NEW c \in Call, ToolStep(c)
        PROVE  Bound'
    <2>0. phase = "tools"
      BY <1>8 DEF ToolStep, OnInputToolCalling, OnOutputToolCalling, ToolStops, Control
    <2>1. Begun \subseteq Call
      BY DEF Begun
    <2>2. \/ \E result \in Insertion : OnInputToolCalling(c, result)
          \/ \E label \in {"ended", "failed", "interrupted"} :
               at[c] \in {"called", "started"} /\ Moves(c, label)
               /\ UNCHANGED <<phase, step, msgs>>
      BY <1>8 DEF ToolStep, OnOutputToolCalling, ToolStops
    <2>3. CASE \E result \in Insertion : OnInputToolCalling(c, result)
      <3>1. Begun' = Begun \cup {c} /\ c \notin Begun /\ UNCHANGED <<phase, step>>
            /\ msgs' \in {msgs, msgs + 1}
        BY <2>3, BegunSteps DEF OnInputToolCalling, Insert
      <3>2. Cardinality(Begun') = begun + 1
        BY <2>1, <3>1, CallSets
      <3> QED
        BY <1>0, <2>0, <3>1, <3>2 DEF Bound
    <2>4. ASSUME NEW label \in {"ended", "failed", "interrupted"},
                 at[c] \in {"called", "started"}, Moves(c, label),
                 UNCHANGED <<phase, step, msgs>>
          PROVE  Bound'
      <3>1. Begun' = Begun \cup {c}
        BY <2>4, BegunSteps
      <3>2. Cardinality(Begun') >= begun /\ Cardinality(Begun') \in Nat
        BY <2>1, <3>1, CallSets
      <3> QED
        BY <1>0, <2>0, <2>4, <3>2 DEF Bound
    <2> QED
      BY <2>2, <2>3, <2>4
  <1>9. CASE ToolsDone
    BY <1>0, <1>2, <1>9 DEF ToolsDone, Bound
  <1>10. CASE LoopStep
    <2>1. UNCHANGED <<at, step, msgs>> /\ phase' = "closed"
      BY <1>10 DEF LoopStep, OnEnd, OnError, StopAfterOverflow, OnInterrupted, MarkStopped
    <2> QED
      BY <1>0, <1>6, <2>1
  <1>11. ASSUME NEW lost, Stop(lost)
         PROVE  Bound'
    <2>1. UNCHANGED <<agentVars, msgs>>
      BY <1>11 DEF Stop, MarkStopped
    <2>2. Tracker(Assistant)'.msg = Tracker(Assistant).msg
      BY <1>11 DEF Stop, MarkStopped, Tracker, NewTracker, Open, Tracked, Sound, Typed, TrackerType
    <2> QED
      BY <1>0, <1>1, <1>2, <2>1, <2>2
  <1>12. CASE TimeOut \/ Cancel \/ UNCHANGED vars
    BY <1>0, <1>1, <1>2, <1>12 DEF TimeOut, Cancel, Tracker
  <1> QED
    BY <1>7, <1>8, <1>9, <1>10, <1>11, <1>12 DEF Next, StopStep

LEMMA TypeStep ==
  ASSUME TypeOK, Tracked, Control, Bound, [Next]_vars
  PROVE  TypeOK'
  <1> USE DEF vars, agentVars, trackerVars
  <1>1. /\ msgs' \in 0..(MaxSteps + Cardinality(Call))
        /\ DOMAIN trackers' \subseteq {"root"} \X Role
        /\ \A key \in DOMAIN trackers' : trackers'[key] \in TrackerType
        /\ DOMAIN rows' \subseteq 1..msgs'
        /\ \A m \in DOMAIN rows' : rows'[m] \in RowType
        /\ ended' \in [Msg -> Nat]
        /\ dropped' \subseteq Msg
    BY TrackedStep DEF Tracked, Sound, Typed, Keys
  <1>2. UNCHANGED <<msgs, announced>> \/ \E result : Insert(result)
    <2>1. ASSUME NEW result, NEW written, NEW numbered, OnCompleted(result, written, numbered)
          PROVE  UNCHANGED <<msgs, announced>> \/ Insert("ok")
      BY <2>1 DEF OnCompleted
    <2>2. ASSUME NEW c, NEW result, OnInputToolCalling(c, result)
          PROVE  UNCHANGED <<msgs, announced>> \/ Insert(result)
      BY <2>2 DEF OnInputToolCalling
    <2>3. CASE ModelStep
      BY <2>1, <2>3 DEF ModelStep, FirstDelta, NextDelta, FinishToolCalls, FinishEmpty,
         CompleteNothing, ModelFails
    <2>4. ASSUME NEW c \in Call, ToolStep(c)
          PROVE  UNCHANGED <<msgs, announced>> \/ \E result : Insert(result)
      BY <2>2, <2>4 DEF ToolStep, OnOutputToolCalling, ToolStops
    <2>5. CASE ToolsDone \/ LoopStep \/ StopStep \/ UNCHANGED vars
      BY <2>5 DEF ToolsDone, LoopStep, OnEnd, OnError, StopAfterOverflow, OnInterrupted, StopStep,
         TimeOut, Cancel, Stop, MarkStopped
    <2> QED
      BY <2>3, <2>4, <2>5 DEF Next
  <1>3. announced' \subseteq 1..msgs'
    BY <1>2, NumbersAreNat DEF TypeOK, Insert
  <1>4. /\ phase' \in {"model", "tools", "over", "failed", "overflowed", "interrupted", "closed"}
        /\ step' \in 1..MaxSteps
        /\ at' \in [Call -> {"new", "called", "started", "ended", "failed", "interrupted"}]
        /\ completed' \in BOOLEAN /\ cancelled' \in BOOLEAN
        /\ stop' \in {"none", "cancelling", "stopped"}
    <2>1. CASE ModelStep
      BY <2>1 DEF ModelStep, FirstDelta, NextDelta, FinishToolCalls, FinishEmpty, CompleteNothing,
         OnCompleted, ModelFails, TypeOK
    <2>2. ASSUME NEW c \in Call, ToolStep(c)
          PROVE  /\ UNCHANGED <<phase, step, completed, cancelled, stop>>
                 /\ at' \in [Call -> {"new", "called", "started", "ended", "failed", "interrupted"}]
      BY <2>2 DEF ToolStep, OnInputToolCalling, OnOutputToolCalling, ToolStops, Moves, TypeOK
    <2>3. CASE ToolsDone
      BY <2>3, NumbersAreNat DEF ToolsDone, TypeOK
    <2>4. CASE LoopStep \/ StopStep \/ UNCHANGED vars
      BY <2>4 DEF LoopStep, OnEnd, OnError, StopAfterOverflow, OnInterrupted, StopStep, TimeOut,
         Cancel, Stop, TypeOK
    <2> QED
      BY <2>1, <2>2, <2>3, <2>4 DEF Next, TypeOK
  <1> QED
    BY <1>1, <1>3, <1>4 DEF TypeOK

-----------------------------------------------------------------------------
(* The invariant and what it implies.                                      *)

LEMMA InvInit == Init => Inv
  <1> SUFFICES ASSUME Init PROVE Inv
    OBVIOUS
  <1> USE DEF Init
  <1>1. DOMAIN trackers = {} /\ DOMAIN rows = {}
    OBVIOUS
  <1>2. TypeOK
    <2>1. step \in 1..MaxSteps /\ msgs \in 0..(MaxSteps + Cardinality(Call))
      BY TrackerAssumption, NumbersAreNat
    <2>2. ended \in [Msg -> Nat] /\ announced \subseteq 1..msgs
      OBVIOUS
    <2> QED
      BY <1>1, <2>1, <2>2 DEF TypeOK
  <1>3. Tracked
    BY <1>1, <1>2 DEF Tracked, Sound, Typed, OwnMessage, EndedOnce, InProgress, TypeOK
  <1>4. Control /\ StoppedIsMarked
    BY <1>1 DEF Control, StoppedIsMarked
  <1>5. Bound
    BY BegunBound DEF Bound
  <1> QED
    BY <1>2, <1>3, <1>4, <1>5 DEF Inv

LEMMA InvStep == Inv /\ [Next]_vars => Inv'
  BY TypeStep, TrackedStep, ControlStep, BoundStep, StoppedStep DEF Inv

LEMMA Invariance == Spec => []Inv
  BY InvInit, InvStep, PTL DEF Spec

\* The trackers and rows have their types, and a run makes at most one message
\* for each model call and each tool call.
THEOREM TypesHold == Spec => []TypeOK
  BY Invariance, PTL DEF Inv

\* However callbacks, stops and failed writes interleave, the end of a message
\* is announced at most once.
THEOREM EndsOnce == Spec => []DoneOnce
  <1>1. Inv => DoneOnce
    BY DEF Inv, Tracked, Sound, EndedOnce, DoneOnce
  <1> QED
    BY <1>1, Invariance, PTL

\* When Stop of the session has run, no message is left in progress but those
\* whose finishing write failed.
THEOREM StopMarks == Spec => []StoppedIsMarked
  BY Invariance, PTL DEF Inv

-----------------------------------------------------------------------------
(* The life of a message: every step is a step of MessageLife or leaves    *)
(* its variables alone.                                                    *)

Rows == [m \in Msg |-> RowState(m, rows)]

LEMMA LifeNames ==
  /\ Life!lifeVars = <<msgs, Rows, ended>>
  /\ Life!Unfinished = {m \in Msg : m <= msgs /\ RowState(m, rows) \in {"absent", "open"}
                                    /\ ended[m] = 0}
  /\ Life!Stored = {m \in Life!Unfinished : RowState(m, rows) = "open"}
  <1>1. Life!lifeVars = <<msgs, Rows, ended>>
    BY DEF Life!lifeVars, Rows
  <1>2. Life!Unfinished = {m \in Msg : m <= msgs /\ RowState(m, rows) \in {"absent", "open"}
                                       /\ ended[m] = 0}
    BY DEF Life!Unfinished
  <1>3. Life!Stored = {m \in Life!Unfinished : RowState(m, rows) = "open"}
    BY <1>2 DEF Life!Stored
  <1> QED
    BY <1>1, <1>2, <1>3

LEMMA NoLifeStep ==
  ASSUME msgs' = msgs, ended' = ended, \A m \in Msg : RowState(m, rows') = RowState(m, rows)
  PROVE  UNCHANGED Life!lifeVars
  <1>1. Rows' = Rows
    BY DEF Rows
  <1> QED
    BY <1>1 DEF Life!lifeVars, Rows

\* A number is taken.
LEMMA BeginStep ==
  ASSUME msgs + 1 \in Msg, msgs' = msgs + 1, ended \in [Msg -> Nat], ended' \in [Msg -> Nat],
         \A m \in Msg \ {msgs + 1} : RowState(m, rows') = RowState(m, rows) /\ ended'[m] = ended[m],
         \/ RowState(msgs + 1, rows') \in {"absent", "open"} /\ ended'[msgs + 1] = 0
         \/ RowState(msgs + 1, rows') = "stop" /\ ended'[msgs + 1] \in {0, 1}
  PROVE  Life!LifeNext
  <1> DEFINE s == RowState(msgs + 1, rows')
             t == ended'[msgs + 1]
  <1>1. Rows' = [Rows EXCEPT ![msgs + 1] = s]
    BY DEF Rows
  <1>2. ended' = [ended EXCEPT ![msgs + 1] = t]
    OBVIOUS
  <1> HIDE DEF s, t
  <1>3. Life!Begin(s, t)
    BY <1>1, <1>2 DEF Life!Begin, Rows
  <1>4. (s \in {"absent", "open"} /\ t = 0) \/ (s = "stop" /\ t \in {0, 1})
    BY DEF s, t
  <1> QED
    BY <1>3, <1>4 DEF Life!LifeNext

\* Only messages of S are completed, in the database or for the clients.
Completes(S, rs, end, rs2, end2) ==
  \A m \in Msg :
    /\ m \notin S => RowState(m, rs2) = RowState(m, rs) /\ end2[m] = end[m]
    /\ m \in S => \/ RowState(m, rs2) = RowState(m, rs)
                  \/ RowState(m, rs) = "open" /\ RowState(m, rs2) = "stop"
    /\ m \in S => end2[m] \in {0, 1}

LEMMA CompleteStep ==
  ASSUME NEW l \in Life!Unfinished, NEW m \in Life!Unfinished,
         msgs' = msgs, ended \in [Msg -> Nat], ended' \in [Msg -> Nat],
         Completes({l, m}, rows, ended, rows', ended')
  PROVE  Life!LifeNext
  <1> DEFINE written == {x \in {l, m} : RowState(x, rows') # RowState(x, rows)}
             heard   == {x \in {l, m} : ended'[x] = 1}
  <1>1. l \in Msg /\ m \in Msg /\ ended[l] = 0 /\ ended[m] = 0
    BY LifeNames
  <1>2. \A x \in Msg : RowState(x, rows') = IF x \in written THEN "stop" ELSE RowState(x, rows)
    BY DEF Completes
  <1>3. \A x \in Msg : ended'[x] = IF x \in heard THEN 1 ELSE ended[x]
    BY <1>1 DEF Completes
  <1>4. written \in SUBSET ({l, m} \cap Life!Stored)
    BY <1>1, LifeNames DEF Completes
  <1>5. heard \in SUBSET {l, m}
    OBVIOUS
  <1> HIDE DEF written, heard
  <1>6. Rows' = [x \in Msg |-> IF x \in written THEN "stop" ELSE Rows[x]]
    BY <1>2 DEF Rows
  <1>7. ended' = [x \in Msg |-> IF x \in heard THEN 1 ELSE ended[x]]
    BY <1>3
  <1>8. Life!Complete(written, heard)
    BY <1>6, <1>7 DEF Life!Complete, Rows
  <1> QED
    BY <1>4, <1>5, <1>8 DEF Life!LifeNext

\* ... also if there is one message to complete, or none.
LEMMA CompleteFew ==
  ASSUME NEW l \in Life!Unfinished \cup {NoMsg}, NEW m \in Life!Unfinished \cup {NoMsg},
         msgs' = msgs, ended \in [Msg -> Nat], ended' \in [Msg -> Nat],
         Completes({l, m}, rows, ended, rows', ended')
  PROVE  Life!LifeNext \/ UNCHANGED Life!lifeVars
  <1>0. NoMsg \notin Msg
    BY DEF NoMsg, Msg
  <1>1. CASE l = NoMsg /\ m = NoMsg
    <2>1. \A x \in Msg : RowState(x, rows') = RowState(x, rows) /\ ended'[x] = ended[x]
      BY <1>0, <1>1 DEF Completes
    <2>2. ended' = ended
      BY <2>1
    <2> QED
      BY <2>1, <2>2, NoLifeStep
  <1>2. ASSUME NEW x \in Life!Unfinished, {l, m} \ {NoMsg} = {x}
        PROVE  Life!LifeNext
    <2>1. Completes({x, x}, rows, ended, rows', ended')
      BY <1>0, <1>2 DEF Completes
    <2> QED
      BY <2>1, CompleteStep
  <1>3. CASE l = NoMsg /\ m # NoMsg
    BY <1>2, <1>3
  <1>4. CASE l # NoMsg /\ m = NoMsg
    BY <1>2, <1>4
  <1>5. CASE l # NoMsg /\ m # NoMsg
    BY <1>5, CompleteStep
  <1> QED
    BY <1>1, <1>3, <1>4, <1>5

\* A callback that may write finds the messages of the trackers unfinished.
LEMMA TrackedIsUnfinished ==
  ASSUME TypeOK, Tracked, Control, phase # "closed", ~cancelled,
         NEW k \in DOMAIN trackers
  PROVE  trackers[k].msg \in Life!Unfinished \cup {NoMsg}
  <1>1. ~trackers[k].done /\ trackers[k].msg \in Msg \cup {NoMsg}
    BY DEF Control, TypeOK, TrackerType
  <1>2. trackers[k].msg # NoMsg => trackers[k].msg <= msgs /\ ended[trackers[k].msg] = 0
    BY DEF Tracked, Sound, OwnMessage
  <1>3. RowState(trackers[k].msg, rows) \in {"absent", "open"}
    BY <1>1 DEF Tracked, Sound, InProgress, RowState
  <1> QED
    BY <1>1, <1>2, <1>3, LifeNames

\* What the writes of a row do to its state.
LEMMA TextKeepsState ==
  ASSUME NEW rs, NEW x, NEW text, NEW m
  PROVE  RowState(m, SetText(x, text, rs)) = RowState(m, rs)
  BY DEF RowState, SetText

LEMMA CallKeepsState ==
  ASSUME NEW rs, NEW x, NEW in, NEW out, NEW m
  PROVE  RowState(m, SetCall(x, in, out, rs)) = RowState(m, rs)
  BY DEF RowState, SetCall

LEMMA FinishState ==
  ASSUME NEW rs, \A y \in DOMAIN rs : rs[y] \in RowType, NEW x, NEW m
  PROVE  RowState(m, SetFinish(x, "stop", rs)) =
           IF m = x /\ RowState(x, rs) # "absent" THEN "stop" ELSE RowState(m, rs)
  <1>1. CASE x \in DOMAIN rs
    <2>1. /\ DOMAIN SetFinish(x, "stop", rs) = DOMAIN rs
          /\ SetFinish(x, "stop", rs)[x].finish = "stop"
          /\ \A y \in DOMAIN rs \ {x} : SetFinish(x, "stop", rs)[y] = rs[y]
      BY <1>1 DEF SetFinish, RowType
    <2>2. rs[x].finish \in {"none", "stop", "error"}
      BY <1>1 DEF RowType
    <2> QED
      BY <1>1, <2>1, <2>2 DEF RowState
  <1>2. CASE x \notin DOMAIN rs
    BY <1>2 DEF SetFinish, RowState
  <1> QED
    BY <1>1, <1>2

LEMMA RowStates ==
  ASSUME Tracked, NEW m
  PROVE  /\ RowState(m, rows) \in {"absent", "open", "stop", "error"}
         /\ RowState(m, rows) = "absent" <=> m \notin DOMAIN rows
         /\ m > msgs => m \notin DOMAIN rows
  <1>1. m \in DOMAIN rows => rows[m].finish \in {"none", "stop", "error"}
    BY DEF Tracked, Sound, Typed, RowType
  <1>2. DOMAIN rows \subseteq 1..msgs /\ msgs \in Nat
    BY NumbersAreNat DEF Tracked, Sound, Typed
  <1> QED
    BY <1>1, <1>2 DEF RowState

\* A message is made, or only a number is lost.
LEMMA MadeStates ==
  ASSUME Tracked, NEW t, NEW result \in {"ok", "noseq", "norow"}, NEW m
  PROVE  RowState(m, RowsWith(t, result)) =
           IF m = msgs + 1 /\ result = "ok" THEN "open" ELSE RowState(m, rows)
  <1>1. Row(t).finish = "none"
    BY DEF Row
  <1> HIDE DEF Row
  <1> QED
    BY <1>1 DEF RowsWith, With, RowState

LEMMA InsertStep ==
  ASSUME Tracked, NEW result \in {"ok", "noseq", "norow"}, Insert(result),
         result # "noseq" => msgs + 1 \in Msg, ended' = ended,
         \A m \in Msg : RowState(m, rows') =
           IF m = msgs + 1 /\ result = "ok" THEN "open" ELSE RowState(m, rows)
  PROVE  Life!LifeNext \/ UNCHANGED Life!lifeVars
  <1>1. ended \in [Msg -> Nat] /\ msgs \in Nat
    BY NumbersAreNat DEF Tracked, Sound, Typed
  <1>2. CASE result = "noseq"
    BY <1>2, NoLifeStep DEF Insert
  <1>3. CASE result # "noseq"
    <2>1. msgs' = msgs + 1 /\ msgs + 1 \in Msg
      BY <1>3 DEF Insert
    <2>2. ended[msgs + 1] = 0
      BY <1>1, <2>1 DEF Tracked, Sound, EndedOnce
    <2>3. RowState(msgs + 1, rows') \in {"absent", "open"}
      BY <1>1, <2>1, RowStates
    <2> QED
      BY <1>1, <2>1, <2>2, <2>3, BeginStep
  <1> QED
    BY <1>2, <1>3

LEMMA LifeOfFirstDelta ==
  ASSUME TypeOK, Tracked, Bound, NEW result \in Insertion, NEW written \in Write,
         FirstDelta(result, written)
  PROVE  Life!LifeNext \/ UNCHANGED Life!lifeVars
  <1> DEFINE t    == Tracker(Assistant)
             text == IF result = "ok" THEN {step} ELSE {}
             new  == RowsWith(t, result)
  <1>1. result \in {"ok", "noseq", "norow"}
    BY ResultsOfWrites
  <1>2. msgs + 1 \in Msg /\ Insert(result) /\ ended' = ended
    BY NextNumber DEF FirstDelta
  <1>3. rows' = IF written THEN SetText(msgs + 1, text, new) ELSE new
    BY DEF FirstDelta
  <1>4. \A m \in Msg : RowState(m, new) =
          IF m = msgs + 1 /\ result = "ok" THEN "open" ELSE RowState(m, rows)
    BY <1>1, MadeStates
  <1> HIDE DEF t, text, new
  <1>5. \A m \in Msg : RowState(m, rows') = RowState(m, new)
    BY <1>3, TextKeepsState
  <1> QED
    BY <1>1, <1>2, <1>4, <1>5, InsertStep

LEMMA LifeOfInput ==
  ASSUME TypeOK, Tracked, Bound, NEW c \in Call, NEW result \in Insertion,
         OnInputToolCalling(c, result)
  PROVE  Life!LifeNext \/ UNCHANGED Life!lifeVars
  <1> DEFINE t   == Tracker(Key(c, "tool"))
             own == [t EXCEPT !.sender = c, !.input = c]
  <1>1. result \in {"ok", "noseq", "norow"} /\ ended' = ended
    BY ResultsOfWrites DEF OnInputToolCalling
  <1>2. CASE t.msg = NoMsg
    <2>1. msgs + 1 \in Msg
      <3>1. c \in Call \ Begun /\ Begun \cup {c} \subseteq Call
        BY DEF OnInputToolCalling, Begun
      <3>2. Cardinality(Begun \cup {c}) = Cardinality(Begun) + 1
        BY <3>1, CallSets
      <3>3. Cardinality(Begun \cup {c}) <= Cardinality(Call)
        BY <3>1, CallSets
      <3> QED
        BY <3>2, <3>3, BegunBound, NumbersAreNat DEF TypeOK, Bound, Msg
    <2>2. Insert(result) /\ rows' = RowsWith(own, result)
      BY <1>2 DEF OnInputToolCalling
    <2> HIDE DEF t, own
    <2>3. \A m \in Msg : RowState(m, rows') =
            IF m = msgs + 1 /\ result = "ok" THEN "open" ELSE RowState(m, rows)
      BY <1>1, <2>2, MadeStates
    <2> QED
      BY <1>1, <2>1, <2>2, <2>3, InsertStep
  <1>3. CASE t.msg # NoMsg
    <2>1. UNCHANGED <<msgs, rows, ended>>
      BY <1>3 DEF OnInputToolCalling
    <2> QED
      BY <2>1, NoLifeStep
  <1> QED
    BY <1>2, <1>3

LEMMA LifeOfCompleted ==
  ASSUME TypeOK, Tracked, Control, Bound, NEW result \in Insertion, NEW written \in Write,
         NEW numbered \in Write, OnCompleted(result, written, numbered)
  PROVE  Life!LifeNext \/ UNCHANGED Life!lifeVars
  <1> DEFINE t    == Tracker(Assistant)
             new  == t.msg = NoMsg
             m    == IF new THEN msgs + 1 ELSE t.msg
             base == IF new THEN RowsWith(t, "ok") ELSE rows
             text == t.text \cup {step}
             tells == written /\ numbered
  <1>1. /\ t \in TrackerType
        /\ Assistant \in DOMAIN trackers => trackers[Assistant] = t
        /\ Assistant \notin DOMAIN trackers => new
    BY KeysOfCallbacks, TrackerTyped
  <1>2. /\ rows' = IF written THEN SetFinish(m, "stop", SetText(m, text, base)) ELSE base
        /\ ended' = [ended EXCEPT ![m] = IF tells THEN @ + 1 ELSE @]
        /\ msgs' = IF new THEN msgs + 1 ELSE msgs
        /\ phase # "closed"
    BY DEF OnCompleted, Insert, Finish
  <1>3. text \in SUBSET (1..MaxSteps)
    BY <1>1 DEF TypeOK, TrackerType
  <1>4. \A x \in DOMAIN base : base[x] \in RowType
    <2>1. Row(t) \in RowType
      BY <1>1 DEF Row, RowType, TrackerType
    <2> HIDE DEF t, text
    <2> QED
      BY <2>1 DEF RowsWith, With, Tracked, Sound, Typed
  <1>5. ended \in [Msg -> Nat] /\ msgs \in Nat
    BY NumbersAreNat DEF Tracked, Sound, Typed
  <1>6. new => msgs + 1 \in Msg
    BY NextNumber DEF OnCompleted
  <1>7. \A x \in Msg : RowState(x, base) =
          IF new /\ x = msgs + 1 THEN "open" ELSE RowState(x, rows)
    BY MadeStates
  <1>8. m \in Msg /\ (~new => Assistant \in DOMAIN trackers /\ trackers[Assistant].msg = m)
    BY <1>1, <1>6 DEF TrackerType
  <1>9. ~written => ~tells
    OBVIOUS
  <1>10. tells \in BOOLEAN /\ (new => m = msgs + 1)
    BY ResultsOfWrites
  <1> HIDE DEF t, m, base, text, tells
  <1>11. \A x \in Msg : RowState(x, rows') =
           IF written /\ x = m /\ RowState(m, base) # "absent" THEN "stop" ELSE RowState(x, base)
    <2>1. \A x \in DOMAIN SetText(m, text, base) : SetText(m, text, base)[x] \in RowType
      BY <1>3, <1>4, TextKeepsFinish DEF SameFinish
    <2> QED
      BY <1>2, <2>1, TextKeepsState, FinishState
  <1>12. ended' \in [Msg -> Nat] /\ ended'[m] = (IF tells THEN ended[m] + 1 ELSE ended[m])
         /\ \A x \in Msg \ {m} : ended'[x] = ended[x]
    BY <1>2, <1>5, <1>8
  <1>13. CASE t.msg = NoMsg
    <2>1. ended[m] = 0
      BY <1>5, <1>8, <1>10, <1>13 DEF Tracked, Sound, EndedOnce
    <2>2. \A x \in Msg \ {m} : RowState(x, rows') = RowState(x, rows)
      BY <1>7, <1>10, <1>11, <1>13
    <2>3. RowState(m, rows') = IF written THEN "stop" ELSE "open"
      BY <1>7, <1>8, <1>10, <1>11, <1>13
    <2> QED
      BY <1>2, <1>5, <1>6, <1>9, <1>10, <1>12, <1>13, <2>1, <2>2, <2>3, BeginStep
  <1>14. CASE t.msg # NoMsg
    <2>1. \A x \in Msg : RowState(x, base) = RowState(x, rows)
      BY <1>7, <1>14
    <2>2. CASE cancelled
      <3>1. written = FALSE
        BY <2>2, ResultsOfWrites
      <3>2. ended' = ended
        BY <1>2, <1>5, <1>9, <3>1
      <3> QED
        BY <1>2, <1>11, <1>14, <2>1, <3>1, <3>2, NoLifeStep
    <2>3. CASE ~cancelled
      <3>1. m \in Life!Unfinished
        BY <1>2, <1>8, <1>14, <2>3, TrackedIsUnfinished DEF NoMsg, Msg
      <3>2. ended[m] = 0 /\ RowState(m, rows) \in {"absent", "open"}
        BY <3>1, LifeNames
      <3>3. Completes({m, m}, rows, ended, rows', ended')
        BY <1>8, <1>11, <1>12, <2>1, <3>2 DEF Completes
      <3> QED
        BY <1>2, <1>5, <1>12, <1>14, <3>1, <3>3, CompleteStep
    <2> QED
      BY <2>2, <2>3
  <1> QED
    BY <1>13, <1>14

\* The first half of OnOutputToolCalling completes the message of the assistant.
LEMMA AssistantCompletes ==
  ASSUME TypeOK, Tracked, Control, phase # "closed", ~cancelled, NEW c \in Call,
         NEW written \in BOOLEAN, NEW numbered \in BOOLEAN
  PROVE  LET s == CompleteAssistant(c, written, numbered)
         IN  /\ Tracker(Assistant).msg \in Life!Unfinished \cup {NoMsg}
             /\ Completes({Tracker(Assistant).msg}, rows, ended, s.rows, s.ended)
  <1> DEFINE s == CompleteAssistant(c, written, numbered)
             t == Tracker(Assistant)
             told == written /\ numbered
  <1>1. /\ t \in TrackerType /\ Key(c, "assistant") = Assistant
        /\ Assistant \in DOMAIN trackers => trackers[Assistant] = t
        /\ Assistant \notin DOMAIN trackers => t.msg = NoMsg
    BY KeysOfCallbacks, TrackerTyped
  <1>2. t.msg \in Life!Unfinished \cup {NoMsg}
    BY <1>1, TrackedIsUnfinished
  <1>3. CASE t.msg = NoMsg
    <2>1. s.rows = rows /\ s.ended = ended
      BY <1>1, <1>3 DEF CompleteAssistant
    <2>2. t.msg \notin Msg
      BY <1>3 DEF NoMsg, Msg
    <2> HIDE DEF s, t
    <2>3. Completes({t.msg}, rows, ended, s.rows, s.ended)
      BY <2>1, <2>2 DEF Completes
    <2> QED
      BY <1>2, <2>3 DEF s, t
  <1>4. CASE t.msg # NoMsg
    <2>1. /\ s.rows = IF written THEN SetFinish(t.msg, "stop", SetText(t.msg, t.text, rows)) ELSE rows
          /\ s.ended = [ended EXCEPT ![t.msg] = IF told THEN @ + 1 ELSE @]
      BY <1>1, <1>4 DEF CompleteAssistant
    <2>2. told \in BOOLEAN /\ t.text \in SUBSET (1..MaxSteps)
      BY <1>1 DEF TrackerType
    <2> HIDE DEF s, t, told
    <2>3. \A x \in DOMAIN SetText(t.msg, t.text, rows) : SetText(t.msg, t.text, rows)[x] \in RowType
      BY <2>2, TextKeepsFinish DEF SameFinish, TypeOK
    <2>4. \A x \in Msg : RowState(x, s.rows) =
            IF written /\ x = t.msg /\ RowState(x, rows) # "absent" THEN "stop" ELSE RowState(x, rows)
      BY <2>1, <2>3, TextKeepsState, FinishState
    <2>5. t.msg \in Msg /\ ended[t.msg] = 0 /\ RowState(t.msg, rows) \in {"absent", "open"}
      BY <1>2, <1>4, LifeNames
    <2>6. s.ended[t.msg] \in {0, 1} /\ \A x \in Msg \ {t.msg} : s.ended[x] = ended[x]
      BY <2>1, <2>2, <2>5 DEF TypeOK
    <2>7. Completes({t.msg}, rows, ended, s.rows, s.ended)
      BY <2>4, <2>5, <2>6 DEF Completes
    <2> QED
      BY <1>2, <2>7 DEF s, t
  <1> QED
    BY <1>3, <1>4

\* The second half completes the message of the tool.
LEMMA ToolCompletes ==
  ASSUME TypeOK, Tracked, Control, ~cancelled, NEW c \in Call, NEW w1 \in Write,
         NEW n1 \in Write, NEW w2 \in Write, NEW n2 \in Write,
         OnOutputToolCalling(c, w1, n1, w2, n2)
  PROVE  LET s == CompleteAssistant(c, w1, n1)
             t == Tracker(Key(c, "tool"))
         IN  /\ t.msg \in Life!Unfinished \cup {NoMsg}
             /\ t.msg # NoMsg => t.msg # Tracker(Assistant).msg
             /\ \A x \in Msg : /\ x # t.msg => RowState(x, rows') = RowState(x, s.rows)
                                              /\ ended'[x] = s.ended[x]
                               /\ x = t.msg => RowState(x, rows') \in {RowState(x, s.rows), "stop"}
                                              /\ (RowState(x, s.rows) = "absent" =>
                                                    RowState(x, rows') = "absent")
                                              /\ ended'[x] \in {s.ended[x], s.ended[x] + 1}
  <1> DEFINE key == Key(c, "tool")
             s   == CompleteAssistant(c, w1, n1)
             t   == Tracker(key)
             u   == Tracker(Assistant)
  <1>1. w1 \in BOOLEAN /\ n1 \in BOOLEAN /\ w2 \in BOOLEAN /\ n2 \in BOOLEAN
    BY ResultsOfWrites
  <1>2. key \in Keys /\ key # Assistant /\ Assistant \in Keys /\ phase # "closed"
    BY KeysOfCallbacks DEF OnOutputToolCalling, Control
  <1>3. /\ t \in TrackerType
        /\ key \in DOMAIN trackers => trackers[key] = t
        /\ key \notin DOMAIN trackers => t.msg = NoMsg
        /\ Assistant \in DOMAIN trackers => trackers[Assistant] = u
        /\ Assistant \notin DOMAIN trackers => u.msg = NoMsg
    BY <1>2, TrackerTyped
  <1>4. t.msg \in Life!Unfinished \cup {NoMsg}
    BY <1>2, <1>3, TrackedIsUnfinished
  <1>5. t.msg # NoMsg => t.msg # u.msg
    BY <1>2, <1>3 DEF Tracked, Sound, OwnMessage
  <1>6. \A x \in DOMAIN s.rows : s.rows[x] \in RowType
    BY <1>1, AssistantSound DEF Sound, Typed
  <1>7. s.ended \in [Msg -> Nat] /\ NoMsg \notin DOMAIN s.rows
    BY <1>1, AssistantSound DEF Sound, Typed, NoMsg
  <1>8. /\ rows' = IF key \in DOMAIN trackers /\ w2
                   THEN SetFinish(t.msg, "stop", SetCall(t.msg, t.input, c, s.rows)) ELSE s.rows
        /\ ended' = IF key \in DOMAIN trackers /\ n2 /\ t.msg # NoMsg
                    THEN [s.ended EXCEPT ![t.msg] = @ + 1] ELSE s.ended
    BY <1>3 DEF OnOutputToolCalling
  <1>9. t.input \in Call \cup {NoCall} /\ (t.msg # NoMsg => t.msg \in Msg)
    BY <1>3 DEF TrackerType
  <1> HIDE DEF key, s, t, u
  <1>10. \A x \in DOMAIN SetCall(t.msg, t.input, c, s.rows) :
           SetCall(t.msg, t.input, c, s.rows)[x] \in RowType
    BY <1>6, <1>9, CallKeepsFinish DEF SameFinish
  <1>11. \A x \in Msg : RowState(x, rows') =
           IF key \in DOMAIN trackers /\ w2 /\ x = t.msg /\ RowState(x, s.rows) # "absent"
           THEN "stop" ELSE RowState(x, s.rows)
    BY <1>8, <1>10, CallKeepsState, FinishState
  <1>12. \A x \in Msg : ended'[x] = IF key \in DOMAIN trackers /\ n2 /\ x = t.msg
                                   THEN s.ended[x] + 1 ELSE s.ended[x]
    <2>1. NoMsg \notin Msg
      BY DEF NoMsg, Msg
    <2> QED
      BY <1>7, <1>8, <1>9, <2>1
  <1>13. \A x \in Msg : /\ x # t.msg => RowState(x, rows') = RowState(x, s.rows)
                                       /\ ended'[x] = s.ended[x]
                        /\ x = t.msg => RowState(x, rows') \in {RowState(x, s.rows), "stop"}
                                       /\ (RowState(x, s.rows) = "absent" =>
                                             RowState(x, rows') = "absent")
                                       /\ ended'[x] \in {s.ended[x], s.ended[x] + 1}
    BY <1>11, <1>12
  <1> QED
    BY <1>4, <1>5, <1>13 DEF s, t, u, key

LEMMA LifeOfOutput ==
  ASSUME TypeOK, Tracked, Control, NEW c \in Call, NEW w1 \in Write, NEW n1 \in Write,
         NEW w2 \in Write, NEW n2 \in Write, OnOutputToolCalling(c, w1, n1, w2, n2),
         ended' \in [Msg -> Nat]
  PROVE  Life!LifeNext \/ UNCHANGED Life!lifeVars
  <1> DEFINE s == CompleteAssistant(c, w1, n1)
             t == Tracker(Key(c, "tool"))
             u == Tracker(Assistant)
  <1>1. msgs' = msgs /\ phase # "closed" /\ ended \in [Msg -> Nat]
    BY DEF OnOutputToolCalling, Control, TypeOK
  <1>2. CASE cancelled
    <2>1. w1 = FALSE /\ n1 = FALSE /\ w2 = FALSE /\ n2 = FALSE
      BY <1>2, ResultsOfWrites
    <2>2. s.rows = rows /\ s.ended = ended
      BY <1>1, <2>1 DEF CompleteAssistant
    <2>3. rows' = s.rows /\ ended' = s.ended
      BY <2>1 DEF OnOutputToolCalling
    <2> HIDE DEF s
    <2> QED
      BY <1>1, <2>2, <2>3, NoLifeStep
  <1>3. CASE ~cancelled
    <2>1. w1 \in BOOLEAN /\ n1 \in BOOLEAN
      BY ResultsOfWrites
    <2>2. /\ u.msg \in Life!Unfinished \cup {NoMsg}
          /\ Completes({u.msg}, rows, ended, s.rows, s.ended)
      BY <1>1, <1>3, <2>1, AssistantCompletes
    <2>3. /\ t.msg \in Life!Unfinished \cup {NoMsg}
          /\ t.msg # NoMsg => t.msg # u.msg
          /\ \A x \in Msg : /\ x # t.msg => RowState(x, rows') = RowState(x, s.rows)
                                           /\ ended'[x] = s.ended[x]
                            /\ x = t.msg => RowState(x, rows') \in {RowState(x, s.rows), "stop"}
                                           /\ (RowState(x, s.rows) = "absent" =>
                                                 RowState(x, rows') = "absent")
                                           /\ ended'[x] \in {s.ended[x], s.ended[x] + 1}
      BY <1>3, ToolCompletes
    <2> HIDE DEF s, t, u
    <2>4. \A x \in Msg : x = t.msg => ended[x] = 0 /\ RowState(x, rows) \in {"absent", "open"}
                                     /\ x # u.msg
      BY <2>3, LifeNames DEF NoMsg, Msg
    <2>5. Completes({u.msg, t.msg}, rows, ended, rows', ended')
      BY <2>2, <2>3, <2>4 DEF Completes
    <2> QED
      BY <1>1, <2>2, <2>3, <2>5, CompleteFew
  <1> QED
    BY <1>2, <1>3

LEMMA LifeOfMark ==
  ASSUME TypeOK, Tracked, NEW lost, MarkStopped(lost)
  PROVE  Life!LifeNext
  <1> DEFINE marked == (OpenMsgs \ lost) \cap DOMAIN rows
  <1>1. /\ DOMAIN rows' = DOMAIN rows
        /\ \A m \in DOMAIN rows :
             /\ m \in marked => rows'[m].finish = "error"
             /\ m \notin marked => rows'[m] = rows[m]
        /\ UNCHANGED <<msgs, ended>>
    BY DEF MarkStopped, TypeOK, RowType
  <1>2. ASSUME NEW m \in marked PROVE m \in Life!Stored
    <2>1. PICK k \in DOMAIN trackers : ~trackers[k].done /\ trackers[k].msg = m /\ m # NoMsg
      BY DEF OpenMsgs, Open
    <2>2. m \in Msg /\ m <= msgs /\ ended[m] = 0 /\ rows[m].finish = "none"
      BY <1>2, <2>1 DEF Tracked, Sound, OwnMessage, InProgress, TypeOK, TrackerType
    <2> QED
      BY <2>2, LifeNames DEF RowState
  <1> HIDE DEF marked
  <1>3. \A m \in Msg : RowState(m, rows') = IF m \in marked THEN "error" ELSE RowState(m, rows)
    <2>1. marked \subseteq DOMAIN rows
      BY DEF marked
    <2> QED
      BY <1>1, <2>1 DEF RowState
  <1>4. Rows' = [m \in Msg |-> IF m \in marked THEN "error" ELSE Rows[m]]
    BY <1>3 DEF Rows
  <1>5. Life!MarkAll(marked)
    BY <1>1, <1>4 DEF Life!MarkAll, Rows
  <1> QED
    BY <1>2, <1>5 DEF Life!LifeNext

LEMMA LifeStep ==
  ASSUME Inv, [Next]_vars
  PROVE  Life!LifeNext \/ UNCHANGED Life!lifeVars
  <1>0. TypeOK /\ Tracked /\ Control /\ Bound /\ TypeOK'
    BY TypeStep DEF Inv
  <1>1. ASSUME UNCHANGED trackerVars PROVE UNCHANGED Life!lifeVars
    BY <1>1, NoLifeStep DEF trackerVars
  <1>2. CASE ModelStep
    <2>1. ASSUME NEW written \in Write, NextDelta(written) PROVE UNCHANGED Life!lifeVars
      <3>1. \A m \in Msg : RowState(m, rows') = RowState(m, rows)
        BY <2>1, TextKeepsState DEF NextDelta
      <3> QED
        BY <2>1, <3>1, NoLifeStep DEF NextDelta
    <2>2. ASSUME NEW result \in Insertion, CompleteNothing(result)
          PROVE  Life!LifeNext \/ UNCHANGED Life!lifeVars
      <3>1. msgs + 1 \in Msg /\ Insert(result) /\ result # "ok" /\ UNCHANGED <<rows, ended>>
        BY <1>0, <2>2, NextNumber DEF CompleteNothing
      <3>2. result \in {"ok", "noseq", "norow"}
        BY ResultsOfWrites
      <3> QED
        BY <1>0, <3>1, <3>2, InsertStep
    <2> QED
      BY <1>0, <1>1, <1>2, <2>1, <2>2, LifeOfFirstDelta, LifeOfCompleted
      DEF ModelStep, FinishToolCalls, FinishEmpty, ModelFails
  <1>3. ASSUME NEW c \in Call, ToolStep(c)
        PROVE  Life!LifeNext \/ UNCHANGED Life!lifeVars
    <2>1. ended' \in [Msg -> Nat]
      BY <1>0 DEF TypeOK
    <2> QED
      BY <1>0, <1>1, <1>3, <2>1, LifeOfInput, LifeOfOutput DEF ToolStep, ToolStops
  <1>4. CASE LoopStep \/ StopStep
    BY <1>0, <1>1, <1>4, LifeOfMark
    DEF LoopStep, StopStep, OnEnd, OnError, StopAfterOverflow, OnInterrupted, TimeOut, Cancel, Stop
  <1>5. CASE ToolsDone \/ UNCHANGED vars
    BY <1>1, <1>5 DEF ToolsDone, vars
  <1> QED
    BY <1>2, <1>3, <1>4, <1>5 DEF Next

\* The trackers of a run (RootRunnerCallbacks) implement the life of a message:
\* whatever callbacks, failed writes, stops and timeouts meet, a message takes a
\* number once, ends once, completed or stopped, and nothing is written or told of
\* it afterwards.
THEOREM MessagesLiveOnce == Spec => ImplementsLife
  <1>1. Init => Life!LifeInit
    <2> SUFFICES ASSUME Init PROVE Life!LifeInit
      OBVIOUS
    <2>1. \A m \in Msg : RowState(m, rows) = "absent"
      BY DEF Init, RowState
    <2> QED
      BY <2>1 DEF Life!LifeInit, Init
  <1>2. Inv /\ [Next]_vars => [Life!LifeNext]_(Life!lifeVars)
    BY LifeStep
  <1> QED
    BY <1>1, <1>2, Invariance, PTL DEF Spec, ImplementsLife, Life!LifeSpec

\* What MessageLife says of an end: nothing changes it.
LEMMA EndsAreFinal ==
  ASSUME Tracked, Life!LifeNext \/ UNCHANGED Life!lifeVars, NEW m \in Msg,
         RowState(m, rows) \in {"stop", "error"} \/ ended[m] # 0
  PROVE  RowState(m, rows') = RowState(m, rows) /\ ended'[m] = ended[m]
  <1>1. m # msgs + 1
    <2>1. msgs \in Nat /\ m \in Nat
      BY NumbersAreNat DEF Tracked, Sound, Typed, Msg
    <2>2. m > msgs => ended[m] = 0 /\ RowState(m, rows) = "absent"
      BY RowStates DEF Tracked, Sound, EndedOnce
    <2> QED
      BY <2>1, <2>2
  <1>2. m \notin Life!Unfinished
    BY LifeNames
  <1>3. Rows[m] = RowState(m, rows) /\ Rows'[m] = RowState(m, rows')
    BY DEF Rows
  <1>4. ended \in [Msg -> Nat]
    BY DEF Tracked, Sound, Typed
  <1>5. ASSUME NEW state, NEW tells, Life!Begin(state, tells)
        PROVE  Rows'[m] = Rows[m] /\ ended'[m] = ended[m]
    BY <1>1, <1>4, <1>5 DEF Life!Begin, Rows
  <1>6. ASSUME NEW written, NEW heard, Life!Complete(written, heard),
               m \notin written, m \notin heard
        PROVE  Rows'[m] = Rows[m] /\ ended'[m] = ended[m]
    BY <1>6 DEF Life!Complete, Rows
  <1>7. ASSUME NEW stopped, Life!MarkAll(stopped), m \notin stopped
        PROVE  Rows'[m] = Rows[m] /\ ended'[m] = ended[m]
    BY <1>7 DEF Life!MarkAll, Rows
  <1>8. m \notin Life!Stored
    BY <1>2, LifeNames
  <1>9. Life!LifeNext => Rows'[m] = Rows[m] /\ ended'[m] = ended[m]
    BY <1>2, <1>5, <1>6, <1>7, <1>8 DEF Life!LifeNext
  <1>10. UNCHANGED Life!lifeVars => Rows'[m] = Rows[m] /\ ended'[m] = ended[m]
    BY DEF Life!lifeVars, Rows
  <1> QED
    BY <1>3, <1>9, <1>10

\* No step of the code changes the finish reason of a message once written, and
\* none takes its row away: a part of the life of a message.
THEOREM FinishStays == Spec => FinishIsFinal
  <1>1. ASSUME Inv, [Next]_vars, NEW m \in DOMAIN rows, rows[m].finish # "none"
        PROVE  m \in DOMAIN rows' /\ rows'[m].finish = rows[m].finish
    <2>1. m \in Msg /\ rows[m].finish \in {"stop", "error"}
      BY <1>1, NumbersAreNat DEF Inv, TypeOK, RowType, Msg
    <2>2. RowState(m, rows) = rows[m].finish
      BY <1>1 DEF RowState
    <2>3. RowState(m, rows') = rows[m].finish
      BY <1>1, <2>1, <2>2, LifeStep, EndsAreFinal DEF Inv
    <2> QED
      BY <2>1, <2>3 DEF RowState
  <1>2. Inv /\ [Next]_vars =>
          [\A m \in DOMAIN rows : rows[m].finish # "none" =>
             m \in DOMAIN rows' /\ rows'[m].finish = rows[m].finish]_vars
    BY <1>1
  <1> QED
    BY <1>2, Invariance, PTL DEF Spec, FinishIsFinal

=============================================================================
