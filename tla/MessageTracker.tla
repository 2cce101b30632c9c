--------------------------- MODULE MessageTracker ---------------------------
(***************************************************************************)
(* The messages of one agent run: RootRunnerCallbacks and its handler,     *)
(* eino/runner/rootrunner_callbacks.go and rootrunner_handler.go.          *)
(*                                                                         *)
(* A tracker is kept for every message in progress, by address and role.   *)
(* Every callback holds the lock c.mu from its first use of the trackers   *)
(* to its end and is one action here.  The callbacks come from the model's *)
(* stream, from the goroutines of parallel tool calls, from the event loop *)
(* and from a Stop.  Text is abstracted to the model steps it came from.   *)
(***************************************************************************)
EXTENDS Naturals, FiniteSets, Functions

CONSTANTS
  Call,      \* tool calls the model may ask for
  Model,     \* the model, as a source of callbacks
  NoCall,
  MaxSteps,  \* model calls of a run
  MaxBatch,  \* tool calls of one model step
  Failures,  \* writes to the database and numbering may fail
  Stops      \* the user may stop the run, or its time may be up

ASSUME TrackerAssumption ==
  /\ IsFiniteSet(Call) /\ Model \notin Call /\ NoCall \notin Call
  /\ MaxSteps \in Nat \ {0} /\ MaxBatch \in Nat
  /\ Failures \in BOOLEAN /\ Stops \in BOOLEAN

Role  == {"assistant", "tool"}
NoMsg == 0                                      \* uuid.Nil
Msg   == 1 .. (MaxSteps + Cardinality(Call))    \* messages are numbered as created

VARIABLES
  phase,      \* "model", "tools", "over", "failed", "overflowed", "interrupted", "closed"
  step,       \* model calls so far
  at,         \* tool calls: "new", "called", "started", "ended", "failed", "interrupted"
  trackers,   \* key -> tracker
  msgs,       \* messages numbered so far
  rows,       \* messages rows
  announced,  \* messages with a message.new update
  ended,      \* number of message.done and message.tool_call updates of each message
  completed,  \* onCompletedTimes > 0
  cancelled,  \* the run's context is cancelled
  stop,       \* "none", "cancelling" or "stopped"
  dropped     \* messages given up because the write that finishes them failed

agentVars   == <<phase, step, at>>
trackerVars == <<trackers, msgs, rows, announced, ended, dropped>>
vars == <<agentVars, trackerVars, completed, cancelled, stop>>

Init ==
  /\ phase = "model"
  /\ step = 1
  /\ at = [c \in Call |-> "new"]
  /\ trackers = <<>>
  /\ msgs = 0
  /\ rows = <<>>
  /\ announced = {}
  /\ ended = [m \in Msg |-> 0]
  /\ completed = FALSE
  /\ cancelled = FALSE
  /\ stop = "none"
  /\ dropped = {}

-----------------------------------------------------------------------------
(* Writes.  Those of the agent's callbacks use the run's context.          *)

Insertion == IF cancelled THEN {"noseq"}
             ELSE IF Failures THEN {"ok", "noseq", "norow"} ELSE {"ok"}
Write     == IF cancelled THEN {FALSE} ELSE IF Failures THEN BOOLEAN ELSE {TRUE}

-----------------------------------------------------------------------------
(* Trackers and rows.                                                      *)

\* The address of a callback starts with the agent, the same for a whole run.
Address(source)   == <<"root", source>>
AddrString(addr)  == addr[1]
Key(source, role) == <<AddrString(Address(source)), role>>
Assistant         == Key(Model, "assistant")

NewTracker(role) == [role |-> role, msg |-> NoMsg, done |-> FALSE,
                     sender |-> NoCall, input |-> NoCall, text |-> {}]

\* getOrCreateTracker and getOrCreateAssistantTracker.
Tracker(key) == IF key \in DOMAIN trackers THEN trackers[key] ELSE NewTracker(key[2])

With(key, x, f) == [k \in DOMAIN f \cup {key} |-> IF k = key THEN x ELSE f[k]]
Without(key, f) == Restrict(f, DOMAIN f \ {key})

Row(t) == [role |-> t.role, sender |-> t.sender, input |-> t.input, output |-> NoCall,
           text |-> t.text, finish |-> "none"]

\* Updates of a row; one that is not there is no error.
SetText(m, text, rs)     == IF m \in DOMAIN rs THEN [rs EXCEPT ![m].text = text] ELSE rs
SetFinish(m, reason, rs) == IF m \in DOMAIN rs THEN [rs EXCEPT ![m].finish = reason] ELSE rs
SetCall(m, in, out, rs)  == IF m \in DOMAIN rs
                            THEN [rs EXCEPT ![m].input = in, ![m].output = out] ELSE rs

\* insertMessage: the tracker has its identifier before the row is made.
Named(t, result) == IF result = "noseq" THEN t ELSE [t EXCEPT !.msg = msgs + 1]
RowsWith(t, result) == IF result = "ok" THEN With(msgs + 1, Row(t), rows) ELSE rows

Insert(result) ==
  /\ msgs' = IF result = "noseq" THEN msgs ELSE msgs + 1
  /\ announced' = IF result = "ok" THEN announced \cup {msgs + 1} ELSE announced

\* The update that finishes message m is written, and published if it gets a
\* number.
Finish(m, written, numbered) ==
  /\ ended' = [ended EXCEPT ![m] = IF written /\ numbered THEN @ + 1 ELSE @]
  /\ dropped' = IF written THEN dropped ELSE dropped \cup {m}

-----------------------------------------------------------------------------
(* The model's stream.                                                     *)

\* Mutant: a message is made for every part.
DeltaAlwaysInserts(result, written) ==
  LET t    == Tracker(Assistant)
      text == IF result = "ok" THEN {step} ELSE {}
      made == RowsWith(t, result)
  IN  /\ phase = "model"
      /\ Insert(result)
      /\ trackers' = With(Assistant, [Named(t, result) EXCEPT !.text = text], trackers)
      /\ rows' = IF written THEN SetText(msgs + 1, text, made) ELSE made
      /\ UNCHANGED <<agentVars, ended, dropped, completed, cancelled, stop>>

\* OnThinking and OnOutputting while there is no message: it is made, and then
\* the text is kept and written.
FirstDelta(result, written) ==
  LET t    == Tracker(Assistant)
      text == IF result = "ok" THEN {step} ELSE {}
      made == RowsWith(t, result)
  IN  /\ phase = "model"
      /\ t.msg = NoMsg
      /\ Insert(result)
      /\ trackers' = With(Assistant, [Named(t, result) EXCEPT !.text = text], trackers)
      /\ rows' = IF written THEN SetText(msgs + 1, text, made) ELSE made
      /\ UNCHANGED <<agentVars, ended, dropped, completed, cancelled, stop>>

\* ... while there is one: the text is added to it.
NextDelta(written) ==
  LET t    == Tracker(Assistant)
      text == t.text \cup {step}
  IN  /\ phase = "model"
      /\ t.msg # NoMsg
      /\ trackers' = With(Assistant, [t EXCEPT !.text = text], trackers)
      /\ rows' = IF written THEN SetText(t.msg, text, rows) ELSE rows
      /\ UNCHANGED <<agentVars, msgs, announced, ended, dropped, completed, cancelled, stop>>

\* The model asks for tools: its message is left open.
FinishToolCalls(calls) ==
  /\ phase = "model"
  /\ calls # {} /\ Cardinality(calls) <= MaxBatch
  /\ \A c \in calls : at[c] = "new"
  /\ phase' = "tools"
  /\ at' = [c \in Call |-> IF c \in calls THEN "called" ELSE at[c]]
  /\ UNCHANGED <<step, trackerVars, completed, cancelled, stop>>

\* The last part has no text, or OnCompleted was already called.
FinishEmpty ==
  /\ phase = "model"
  /\ phase' = "over"
  /\ UNCHANGED <<step, at, trackerVars, completed, cancelled, stop>>

\* OnCompleted of a message whose row could not be made: the tracker goes.
CompleteNothing(result) ==
  /\ phase = "model" /\ ~completed
  /\ Tracker(Assistant).msg = NoMsg
  /\ result # "ok"
  /\ phase' = "over"
  /\ completed' = TRUE
  /\ Insert(result)
  /\ trackers' = Without(Assistant, trackers)
  /\ UNCHANGED <<step, at, rows, ended, dropped, cancelled, stop>>

\* OnCompleted: the message, made if there was no part before, is completed.
OnCompleted(result, written, numbered) ==
  LET t    == Tracker(Assistant)
      new  == t.msg = NoMsg
      m    == IF new THEN msgs + 1 ELSE t.msg
      made == IF new THEN RowsWith(t, "ok") ELSE rows
  IN  /\ phase = "model" /\ ~completed
      /\ new => result = "ok"
      /\ phase' = "over"
      /\ completed' = TRUE
      /\ IF new THEN Insert("ok") ELSE UNCHANGED <<msgs, announced>>
      /\ trackers' = Without(Assistant, trackers)
      /\ rows' = IF written THEN SetFinish(m, "stop", SetText(m, t.text \cup {step}, made)) ELSE made
      /\ Finish(m, written, numbered)
      /\ UNCHANGED <<step, at, cancelled, stop>>

\* A model call fails, or is not made because the context is too long.
ModelFails(how) ==
  /\ phase = "model"
  /\ phase' = how
  /\ UNCHANGED <<step, at, trackerVars, completed, cancelled, stop>>

-----------------------------------------------------------------------------
(* Tool calls, in parallel.                                                *)

Moves(c, label) == at' = [at EXCEPT ![c] = label]

\* OnInputToolCalling: a message for the call, unless the tracker of its
\* address has one; then only the input is replaced.
OnInputToolCalling(c, result) ==
  LET key == Key(c, "tool")
      t   == Tracker(key)
      own == [t EXCEPT !.sender = c, !.input = c]
  IN  /\ at[c] = "called"
      /\ Moves(c, "started")
      /\ IF t.msg = NoMsg
         THEN /\ Insert(result)
              /\ trackers' = With(key, Named(own, result), trackers)
              /\ rows' = RowsWith(own, result)
         ELSE /\ trackers' = With(key, [t EXCEPT !.input = c], trackers)
              /\ UNCHANGED <<msgs, announced, rows>>
      /\ UNCHANGED <<phase, step, ended, dropped, completed, cancelled, stop>>

\* Mutant: the tracker of the completed message is kept.
CompleteAgain(c, written, numbered) ==
  LET key == Key(c, "assistant")
      t   == Tracker(key)
  IN  IF t.msg = NoMsg
      THEN [trackers |-> With(key, t, trackers), rows |-> rows, ended |-> ended,
            dropped |-> dropped]
      ELSE [trackers |-> trackers,
            rows     |-> IF written THEN SetFinish(t.msg, "stop", rows) ELSE rows,
            ended    |-> [ended EXCEPT ![t.msg] = IF written /\ numbered THEN @ + 1 ELSE @],
            dropped  |-> IF written THEN dropped ELSE dropped \cup {t.msg}]

\* OnOutputToolCalling, first half: the assistant's message is completed; its
\* tracker is made if there is none, and kept if it has no message.
CompleteAssistant(c, written, numbered) ==
  LET key == Key(c, "assistant")
      t   == Tracker(key)
  IN  IF t.msg = NoMsg
      THEN [trackers |-> With(key, t, trackers), rows |-> rows, ended |-> ended,
            dropped |-> dropped]
      ELSE [trackers |-> Without(key, trackers),
            rows     |-> IF written THEN SetFinish(t.msg, "stop", SetText(t.msg, t.text, rows))
                         ELSE rows,
            ended    |-> [ended EXCEPT ![t.msg] = IF written /\ numbered THEN @ + 1 ELSE @],
            dropped  |-> IF written THEN dropped ELSE dropped \cup {t.msg}]

\* ... second half: the result goes to the message of the tracker, if it is
\* still there.
OnOutputToolCalling(c, written, numbered, written2, numbered2) ==
  LET key == Key(c, "tool")
      s   == CompleteAssistant(c, written, numbered)
  IN  /\ at[c] = "started"
      /\ Moves(c, "ended")
      /\ trackers' = Without(key, s.trackers)
      /\ IF key \in DOMAIN trackers
         THEN LET t == trackers[key]
              IN  /\ rows' = IF written2
                             THEN SetFinish(t.msg, "stop", SetCall(t.msg, t.input, c, s.rows))
                             ELSE s.rows
                  /\ ended' = IF numbered2 /\ t.msg # NoMsg
                              THEN [s.ended EXCEPT ![t.msg] = @ + 1] ELSE s.ended
                  /\ dropped' = IF written2 \/ t.msg = NoMsg THEN s.dropped
                                ELSE s.dropped \cup {t.msg}
         ELSE rows' = s.rows /\ ended' = s.ended /\ dropped' = s.dropped
      /\ UNCHANGED <<phase, step, msgs, announced, completed, cancelled, stop>>

\* A call is refused, fails or interrupts: the trackers are not told.
ToolStops(c, how) ==
  /\ at[c] \in {"called", "started"}
  /\ Moves(c, how)
  /\ UNCHANGED <<phase, step, trackerVars, completed, cancelled, stop>>

ToolsDone ==
  LET settled == {c \in Call : at[c] # "new"}
  IN  /\ phase = "tools"
      /\ \A c \in settled : at[c] \in {"ended", "failed", "interrupted"}
      /\ phase' = IF \E c \in settled : at[c] = "failed" THEN "failed"
                  ELSE IF \E c \in settled : at[c] = "interrupted" THEN "interrupted"
                  ELSE IF step < MaxSteps THEN "model" ELSE "failed"
      /\ step' = IF phase' = "model" THEN step + 1 ELSE step
      /\ UNCHANGED <<at, trackerVars, completed, cancelled, stop>>

-----------------------------------------------------------------------------
(* The event loop and Stop.  Their writes use the parent context.          *)

\* markTrackerStopped for the open trackers; the writes of `lost` fail.
Open == {key \in DOMAIN trackers : ~trackers[key].done /\ trackers[key].msg # NoMsg}
OpenMsgs == {trackers[key].msg : key \in Open}

\* Mutant: only the assistant's message is marked.
MarkAssistant(lost) ==
  /\ trackers' = [key \in DOMAIN trackers |->
                    IF key \in Open THEN [trackers[key] EXCEPT !.done = TRUE] ELSE trackers[key]]
  /\ rows' = [m \in DOMAIN rows |->
                IF m \in OpenMsgs \ lost /\ rows[m].role = "assistant"
                THEN [rows[m] EXCEPT !.finish = "error"] ELSE rows[m]]
  /\ dropped' = dropped \cup (OpenMsgs \cap lost)
  /\ UNCHANGED <<msgs, announced, ended>>

MarkStopped(lost) ==
  /\ trackers' = [key \in DOMAIN trackers |->
                    IF key \in Open THEN [trackers[key] EXCEPT !.done = TRUE] ELSE trackers[key]]
  /\ rows' = [m \in DOMAIN rows |->
                IF m \in OpenMsgs \ lost THEN [rows[m] EXCEPT !.finish = "error"] ELSE rows[m]]
  /\ dropped' = dropped \cup (OpenMsgs \cap lost)
  /\ UNCHANGED <<msgs, announced, ended>>

\* OnEnd and OnError leave the trackers alone.
OnEnd ==
  /\ phase = "over"
  /\ phase' = "closed"
  /\ UNCHANGED <<step, at, trackerVars, completed, cancelled, stop>>

OnError ==
  /\ phase = "failed"
  /\ phase' = "closed"
  /\ UNCHANGED <<step, at, trackerVars, completed, cancelled, stop>>

\* The event loop stops the callbacks before it compresses.
StopAfterOverflow(lost) ==
  /\ phase = "overflowed"
  /\ MarkStopped(lost)
  /\ phase' = "closed"
  /\ UNCHANGED <<step, at, completed, cancelled, stop>>

OnInterrupted(lost) ==
  /\ phase = "interrupted"
  /\ MarkStopped(lost)
  /\ phase' = "closed"
  /\ UNCHANGED <<step, at, completed, cancelled, stop>>

\* Ten minutes have passed: the outer goroutine cancels the context and goes.
TimeOut ==
  /\ Stops /\ phase # "closed" /\ ~cancelled
  /\ cancelled' = TRUE
  /\ UNCHANGED <<agentVars, trackerVars, completed, stop>>

\* Mutant: the context is cancelled after the callbacks were stopped.
CancelLate ==
  /\ Stops /\ phase # "closed" /\ stop = "none"
  /\ stop' = "cancelling"
  /\ UNCHANGED <<agentVars, trackerVars, completed, cancelled>>

\* Stop of the session: the context is cancelled, then the callbacks stopped.
Cancel ==
  /\ Stops /\ phase # "closed" /\ stop = "none"
  /\ cancelled' = TRUE
  /\ stop' = "cancelling"
  /\ UNCHANGED <<agentVars, trackerVars, completed>>

Stop(lost) ==
  /\ stop = "cancelling"
  /\ stop' = "stopped"
  /\ MarkStopped(lost)
  /\ UNCHANGED <<agentVars, completed, cancelled>>

-----------------------------------------------------------------------------

\* Messages whose update with the parent context may fail.
Lost == IF Failures THEN SUBSET OpenMsgs ELSE {{}}

ModelStep ==
  \/ \E result \in Insertion, written \in Write : FirstDelta(result, written)
  \/ \E written \in Write : NextDelta(written)
  \/ \E calls \in SUBSET Call : FinishToolCalls(calls)
  \/ FinishEmpty
  \/ \E result \in Insertion : CompleteNothing(result)
  \/ \E result \in Insertion, written, numbered \in Write : OnCompleted(result, written, numbered)
  \/ \E how \in {"failed", "overflowed"} : ModelFails(how)

ToolStep(c) ==
  \/ \E result \in Insertion : OnInputToolCalling(c, result)
  \/ \E w1, n1, w2, n2 \in Write : OnOutputToolCalling(c, w1, n1, w2, n2)
  \/ \E how \in {"failed", "interrupted"} : ToolStops(c, how)

LoopStep ==
  \/ OnEnd \/ OnError
  \/ \E lost \in Lost : StopAfterOverflow(lost) \/ OnInterrupted(lost)

StopStep == TimeOut \/ Cancel \/ \E lost \in Lost : Stop(lost)

Next == ModelStep \/ (\E c \in Call : ToolStep(c)) \/ ToolsDone \/ LoopStep \/ StopStep

Spec == Init /\ [][Next]_vars

-----------------------------------------------------------------------------
(* Properties.                                                             *)

TrackerType == [role : Role, msg : Msg \cup {NoMsg}, done : BOOLEAN,
                sender : Call \cup {NoCall}, input : Call \cup {NoCall},
                text : SUBSET (1..MaxSteps)]
RowType == [role : Role, sender : Call \cup {NoCall}, input : Call \cup {NoCall},
            output : Call \cup {NoCall}, text : SUBSET (1..MaxSteps),
            finish : {"none", "stop", "error"}]

\* Types of the trackers map and of the rows; a run makes at most one message
\* for each model call and each tool call.
TypeOK ==
  /\ phase \in {"model", "tools", "over", "failed", "overflowed", "interrupted", "closed"}
  /\ step \in 1..MaxSteps
  /\ at \in [Call -> {"new", "called", "started", "ended", "failed", "interrupted"}]
  /\ DOMAIN trackers \subseteq {"root"} \X Role
  /\ \A key \in DOMAIN trackers : trackers[key] \in TrackerType
  /\ msgs \in 0..(MaxSteps + Cardinality(Call))
  /\ DOMAIN rows \subseteq 1..msgs
  /\ \A m \in DOMAIN rows : rows[m] \in RowType
  /\ announced \subseteq 1..msgs
  /\ ended \in [Msg -> Nat]
  /\ completed \in BOOLEAN /\ cancelled \in BOOLEAN
  /\ stop \in {"none", "cancelling", "stopped"}
  /\ dropped \subseteq Msg

\* A client is told at most once that a message is finished: OnCompleted and
\* OnOutputToolCalling remove the tracker they complete under the same lock,
\* whatever the order of parallel calls, stops and failed writes.
DoneOnce == \A m \in Msg : ended[m] <= 1

\* finish_reason is written once: no completion overrides the mark of a stopped
\* message, since the context is cancelled before the message is marked, and no
\* stop overrides a completion.  (Runs check it as a part of ImplementsLife.)
FinishIsFinal ==
  [][\A m \in DOMAIN rows : rows[m].finish # "none" =>
       m \in DOMAIN rows' /\ rows'[m].finish = rows[m].finish]_vars

\* "stop func marks in-progress messages as stopped": when Stop has run no
\* message is left in progress, except one whose finishing write failed, as all
\* do that come between the cancellation of the context and Stop's marking.
StoppedIsMarked ==
  stop = "stopped" => \A m \in DOMAIN rows : rows[m].finish = "none" => m \in dropped

\* Every tool call that returned has a message of its own with its input and its
\* result ("Create a tool message immediately", OnInputToolCalling).
EveryCallHasItsMessage ==
  \A c \in Call : at[c] = "ended" =>
    \E m \in DOMAIN rows : rows[m].sender = c /\ rows[m].input = c /\ rows[m].output = c

-----------------------------------------------------------------------------
(* What others see of the messages: the abstract specification.            *)

RowState(m, rs) == IF m \notin DOMAIN rs THEN "absent"
                   ELSE IF rs[m].finish = "none" THEN "open" ELSE rs[m].finish

Life == INSTANCE MessageLife WITH
  made <- msgs, row <- [m \in Msg |-> RowState(m, rows)], told <- ended

\* Every message gets one number and has one end: parallel callbacks, failed writes,
\* a stop and the time limit, in any order, never write or tell anything of a
\* message once its completion was told or its finish_reason is written.
ImplementsLife == Life!LifeSpec

=============================================================================
