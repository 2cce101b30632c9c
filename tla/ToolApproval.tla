---------------------------- MODULE ToolApproval ----------------------------
(***************************************************************************)
(* The permission gateway and the questions to the user of one             *)
(* conversation: eino/permission/, eino/tools/ask_user_question.go,        *)
(* OnInterrupted of eino/runner/rootrunner_callbacks.go, and the answering *)
(* half of service/chat.interrupt.go and service/chat.resume.go.           *)
(*                                                                         *)
(* The model asks for several tool calls at once; each is a thread of its  *)
(* own.  A call of a guarded tool is let through, reviewed by an agent     *)
(* that reports over a channel, or interrupted with a record for the user. *)
(* When all calls of the step have settled and some are interrupted, the   *)
(* run is saved in the checkpoint store and ends.  The answer to a record  *)
(* starts a run that resumes the checkpoint with the answer addressed to   *)
(* one interrupt; so does a message, with no answer.                       *)
(*                                                                         *)
(* AgentRun has the registration of runs and its races: here one run at a  *)
(* time is given, and a run that ends is gone at once.                     *)
(***************************************************************************)
EXTENDS Naturals, FiniteSets, Sequences

CONSTANTS
  Tool,        \* calls of guarded tools the model may ask for
  Question,    \* calls of ask_user_question
  Op,          \* operations: tool name, action and content
  OpOf,        \* the operation of a guarded call
  Matches,     \* the operations whose content an operation's, as a glob, matches
  Levels,      \* what a review may report; 1 to 4 is valid
  Threshold,   \* highest level that needs no approval; runAgent sets 2
  Modes,       \* modes the user chooses from
  MaxBatch,    \* calls the model asks for at once
  MaxReports,  \* reports of one review
  MaxSends,    \* messages after the first
  Faults,      \* may calls of the database fail?
  NoAnswer

ToolCall == Tool \cup Question
\* plan_mode does what bypass_permissions does, an unknown mode what
\* edit_automatically does.
Mode     == {"ask_before_edits", "edit_automatically", "bypass_permissions"}

\* "approved_remembered" stands for approved_exact and approved_wildcard: the
\* row they write differs in a column nothing reads.
Approve  == {"approved", "approved_remembered"}
Decision == Approve \cup {"denied"}

ASSUME ApprovalAssumption ==
  /\ Tool \cap Question = {}
  /\ OpOf \in [Tool -> Op]
  /\ Matches \in [Op -> SUBSET Op]
  /\ Modes # {} /\ Modes \subseteq Mode
  /\ Levels \subseteq Nat /\ Threshold \in 1..2
  /\ MaxBatch \in Nat /\ MaxReports \in Nat /\ MaxSends \in Nat
  /\ Faults \in BOOLEAN

\* An interrupt is known by the call and the run it interrupted; the empty
\* identifier is that of a record OnInterrupted has not seen.
NoId    == <<>>
Id      == (ToolCall \X Nat) \cup {NoId}
Answer  == [id : Id, decision : Decision \cup {"text"}]

ASSUME NoAnswerIsNone == NoAnswer \notin Answer

VARIABLES
  phase,       \* "idle", "loaded", "running" or "saved"
  run,         \* number of runs so far
  runMode,     \* mode the run's middleware was made with
  has,         \* the run found a checkpoint to resume
  target,      \* the answer the run was resumed with
  batch,       \* calls of the current model step
  at,          \* where each call is
  was,         \* calls that carry an interrupt from the checkpoint, with its id
  channel,     \* EvaluateTool.ch, of capacity one
  reports,     \* how many reports the agent reviewing a call may still make
  ckpt,        \* Checkpoint row: the interrupts it holds
  flagged,     \* Conversation.CheckpointID is set
  rec,         \* HumanInPermission and HumanInTheLoop rows, one per call
  shown,       \* interrupt ids under which a browser may have read the row
  answers,     \* answers recorded, their resumeAgent still to come
  params,      \* ResumeParams of the session
  ckptId,      \* checkpoint id of the session
  spawned,     \* goroutines that called runAgent
  sends,       \* messages sent after the first
  whitelist,   \* operations with a project_tool_permissions row
  low,         \* some report was within the threshold
  \* The rest is history: nothing in the code reads it.
  ran,         \* modes a call was executed in, in its own right: see Invoke
  twice,       \* calls executed so more than once
  unasked,     \* calls executed otherwise, in ask_before_edits mode
  via,         \* the interrupt the answer to a record was passed on for
  mislaid      \* an answer was stored while a run was registered or by a handler
               \* that failed, or a checkpoint was not noted on the conversation

runVars    == <<run, runMode, has, target>>
reviewVars == <<channel, reports, low>>
userVars   == <<shown, answers, sends>>
resumeVars == <<flagged, params, ckptId, spawned>>
history    == <<ran, twice, unasked, via, mislaid>>
vars == <<phase, runVars, batch, at, was, reviewVars, ckpt, rec, userVars, resumeVars,
          whitelist, history>>

Interrupted == {"asked", "again"}
Settled     == Interrupted \cup {"done", "failed"}

NoRecord == [status |-> "none", decision |-> "none", tag |-> NoId]

Init ==
  /\ phase = "idle"
  /\ run = 0
  /\ runMode = "none"
  /\ has = FALSE
  /\ target = NoAnswer
  /\ batch = {}
  /\ at = [k \in ToolCall |-> "new"]
  /\ was = [k \in ToolCall |-> NoId]
  /\ channel = <<>>
  /\ reports = [k \in Tool |-> 0]
  /\ ckpt = [k \in {} |-> NoId]
  /\ flagged = FALSE
  /\ rec = [k \in ToolCall |-> NoRecord]
  /\ shown = [k \in ToolCall |-> {}]
  /\ answers = {}
  /\ params = NoAnswer
  /\ ckptId = FALSE
  /\ spawned = 1
  /\ sends = 0
  /\ whitelist = {}
  /\ low = FALSE
  /\ ran = [k \in Tool |-> {}]
  /\ twice = {} /\ unasked = {}
  /\ via = [k \in Tool |-> NoId]
  /\ mislaid = FALSE

Moves(k, label) == at' = [at EXCEPT ![k] = label]

-----------------------------------------------------------------------------
(* A run starts: runAgent.                                                 *)

\* A reviewer is made for every run, with a channel of its own.
StartRun ==
  /\ phase = "idle" /\ spawned > 0
  /\ phase' = "loaded"
  /\ spawned' = spawned - 1
  /\ run' = run + 1
  /\ runMode' \in Modes
  /\ has' = flagged
  /\ target' = NoAnswer
  /\ UNCHANGED <<batch, at, was, reviewVars, ckpt, rec, userVars, flagged, params, ckptId,
                 whitelist, history>>

\* Another run is registered: this one is not started.  (What it queues may
\* make the other start a run when it ends: then it was still to come.)
RefuseRun ==
  /\ phase # "idle" /\ spawned > 0
  /\ spawned' = spawned - 1
  /\ UNCHANGED <<phase, runVars, batch, at, was, reviewVars, ckpt, rec, userVars, flagged,
                 params, ckptId, whitelist, history>>

\* Nothing to resume, or no checkpoint in the store.
RunFresh ==
  /\ phase = "loaded"
  /\ ~(has \/ ckptId) \/ DOMAIN ckpt = {}
  /\ phase' = "running"
  /\ params' = IF has \/ ckptId THEN NoAnswer ELSE params
  /\ UNCHANGED <<runVars, batch, at, was, reviewVars, ckpt, rec, userVars, flagged, ckptId,
                 spawned, whitelist, history>>

\* Resume and ResumeWithParams.  The interrupted calls of the checkpoint are
\* made again; calls that had returned are not.
ResumeRun ==
  /\ phase = "loaded"
  /\ has \/ ckptId
  /\ DOMAIN ckpt # {}
  /\ phase' = "running"
  /\ target' = params
  /\ params' = NoAnswer
  /\ batch' = DOMAIN ckpt
  /\ at' = [k \in ToolCall |-> IF k \in DOMAIN ckpt THEN "called" ELSE at[k]]
  /\ was' = [k \in ToolCall |-> IF k \in DOMAIN ckpt THEN ckpt[k] ELSE NoId]
  /\ UNCHANGED <<run, runMode, has, reviewVars, ckpt, rec, userVars, flagged, ckptId, spawned,
                 whitelist, history>>

-----------------------------------------------------------------------------
(* One tool call: checkPermission, handleResume, Evaluate.                 *)

AskForTools(calls) ==
  /\ phase = "running" /\ batch = {}
  /\ calls # {} /\ Cardinality(calls) <= MaxBatch
  /\ \A k \in calls : at[k] = "new"
  /\ batch' = calls
  /\ at' = [k \in ToolCall |-> IF k \in calls THEN "called" ELSE at[k]]
  /\ was' = [k \in ToolCall |-> NoId]
  /\ UNCHANGED <<phase, runVars, reviewVars, ckpt, rec, userVars, resumeVars, whitelist,
                 history>>

Enters(k) == phase = "running" /\ k \in batch /\ at[k] = "called"

\* The call was interrupted in the checkpoint, and the answer is for it.
Addressed(k) == was[k] # NoId /\ target # NoAnswer /\ target.id = was[k]

Whitelisted(k) == \E p \in whitelist : OpOf[k] \in Matches[p]

FirstCheck(k) ==
  IF runMode = "ask_before_edits" THEN "ask" ELSE IF Whitelisted(k) THEN "run" ELSE "review"

Bypass(k) ==
  /\ k \in Tool /\ Enters(k)
  /\ runMode = "bypass_permissions"
  /\ Moves(k, "run")
  /\ UNCHANGED <<phase, runVars, batch, was, reviewVars, ckpt, rec, userVars, resumeVars,
                 whitelist, history>>

CheckPermission(k) ==
  /\ k \in Tool /\ Enters(k)
  /\ runMode # "bypass_permissions" /\ was[k] = NoId
  /\ Moves(k, FirstCheck(k))
  /\ reports' = [reports EXCEPT ![k] = IF FirstCheck(k) = "review" THEN MaxReports ELSE @]
  /\ UNCHANGED <<phase, runVars, batch, was, channel, low, ckpt, rec, userVars,
                 resumeVars, whitelist, history>>

\* Mutant: a denied call proceeds.
ResumeAnyway(k) ==
  /\ k \in Tool /\ Enters(k)
  /\ runMode # "bypass_permissions" /\ was[k] # NoId
  /\ Moves(k, "run")
  /\ whitelist' = IF Addressed(k) /\ target.decision = "approved_remembered"
                  THEN whitelist \cup {OpOf[k]} ELSE whitelist
  /\ UNCHANGED <<phase, runVars, batch, was, reviewVars, ckpt, rec, userVars, resumeVars,
                 history>>

\* handleResume: the answer decides; without one for this call it proceeds.
HandleResume(k) ==
  /\ k \in Tool /\ Enters(k)
  /\ runMode # "bypass_permissions" /\ was[k] # NoId
  /\ Moves(k, IF Addressed(k) /\ target.decision \notin Approve THEN "failed" ELSE "run")
  /\ whitelist' = IF Addressed(k) /\ target.decision = "approved_remembered"
                  THEN whitelist \cup {OpOf[k]} ELSE whitelist
  /\ UNCHANGED <<phase, runVars, batch, was, reviewVars, ckpt, rec, userVars, resumeVars,
                 history>>

\* Mutant: the channel has no bound.
ReportUnbounded(k, level) ==
  /\ reports[k] > 0
  /\ channel' = Append(channel, level)
  /\ reports' = [reports EXCEPT ![k] = @ - 1]
  /\ UNCHANGED <<phase, runVars, batch, at, was, low, ckpt, rec, userVars, resumeVars,
                 whitelist, history>>

\* The reviewing agent calls its tool, which sends on the channel.
Report(k, level) ==
  /\ reports[k] > 0
  /\ channel = <<>>
  /\ channel' = <<level>>
  /\ reports' = [reports EXCEPT ![k] = @ - 1]
  /\ UNCHANGED <<phase, runVars, batch, at, was, low, ckpt, rec, userVars,
                 resumeVars, whitelist, history>>

Valid(level) == IF level \in 1..4 THEN level ELSE 3

\* Mutant: the threshold itself is one too high.
JudgeLoosely(k, level) == Moves(k, IF level <= Threshold + 1 THEN "run" ELSE "ask")

Judge(k, level) == Moves(k, IF level <= Threshold THEN "run" ELSE "ask")

\* Evaluate takes the next report of the channel, whosever it is.
TakeReport(k) ==
  /\ at[k] = "review" /\ channel # <<>>
  /\ channel' = <<>>
  /\ Judge(k, Valid(Head(channel)))
  /\ low' = (low \/ Valid(Head(channel)) <= Threshold)
  /\ UNCHANGED <<phase, runVars, batch, was, reports, ckpt, rec, userVars,
                 resumeVars, whitelist, history>>

\* The reviewer stopped, or time is up: level three.
ReviewTimesOut(k) ==
  /\ at[k] = "review"
  /\ Judge(k, 3)
  /\ UNCHANGED <<phase, runVars, batch, was, reviewVars, ckpt, rec, userVars, resumeVars,
                 whitelist, history>>

\* CreatePendingPerm and the interrupt.
Interrupt(k) ==
  /\ k \in Tool /\ at[k] = "ask"
  /\ rec' = [rec EXCEPT ![k] = [NoRecord EXCEPT !.status = "pending"]]
  /\ shown' = [shown EXCEPT ![k] = {NoId}]
  /\ Moves(k, "asked")
  /\ UNCHANGED <<phase, runVars, batch, was, reviewVars, ckpt, answers, sends, resumeVars,
                 whitelist, history>>

InterruptFails(k) ==
  /\ Faults
  /\ k \in Tool /\ at[k] = "ask"
  /\ Moves(k, "failed")
  /\ UNCHANGED <<phase, runVars, batch, was, reviewVars, ckpt, rec, userVars, resumeVars,
                 whitelist, history>>

\* The tool itself.  A call made again by a resumption that is not for it is
\* executed too, but not in its own right.
Invoke(k) ==
  /\ k \in Tool /\ at[k] = "run"
  /\ Moves(k, "done")
  /\ IF was[k] = NoId \/ Addressed(k)
     THEN /\ ran' = [ran EXCEPT ![k] = @ \cup {runMode}]
          /\ twice' = IF ran[k] # {} THEN twice \cup {k} ELSE twice
          /\ UNCHANGED unasked
     ELSE /\ unasked' = IF runMode = "ask_before_edits" THEN unasked \cup {k} ELSE unasked
          /\ UNCHANGED <<ran, twice>>
  /\ UNCHANGED <<phase, runVars, batch, was, reviewVars, ckpt, rec, userVars, resumeVars,
                 whitelist, via, mislaid>>

\* ask_user_question: the answer for it is its result; resumed without one
\* it interrupts again, with nothing to show the user.
AskQuestion(k) ==
  /\ k \in Question /\ Enters(k)
  /\ Moves(k, IF was[k] = NoId THEN "asked" ELSE IF Addressed(k) THEN "done" ELSE "again")
  /\ UNCHANGED <<phase, runVars, batch, was, reviewVars, ckpt, rec, userVars, resumeVars,
                 whitelist, history>>

-----------------------------------------------------------------------------
(* The end of a model step and of the run.                                 *)

Over == phase = "running" /\ \A k \in batch : at[k] \in Settled

\* The session goes, and what was stored on it for a resume; so do the
\* middleware and its reviewer.
Ends ==
  /\ phase' = "idle"
  /\ batch' = {}
  /\ was' = [k \in ToolCall |-> NoId]
  /\ params' = NoAnswer
  /\ ckptId' = FALSE
  /\ runMode' = "none"
  /\ has' = FALSE
  /\ target' = NoAnswer
  /\ channel' = <<>>
  /\ reports' = [k \in Tool |-> 0]

StepDone ==
  /\ Over /\ batch # {}
  /\ \A k \in batch : at[k] = "done"
  /\ batch' = {}
  /\ UNCHANGED <<phase, runVars, at, was, reviewVars, ckpt, rec, userVars, resumeVars,
                 whitelist, history>>

FinishRun ==
  /\ Over /\ batch = {}
  /\ Ends
  /\ UNCHANGED <<run, at, low, ckpt, rec, userVars, flagged, spawned,
                 whitelist, history>>

\* An error of one call is the error of the step and ends the run.
FailRun ==
  /\ Over
  /\ \E k \in batch : at[k] = "failed"
  /\ Ends
  /\ at' = [k \in ToolCall |-> IF k \in batch /\ at[k] # "done" THEN "failed" ELSE at[k]]
  /\ UNCHANGED <<run, low, ckpt, rec, userVars, flagged, spawned, whitelist,
                 history>>

\* Noting the checkpoint on the conversation may fail, which is only logged.
SaveCheckpoint ==
  LET stopped == {k \in batch : at[k] \in Interrupted}
  IN  /\ Over /\ stopped # {}
      /\ \A k \in batch : at[k] # "failed"
      /\ phase' = "saved"
      /\ ckpt' = [k \in stopped |-> <<k, run>>]
      /\ \/ flagged' = TRUE /\ UNCHANGED mislaid
         \/ Faults /\ mislaid' = TRUE /\ UNCHANGED flagged
      /\ UNCHANGED <<runVars, batch, at, was, reviewVars, rec, userVars, params, ckptId,
                     spawned, whitelist, ran, twice, unasked, via>>

\* OnInterrupted with a question: a record for the last of them; permission
\* records are left alone.
PublishQuestion(q) ==
  /\ phase = "saved"
  /\ q \in batch \cap Question /\ at[q] = "asked"
  /\ rec' = [rec EXCEPT ![q] = [NoRecord EXCEPT !.status = "pending", !.tag = <<q, run>>]]
  /\ shown' = [shown EXCEPT ![q] = {<<q, run>>}]
  /\ Ends
  /\ UNCHANGED <<run, at, low, ckpt, answers, sends, flagged, spawned,
                 whitelist, history>>

Untagged(k) == rec[k].status = "pending" /\ rec[k].tag = NoId

\* OnInterrupted with permission requests only: the pending rows without an id
\* get the one of the interrupt that stands second, or of the only one; the
\* user is shown the request that stands first.  A question that interrupted
\* again may stand before it, and carries nothing.
PublishPermission(first, second) ==
  LET requests == {k \in batch \cap Tool : at[k] = "asked"}
      ahead    == \E q \in batch \cap Question : at[q] = "again"
      id       == <<second, run>>
  IN  /\ phase = "saved"
      /\ \A q \in batch \cap Question : at[q] # "asked"
      /\ first \in requests /\ second \in requests
      /\ first = second => requests = {first} \/ ahead
      /\ rec' = [k \in ToolCall |-> IF Untagged(k) THEN [rec[k] EXCEPT !.tag = id] ELSE rec[k]]
      /\ shown' = [k \in ToolCall |-> IF Untagged(k) \/ k = first
                                     THEN shown[k] \cup {id} ELSE shown[k]]
      /\ Ends
      /\ UNCHANGED <<run, at, low, ckpt, answers, sends, flagged,
                     spawned, whitelist, history>>

\* Only questions that interrupted again: no record and nothing to show.
PublishNothing ==
  /\ phase = "saved"
  /\ \A k \in batch : at[k] # "asked"
  /\ Ends
  /\ UNCHANGED <<run, at, low, ckpt, rec, userVars, flagged, spawned,
                 whitelist, history>>

-----------------------------------------------------------------------------
(* The user.                                                               *)

\* Mutant: an answered record is refused only while a run may still use the
\* answer.
AnswerTwice(k, decision, id) ==
  /\ k \in Tool
  /\ rec[k].status # "none" /\ id \in shown[k]
  /\ rec[k].status = "answered" => phase = "idle" /\ spawned = 0 /\ answers = {}
  /\ rec' = [rec EXCEPT ![k].status = "answered", ![k].decision = decision]
  /\ whitelist' = IF decision = "approved_remembered" THEN whitelist \cup {OpOf[k]} ELSE whitelist
  /\ via' = [via EXCEPT ![k] = id]
  /\ answers' = answers \cup {[id |-> id, decision |-> decision]}
  /\ UNCHANGED <<phase, runVars, batch, at, was, reviewVars, ckpt, shown, sends, resumeVars,
                 ran, twice, unasked, mislaid>>

\* Mutant: every approval is remembered.
RememberAlways(k, decision, id) ==
  /\ k \in Tool
  /\ rec[k].status = "pending" /\ id \in shown[k]
  /\ rec' = [rec EXCEPT ![k].status = "answered", ![k].decision = decision]
  /\ whitelist' = IF decision \in Approve THEN whitelist \cup {OpOf[k]} ELSE whitelist
  /\ via' = [via EXCEPT ![k] = id]
  /\ answers' = answers \cup {[id |-> id, decision |-> decision]}
  /\ UNCHANGED <<phase, runVars, batch, at, was, reviewVars, ckpt, shown, sends, resumeVars,
                 ran, twice, unasked, mislaid>>

\* The atomic update of the record, then the row is read back: when that fails
\* the handler answers with an error, and the record stays answered.
AnswerPermission(k, decision, id) ==
  /\ k \in Tool
  /\ rec[k].status = "pending" /\ id \in shown[k]
  /\ rec' = [rec EXCEPT ![k].status = "answered", ![k].decision = decision]
  /\ \/ /\ whitelist' = IF decision = "approved_remembered" THEN whitelist \cup {OpOf[k]}
                        ELSE whitelist
        /\ answers' = answers \cup {[id |-> id, decision |-> decision]}
        /\ via' = [via EXCEPT ![k] = id]
        /\ UNCHANGED mislaid
     \/ /\ Faults
        /\ mislaid' = TRUE
        /\ UNCHANGED <<whitelist, answers, via>>
  /\ UNCHANGED <<phase, runVars, batch, at, was, reviewVars, ckpt, shown, sends,
                 resumeVars, ran, twice, unasked>>

AnswerQuestion(k, id) ==
  /\ k \in Question
  /\ rec[k].status = "pending" /\ id \in shown[k]
  /\ rec' = [rec EXCEPT ![k].status = "answered", ![k].decision = "text"]
  /\ \/ answers' = answers \cup {[id |-> id, decision |-> "text"]} /\ UNCHANGED mislaid
     \/ Faults /\ mislaid' = TRUE /\ UNCHANGED answers
  /\ UNCHANGED <<phase, runVars, batch, at, was, reviewVars, ckpt, shown, sends,
                 resumeVars, whitelist, ran, twice, unasked, via>>

\* Mutant: the session is not told of the checkpoint.
ResumeUnmarked(answer) ==
  /\ answer \in answers
  /\ answers' = answers \ {answer}
  /\ flagged' = FALSE \/ (Faults /\ UNCHANGED flagged)
  /\ params' = answer
  /\ spawned' = spawned + 1
  /\ mislaid' = (mislaid \/ phase # "idle")
  /\ UNCHANGED <<phase, runVars, batch, at, was, reviewVars, ckpt, ckptId, rec, shown, sends,
                 whitelist, ran, twice, unasked, via>>

\* Clearing the conversation's checkpoint may fail, which is only logged.
ResumeAgent(answer) ==
  /\ answer \in answers
  /\ answers' = answers \ {answer}
  /\ flagged' = FALSE \/ (Faults /\ UNCHANGED flagged)
  /\ params' = answer
  /\ ckptId' = TRUE
  /\ spawned' = spawned + 1
  /\ mislaid' = (mislaid \/ phase # "idle")
  /\ UNCHANGED <<phase, runVars, batch, at, was, reviewVars, ckpt, rec, shown, sends,
                 whitelist, ran, twice, unasked, via>>

\* A message while no agent is running starts one.
SendMessage ==
  /\ phase = "idle" /\ sends < MaxSends
  /\ sends' = sends + 1
  /\ spawned' = spawned + 1
  /\ UNCHANGED <<phase, runVars, batch, at, was, reviewVars, ckpt, rec, shown, answers,
                 flagged, params, ckptId, whitelist, history>>

-----------------------------------------------------------------------------

CallStep(k) ==
  \/ Bypass(k) \/ CheckPermission(k) \/ HandleResume(k)
  \/ TakeReport(k) \/ ReviewTimesOut(k)
  \/ Interrupt(k) \/ InterruptFails(k) \/ Invoke(k)
  \/ AskQuestion(k)

ReviewStep(k) == \E level \in Levels : Report(k, level)

RunStep ==
  \/ StartRun \/ RunFresh \/ ResumeRun
  \/ StepDone \/ FinishRun \/ FailRun \/ SaveCheckpoint
  \/ \E q \in Question : PublishQuestion(q)
  \/ \E first, second \in Tool : PublishPermission(first, second)
  \/ PublishNothing

AnswerStep ==
  \/ \E k \in Tool, d \in Decision : \E id \in shown[k] : AnswerPermission(k, d, id)
  \/ \E k \in Question : \E id \in shown[k] : AnswerQuestion(k, id)

UserStep == AnswerStep \/ SendMessage

Next ==
  \/ \E k \in ToolCall : CallStep(k)
  \/ \E k \in Tool : ReviewStep(k)
  \/ RunStep \/ RefuseRun
  \/ \E calls \in SUBSET ToolCall : AskForTools(calls)
  \/ UserStep
  \/ \E answer \in answers : ResumeAgent(answer)

Spec == Init /\ [][Next]_vars

-----------------------------------------------------------------------------
(* Properties.                                                             *)

\* Types of the rows, of the session's parameters and of the reviewer's
\* channel, which holds one report (make(chan SafetyEvaluation, 1)).
TypeOK ==
  /\ runMode \in Mode \cup {"none"}
  /\ phase \in {"idle", "loaded", "running", "saved"}
  /\ run \in Nat
  /\ has \in BOOLEAN
  /\ target \in Answer \cup {NoAnswer}
  /\ batch \subseteq ToolCall
  /\ at \in [ToolCall -> {"new", "called", "review", "ask", "run"} \cup Settled]
  /\ was \in [ToolCall -> Id]
  /\ channel \in {<<>>} \cup {<<level>> : level \in Levels}
  /\ reports \in [Tool -> 0..MaxReports]
  /\ low \in BOOLEAN
  /\ DOMAIN ckpt \subseteq ToolCall /\ \A k \in DOMAIN ckpt : ckpt[k] \in Id
  /\ flagged \in BOOLEAN
  /\ rec \in [ToolCall -> [status : {"none", "pending", "answered"},
                           decision : Decision \cup {"none", "text"}, tag : Id]]
  /\ shown \in [ToolCall -> SUBSET Id]
  /\ answers \subseteq Answer
  /\ params \in Answer \cup {NoAnswer}
  /\ ckptId \in BOOLEAN
  /\ spawned \in Nat
  /\ sends \in 0..MaxSends
  /\ whitelist \subseteq Op
  /\ ran \in [Tool -> SUBSET Mode]
  /\ twice \subseteq Tool /\ unasked \subseteq Tool
  /\ via \in [Tool -> Id]
  /\ mislaid \in BOOLEAN

\* The records whose answer was passed on for the interrupt of the call: its own,
\* or another one that OnInterrupted gave that interrupt's id.
Answering(k) == {j \in Tool : via[j] # NoId /\ via[j][1] = k}

Decided(k, decisions) == \E j \in Answering(k) : rec[j].decision \in decisions

\* A guarded call that is executed in its own right (not by a resumption that is
\* for another call or for none: EveryCallApproved is about those) had the user's
\* approval, or the mode, the whitelist or a review let it pass.  The approval
\* may have been given to another record under this call's interrupt; some
\* review reported a low level, not necessarily its own: see the channel.
RunsWithConsent ==
  \A k \in Tool : ran[k] # {} =>
    \/ Decided(k, Approve)
    \/ "bypass_permissions" \in ran[k]
    \/ "edit_automatically" \in ran[k] /\ (Whitelisted(k) \/ low)

\* A call whose interrupt was answered with a denial, and with nothing else, is
\* executed in its own right only in a mode that asks nobody: neither
\* checkPermission nor handleResume lets it through.  That a resumption not for
\* it executes it all the same is the finding about EveryCallApproved.
DeniedIsNotRun ==
  \A k \in Tool : Decided(k, {"denied"}) /\ ~Decided(k, Approve) =>
    ran[k] \subseteq {"bypass_permissions"}

\* An accepted answer executes its call once (RowsAffected in AnswerPermission,
\* parameters taken once): a call executed twice in its own right had its
\* interrupt answered through two records.  Resumptions that are not for a call
\* execute it again as often as they come.
RunsOnce == \A k \in twice : \E i, j \in Answering(k) : i # j

\* isWhitelisted finds an operation because the user had it remembered, in
\* answer to its record (AnswerPermission writes the row) or to another one that
\* carried the interrupt of its call (handleResume does).
RememberedByUser ==
  \A p \in whitelist : \E k \in Tool :
    /\ OpOf[k] = p
    /\ rec[k].decision = "approved_remembered" \/ Decided(k, {"approved_remembered"})

\* Once resumeAgent has been called for every answer and the runs it spawned
\* have ended, an interrupted call waits for the user only while its own record
\* is open: no accepted answer leaves the call interrupted for ever, unless one
\* came while a run was registered, its handler failed after accepting it, or the
\* conversation was not told of a checkpoint, which a message then replaces.
WaitsForUser ==
  phase = "idle" /\ spawned = 0 /\ answers = {} /\ ~mislaid =>
    \A k \in Tool : at[k] = "asked" => rec[k].status = "pending"

\* "every tool call requiring permission is presented to the user for explicit
\* approval" (checkPermissionAskBeforeEdits): in ask_before_edits mode a call
\* that is executed was approved.
EveryCallApproved ==
  \A k \in Tool : "ask_before_edits" \in ran[k] \/ k \in unasked =>
    rec[k].decision \in Approve

=============================================================================
