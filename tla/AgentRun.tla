------------------------------- MODULE AgentRun -------------------------------
(***************************************************************************)
(* Agent runs of the chat service: who may run an agent on a conversation, *)
(* how messages reach a run that is in progress, how a run is stopped, how *)
(* it is interrupted and resumed, and how it ends.                         *)
(*                                                                         *)
(* The threads are goroutines: one per message being sent, one per answer  *)
(* to an interrupt, one per stop request, and for every invocation of      *)
(* runAgent an outer goroutine (program counter pc) and the goroutine that *)
(* reads the agent's events (program counter loop).  A step ends wherever  *)
(* a goroutine has used state that another one can change.                 *)
(***************************************************************************)
EXTENDS RunSession, Sequences

CONSTANTS
  Msg,         \* user messages, and prompts and results of sub-agents
  StopReq,     \* requests to stop (StopMessage, StartCompaction)
  NoText,      \* the empty content a resume passes to runAgent
  Dest,        \* Dest[m]: the conversation message m is sent to
  ParentOf,    \* ParentOf[c]: the conversation that spawned c, or NoConv
  Prompts,     \* the messages with which RunSubAgent starts a conversation
  Faults,      \* may database, model or tool calls fail?
  Overflows,   \* may the context overflow its token limit?
  Timeouts     \* may the ten-minute timer of a run fire while it works?

ASSUME AgentRunConstants ==
  /\ Conv # {}
  /\ NoText \notin Msg
  /\ StopReq \cap Run = {}
  /\ Dest \in [Msg -> Conv]
  /\ ParentOf \in [Conv -> Conv \cup {NoConv}]
  /\ Prompts \subseteq Msg
  /\ {Faults, Overflows, Timeouts} \subseteq BOOLEAN

VARIABLES
  queues,      \* MessageQueue: contents waiting for a running agent
  pc,          \* pc[r]: where the invocation r of runAgent is
  loop,        \* loop[r]: where its event-reading goroutine is
  job,         \* job[r]: the arguments of the invocation
  work,        \* work[r]: its local variables
  cancelled,   \* runs whose context has been cancelled
  stk,         \* stk[t]: the call stack of Stop in thread t, innermost first
  requested,   \* the stop requests received so far
  sent,        \* sent[m]: how far the handler sending m has got
  ask,         \* ask[i]: how far interrupt i and the handler of its answer got
  askConv,     \* askConv[i]: the conversation interrupt i was raised in
  dbCkpt,      \* conversations.checkpoint_id is set
  saved,       \* saved[c]: the context stored in the checkpoint of c
  \* The rest is history: nothing in the code reads it.
  answered,    \* messages that were in the context of some model call
  delivered,   \* <<r, i>>: run r resumed with the answer to i
  dropped      \* messages deleted from a queue by QueueCleanup

Content == Msg \cup {NoText}
Thread == StopReq \cup Run

Q == INSTANCE MessageQueue WITH Text <- Content

\* A call of Stop that is in progress, and one that begins.
Frame == [conv : Conv, phase : {"collect", "kids", "cancel", "wait"},
          kids : SUBSET Conv, victim : Run \cup {NoRun}]
Call(c) == [conv |-> c, phase |-> "collect", kids |-> {}, victim |-> NoRun]

Starting == {"build", "checkpoint", "history", "choose", "consume"}
\* The run has cancelled its own context and has still to give up its session.
Ending   == {"unbuilt", "pending", "session"}
Holding  == Starting \cup {"wait"} \cup Ending
Pcs      == {"free", "halt", "haltDrop", "haltClear", "load", "register", "refused",
             "queue", "done", "respawn", "gone"} \cup Holding
Loops    == {"none", "start", "resumed", "called", "raise", "publish", "overflow",
             "compress", "returned", "closed"}

\* The agent of the run can make progress.
Ready == {"start", "resumed", "called"}

\* The event goroutine is reading events or handling one.
Working == Loops \ {"none", "returned", "closed"}

vars == <<sessions, closed, queues, pc, loop, job, work, cancelled, stk, requested,
          sent, ask, askConv, dbCkpt, saved, answered, delivered, dropped>>
jobVars    == <<job, work>>
clientVars == <<requested, sent, ask, askConv>>
dbVars     == <<dbCkpt, saved>>
history    == <<answered, delivered, dropped>>

Init ==
  /\ SessionInit
  /\ Q!QueueInit
  /\ pc = [r \in Run |-> "free"]
  /\ loop = [r \in Run |-> "none"]
  /\ job = [r \in Run |-> [conv |-> CHOOSE c \in Conv : TRUE, text |-> NoText,
                           parent |-> NoConv]]
  /\ work = [r \in Run |-> [has |-> FALSE, again |-> FALSE, take |-> NoParams,
                            drained |-> <<>>, context |-> {}]]
  /\ cancelled = {}
  /\ stk = [t \in Thread |-> <<>>]
  /\ requested = {}
  /\ sent = [m \in Msg |-> "new"]
  /\ ask = [i \in Interrupt |-> "none"]
  /\ askConv = [i \in Interrupt |-> NoConv]
  /\ dbCkpt = [c \in Conv |-> FALSE]
  /\ saved = [c \in Conv |-> {}]
  /\ answered = {}
  /\ delivered = {}
  /\ dropped = {}

ConvOf(r) == job[r].conv

Goto(r, label) == pc' = [pc EXCEPT ![r] = label]
ToLoop(r, label) == loop' = [loop EXCEPT ![r] = label]

\* A goroutine calling runAgent starts; Run bounds how many there can be.
Spawn(r, c, text, parent) ==
  /\ pc[r] = "free"
  /\ Goto(r, "load")
  /\ job' = [job EXCEPT ![r] = [conv |-> c, text |-> text, parent |-> parent]]

-----------------------------------------------------------------------------
(* Sending a message: sendMessageWithRole, RunSubAgent.                    *)

Stored(c) == {m \in Msg : Dest[m] = c /\ sent[m] # "new"}

\* The transaction that inserts the message.  A sub-agent's prompt is inserted
\* for a tool call of a run of the parent conversation.
Store(m) ==
  /\ sent[m] = "new"
  /\ m \in Prompts => \E r \in Run : /\ loop[r] = "called"
                                     /\ ConvOf(r) = ParentOf[Dest[m]]
  /\ sent' = [sent EXCEPT ![m] = "stored"]
  /\ UNCHANGED <<sessions, closed, queues, pc, loop, jobVars, cancelled, stk,
                 requested, ask, askConv, dbVars, history>>

\* The agent is running: the message will be queued for it.
FindRunning(m) ==
  /\ sent[m] = "stored" /\ m \notin Prompts
  /\ IsRunning(Dest[m])
  /\ sent' = [sent EXCEPT ![m] = "enqueue"]
  /\ UNCHANGED <<sessions, closed, queues, pc, loop, jobVars, cancelled, stk,
                 requested, ask, askConv, dbVars, history>>

EnqueueMessage(m) ==
  /\ sent[m] = "enqueue"
  /\ Q!Enqueue(Dest[m], m)
  /\ sent' = [sent EXCEPT ![m] = "sent"]
  /\ UNCHANGED <<sessions, closed, pc, loop, jobVars, cancelled, stk, requested,
                 ask, askConv, dbVars, history>>

\* It is not running: a goroutine runs it.
StartRun(m, r) ==
  /\ sent[m] = "stored" /\ m \notin Prompts
  /\ ~IsRunning(Dest[m])
  /\ Spawn(r, Dest[m], m, NoConv)
  /\ sent' = [sent EXCEPT ![m] = "sent"]
  /\ UNCHANGED <<sessions, closed, queues, loop, work, cancelled, stk, requested,
                 ask, askConv, dbVars, history>>

\* RunSubAgent starts the run of a prompt, and only that one, with a parent.
StartSubAgent(m, r) ==
  /\ sent[m] = "stored" /\ m \in Prompts
  /\ Spawn(r, Dest[m], m, ParentOf[Dest[m]])
  /\ sent' = [sent EXCEPT ![m] = "sent"]
  /\ UNCHANGED <<sessions, closed, queues, loop, work, cancelled, stk, requested,
                 ask, askConv, dbVars, history>>

-----------------------------------------------------------------------------
(* Answering an interrupt: AnswerQuestion, AnswerPermission, resumeAgent.  *)

\* Mutant: the record is updated whatever its status.
AnswerAgain(i) ==
  /\ ask[i] \in {"pending", "done"}
  /\ ask' = [ask EXCEPT ![i] = "answered"]
  /\ UNCHANGED <<sessions, closed, queues, pc, loop, jobVars, cancelled, stk,
                 requested, sent, askConv, dbVars, history>>

\* The atomic update of the record from pending to answered.
Answer(i) ==
  /\ ask[i] = "pending"
  /\ ask' = [ask EXCEPT ![i] = "answered"]
  /\ UNCHANGED <<sessions, closed, queues, pc, loop, jobVars, cancelled, stk,
                 requested, sent, askConv, dbVars, history>>

\* The record cannot be read back after the update: the handler answers with
\* an error, and what the user said is stored and never handed to a run.
AnswerReloadFails(i) ==
  /\ Faults
  /\ ask[i] = "answered"
  /\ ask' = [ask EXCEPT ![i] = "stuck"]
  /\ UNCHANGED <<sessions, closed, queues, pc, loop, jobVars, cancelled, stk,
                 requested, sent, askConv, dbVars, history>>

\* A failure to clear the column is logged, and the agent resumed all the same.
ResumeClearsDb(i) ==
  /\ ask[i] = "answered"
  /\ ask' = [ask EXCEPT ![i] = "params"]
  /\ \/ dbCkpt' = [dbCkpt EXCEPT ![askConv[i]] = FALSE]
     \/ Faults /\ UNCHANGED dbCkpt
  /\ UNCHANGED <<sessions, closed, queues, pc, loop, jobVars, cancelled, stk,
                 requested, sent, askConv, saved, history>>

ResumeSetsParams(i) ==
  /\ ask[i] = "params"
  /\ ask' = [ask EXCEPT ![i] = "ckpt"]
  /\ SetResumeParams(askConv[i], i)
  /\ UNCHANGED <<queues, pc, loop, jobVars, cancelled, stk, requested, sent,
                 askConv, dbVars, history>>

ResumeSetsCheckpoint(i) ==
  /\ ask[i] = "ckpt"
  /\ ask' = [ask EXCEPT ![i] = "spawn"]
  /\ SetCheckpointID(askConv[i])
  /\ UNCHANGED <<queues, pc, loop, jobVars, cancelled, stk, requested, sent,
                 askConv, dbVars, history>>

ResumeStartsRun(i, r) ==
  /\ ask[i] = "spawn"
  /\ ask' = [ask EXCEPT ![i] = "done"]
  /\ Spawn(r, askConv[i], NoText, NoConv)
  /\ UNCHANGED <<sessions, closed, queues, loop, work, cancelled, stk, requested,
                 sent, askConv, dbVars, history>>

-----------------------------------------------------------------------------
(* runAgent up to the event loop.                                          *)

\* Conversation, project and template are read: the checkpoint column is
\* remembered from here on.
LoadConversation(r) ==
  /\ pc[r] = "load"
  /\ Goto(r, "register")
  /\ work' = [work EXCEPT ![r].has = dbCkpt[ConvOf(r)]]
  /\ UNCHANGED <<sessions, closed, queues, loop, job, cancelled, stk, clientVars,
                 dbVars, history>>

LoadConversationFails(r) ==
  /\ Faults
  /\ pc[r] = "load"
  /\ Goto(r, "gone")
  /\ UNCHANGED <<sessions, closed, queues, loop, jobVars, cancelled, stk, clientVars,
                 dbVars, history>>

TryStart(r) ==
  /\ pc[r] = "register"
  /\ Register(ConvOf(r), r, job[r].parent)
  /\ Goto(r, "build")
  /\ UNCHANGED <<queues, loop, jobVars, cancelled, stk, clientVars, dbVars, history>>

TryStartFails(r) ==
  /\ pc[r] = "register"
  /\ IsRunning(ConvOf(r))
  /\ Goto(r, "refused")
  /\ UNCHANGED <<sessions, closed, queues, loop, jobVars, cancelled, stk, clientVars,
                 dbVars, history>>

EnqueueRefused(r) ==
  /\ pc[r] = "refused"
  /\ Q!Enqueue(ConvOf(r), job[r].text)
  /\ cancelled' = cancelled \cup {r}
  /\ Goto(r, "gone")
  /\ UNCHANGED <<sessions, closed, loop, jobVars, stk, clientVars, dbVars, history>>

BuildRunner(r) ==
  /\ pc[r] = "build"
  /\ Goto(r, "checkpoint")
  /\ UNCHANGED <<sessions, closed, queues, loop, jobVars, cancelled, stk, clientVars,
                 dbVars, history>>

\* Mutant: the early return does not clean up.
BuildRunnerFailsDirty(r) ==
  /\ Faults
  /\ pc[r] = "build"
  /\ cancelled' = cancelled \cup {r}
  /\ Goto(r, "gone")
  /\ UNCHANGED <<sessions, closed, queues, loop, jobVars, stk, clientVars, dbVars, history>>

\* NewRootRunner failed: the run cancels its context, and its session, which
\* others still find running, goes a step later.
BuildRunnerFails(r) ==
  /\ Faults
  /\ pc[r] = "build"
  /\ cancelled' = cancelled \cup {r}
  /\ Goto(r, "unbuilt")
  /\ UNCHANGED <<sessions, closed, queues, loop, jobVars, stk, clientVars, dbVars,
                 history>>

\* The queue is not looked at.
CleanupUnbuilt(r) ==
  /\ pc[r] = "unbuilt"
  /\ Cleanup(ConvOf(r))
  /\ Goto(r, "gone")
  /\ UNCHANGED <<queues, loop, jobVars, cancelled, stk, clientVars, dbVars, history>>

ReadCheckpoint(r) ==
  /\ pc[r] = "checkpoint"
  /\ Goto(r, "history")
  /\ work' = [work EXCEPT ![r].has = GetCheckpointID(ConvOf(r)) \/ @]
  /\ UNCHANGED <<sessions, closed, queues, loop, job, cancelled, stk, clientVars,
                 dbVars, history>>

LoadHistory(r) ==
  /\ pc[r] = "history"
  /\ Goto(r, "choose")
  /\ work' = [work EXCEPT ![r].context = Stored(ConvOf(r))]
  /\ UNCHANGED <<sessions, closed, queues, loop, job, cancelled, stk, clientVars,
                 dbVars, history>>

\* Run: a fresh run over the loaded history.
RunFresh(r) ==
  /\ pc[r] = "choose"
  /\ ~work[r].has
  /\ Goto(r, "wait")
  /\ ToLoop(r, "start")
  /\ UNCHANGED <<sessions, closed, queues, jobVars, cancelled, stk, clientVars,
                 dbVars, history>>

\* Resume, or Run over the loaded history when that fails.
ResumeWithoutAnswer(r) ==
  /\ pc[r] = "choose"
  /\ work[r].has /\ GetResumeParams(ConvOf(r)) = NoParams
  /\ Goto(r, "wait")
  /\ \/ /\ work' = [work EXCEPT ![r].context = saved[ConvOf(r)]]
        /\ ToLoop(r, "resumed")
     \/ Faults /\ ToLoop(r, "start") /\ UNCHANGED work
  /\ UNCHANGED <<sessions, closed, queues, job, cancelled, stk, clientVars, dbVars,
                 history>>

TakeAnswer(r) ==
  /\ pc[r] = "choose"
  /\ work[r].has /\ GetResumeParams(ConvOf(r)) # NoParams
  /\ work' = [work EXCEPT ![r].take = GetResumeParams(ConvOf(r))]
  /\ Goto(r, "consume")
  /\ UNCHANGED <<sessions, closed, queues, loop, job, cancelled, stk, clientVars,
                 dbVars, history>>

\* ClearResumeParams and ResumeWithParams, or Run when that fails.
ResumeWithAnswer(r) ==
  /\ pc[r] = "consume"
  /\ ClearResumeParams(ConvOf(r))
  /\ Goto(r, "wait")
  /\ \/ /\ work' = [work EXCEPT ![r].context = saved[ConvOf(r)]]
        /\ ToLoop(r, "resumed")
        /\ delivered' = delivered \cup {<<r, work[r].take>>}
     \/ Faults /\ ToLoop(r, "start") /\ UNCHANGED <<work, delivered>>
  /\ UNCHANGED <<queues, job, cancelled, stk, clientVars, dbVars, answered, dropped>>

-----------------------------------------------------------------------------
(* The event-reading goroutine.                                            *)

\* Mutant: the middleware drains the queue and injects nothing.
CallModelForgets(r) ==
  /\ loop[r] \in Ready /\ r \notin cancelled
  /\ answered' = answered \cup work[r].context
  /\ Q!Drain(ConvOf(r))
  /\ ToLoop(r, "called")
  /\ UNCHANGED <<sessions, closed, pc, jobVars, cancelled, stk, clientVars, dbVars,
                 delivered, dropped>>

\* One model call: the middleware first drains the queue into the context.
CallModel(r) ==
  /\ loop[r] \in Ready /\ r \notin cancelled
  /\ LET pending == {m \in Msg : \E n \in DOMAIN queues[ConvOf(r)] : queues[ConvOf(r)][n] = m}
         context == work[r].context \cup pending
     IN  /\ work' = [work EXCEPT ![r].context = context]
         /\ answered' = answered \cup context
  /\ Q!Drain(ConvOf(r))
  /\ ToLoop(r, "called")
  /\ UNCHANGED <<sessions, closed, pc, job, cancelled, stk, clientVars, dbVars,
                 delivered, dropped>>

\* The middleware finds the context too long and hands the drained messages
\* to the event loop in its error.
Overflow(r) ==
  /\ Overflows
  /\ loop[r] \in Ready /\ r \notin cancelled
  /\ work' = [work EXCEPT ![r].drained = queues[ConvOf(r)]]
  /\ Q!Drain(ConvOf(r))
  /\ ToLoop(r, "overflow")
  /\ UNCHANGED <<sessions, closed, pc, job, cancelled, stk, clientVars, dbVars, history>>

Requeue(r) ==
  /\ loop[r] = "overflow"
  /\ queues' = [queues EXCEPT ![ConvOf(r)] = @ \o work[r].drained]
  /\ ToLoop(r, "compress")
  /\ UNCHANGED <<sessions, closed, pc, jobVars, cancelled, stk, clientVars, dbVars, history>>

\* CompressAndResume succeeded: a goroutine is to stop this run and start
\* another one.  This goroutine returns and does not close its channel.
Restart(r, q) ==
  /\ loop[r] = "compress"
  /\ pc[q] = "free"
  /\ Goto(q, "halt")
  /\ job' = [job EXCEPT ![q] = [conv |-> ConvOf(r), text |-> job[r].text,
                                parent |-> NoConv]]
  /\ stk' = [stk EXCEPT ![q] = <<Call(ConvOf(r))>>]
  /\ ToLoop(r, "returned")
  /\ UNCHANGED <<sessions, closed, queues, work, cancelled, clientVars, dbVars, history>>

CompressFails(r) ==
  /\ Faults
  /\ loop[r] = "compress"
  /\ ToLoop(r, "closed")
  /\ UNCHANGED <<sessions, closed, queues, pc, jobVars, cancelled, stk, clientVars,
                 dbVars, history>>

\* The agent finished.
FinishLoop(r) ==
  /\ loop[r] = "called"
  /\ ToLoop(r, "closed")
  /\ UNCHANGED <<sessions, closed, queues, pc, jobVars, cancelled, stk, clientVars,
                 dbVars, history>>

\* A model or tool call failed; every call fails once the run is cancelled.
FailLoop(r) ==
  /\ Faults \/ r \in cancelled
  /\ loop[r] \in Ready
  /\ ToLoop(r, "closed")
  /\ UNCHANGED <<sessions, closed, queues, pc, jobVars, cancelled, stk, clientVars,
                 dbVars, history>>

\* The agent was interrupted: the checkpoint store has its context, and the
\* session in the map is told of the checkpoint.
RaiseInterrupt(r, i) ==
  /\ loop[r] \in {"resumed", "called"}
  /\ ask[i] = "none"
  /\ ask' = [ask EXCEPT ![i] = "raised"]
  /\ askConv' = [askConv EXCEPT ![i] = ConvOf(r)]
  /\ saved' = [saved EXCEPT ![ConvOf(r)] = work[r].context]
  /\ SetCheckpointID(ConvOf(r))
  /\ work' = [work EXCEPT ![r].take = i]
  /\ ToLoop(r, "raise")
  /\ UNCHANGED <<queues, pc, job, cancelled, stk, requested, sent, dbCkpt, history>>

\* The column of the conversation; a failure to write it is logged and passed over.
PersistCheckpoint(r) ==
  /\ loop[r] = "raise"
  /\ \/ dbCkpt' = [dbCkpt EXCEPT ![ConvOf(r)] = TRUE]
     \/ Faults /\ UNCHANGED dbCkpt
  /\ ToLoop(r, "publish")
  /\ UNCHANGED <<sessions, closed, queues, pc, jobVars, cancelled, stk, clientVars,
                 saved, history>>

\* OnInterrupted: the user sees the question from here on.
PublishInterrupt(r) ==
  /\ loop[r] = "publish"
  /\ ask' = [ask EXCEPT ![work[r].take] = "pending"]
  /\ ToLoop(r, "closed")
  /\ UNCHANGED <<sessions, closed, queues, pc, jobVars, cancelled, stk, requested,
                 sent, askConv, dbVars, history>>

-----------------------------------------------------------------------------
(* The outer goroutine waits for the loop, then runs the deferred calls.   *)

LeaveWait(r) ==
  /\ pc[r] = "wait"
  /\ Goto(r, "pending")
  /\ cancelled' = cancelled \cup {r}
  /\ UNCHANGED <<sessions, closed, queues, loop, jobVars, stk, clientVars, dbVars, history>>

\* Mutant: the outer goroutine does not wait for the loop.
LeaveEarly(r) == loop[r] # "returned" /\ LeaveWait(r)

LoopClosed(r) == loop[r] = "closed" /\ LeaveWait(r)

\* Mutant: nothing ends the wait for a loop that returned early.
NoTimer(r) ==
  /\ Timeouts /\ loop[r] \notin {"closed", "returned"}
  /\ LeaveWait(r)

\* The timer; it is all that ends the wait for a loop that returned early.
LoopTimesOut(r) ==
  /\ loop[r] = "returned" \/ (Timeouts /\ loop[r] # "closed")
  /\ LeaveWait(r)

CheckPending(r) ==
  /\ pc[r] = "pending"
  /\ work' = [work EXCEPT ![r].again = Q!HasPending(ConvOf(r))]
  /\ Goto(r, "session")
  /\ UNCHANGED <<sessions, closed, queues, loop, job, cancelled, stk, clientVars,
                 dbVars, history>>

CleanupSession(r) ==
  /\ pc[r] = "session"
  /\ Cleanup(ConvOf(r))
  /\ Goto(r, "queue")
  /\ UNCHANGED <<queues, loop, jobVars, cancelled, stk, clientVars, dbVars, history>>

CleanupQueue(r) ==
  /\ pc[r] = "queue"
  /\ dropped' = dropped \cup
       {m \in Msg : \E n \in DOMAIN queues[ConvOf(r)] : queues[ConvOf(r)][n] = m}
  /\ Q!QueueCleanup(ConvOf(r))
  /\ Goto(r, "done")
  /\ UNCHANGED <<sessions, closed, loop, jobVars, cancelled, stk, clientVars, dbVars,
                 answered, delivered>>

SignalDone(r) ==
  /\ pc[r] = "done"
  /\ Done(ConvOf(r))
  /\ Goto(r, IF work[r].again THEN "respawn" ELSE "gone")
  /\ UNCHANGED <<queues, loop, jobVars, cancelled, stk, clientVars, dbVars, history>>

\* Messages were pending: a new run of the same content, without a parent.
Respawn(r, q) ==
  /\ pc[r] = "respawn" /\ pc[q] = "free"
  /\ pc' = [pc EXCEPT ![r] = "gone", ![q] = "load"]
  /\ job' = [job EXCEPT ![q] = [conv |-> ConvOf(r), text |-> job[r].text,
                                parent |-> NoConv]]
  /\ UNCHANGED <<sessions, closed, queues, loop, work, cancelled, stk, clientVars,
                 dbVars, history>>

-----------------------------------------------------------------------------
(* RunSessionManager.Stop in thread t: children first, then the session.   *)

Top(t) == Head(stk[t])
Active(t, phase) == stk[t] # <<>> /\ Top(t).phase = phase
Becomes(t, frames) == stk' = [stk EXCEPT ![t] = frames \o Tail(@)]

\* StopMessage and StartCompaction stop a conversation that is running.
RequestStop(s, c) ==
  /\ s \notin requested
  /\ IsRunning(c)
  /\ requested' = requested \cup {s}
  /\ stk' = [stk EXCEPT ![s] = <<Call(c)>>]
  /\ UNCHANGED <<sessions, closed, queues, pc, loop, jobVars, cancelled, sent, ask,
                 askConv, dbVars, history>>

CollectChildren(t) ==
  /\ Active(t, "collect")
  /\ Becomes(t, <<[Top(t) EXCEPT !.phase = "kids", !.kids = ChildrenOf(Top(t).conv)]>>)
  /\ UNCHANGED <<sessions, closed, queues, pc, loop, jobVars, cancelled, clientVars,
                 dbVars, history>>

\* Mutant: Stop cancels the run without marking its session.
StopUnmarked(t) ==
  /\ Active(t, "kids") /\ Top(t).kids = {}
  /\ Becomes(t, IF HasSession(Top(t).conv)
                THEN <<[Top(t) EXCEPT !.phase = "cancel",
                                      !.victim = OwnerOf(Top(t).conv)]>>
                ELSE <<>>)
  /\ UNCHANGED <<sessions, closed, queues, pc, loop, jobVars, cancelled, clientVars,
                 dbVars, history>>

StopChild(t, k) ==
  /\ Active(t, "kids")
  /\ k \in Top(t).kids
  /\ Becomes(t, <<Call(k), [Top(t) EXCEPT !.kids = @ \ {k}]>>)
  /\ UNCHANGED <<sessions, closed, queues, pc, loop, jobVars, cancelled, clientVars,
                 dbVars, history>>

StopSession(t) ==
  /\ Active(t, "kids") /\ Top(t).kids = {}
  /\ MarkStopped(Top(t).conv)
  /\ Becomes(t, IF HasSession(Top(t).conv)
                THEN <<[Top(t) EXCEPT !.phase = "cancel",
                                      !.victim = OwnerOf(Top(t).conv)]>>
                ELSE <<>>)
  /\ UNCHANGED <<queues, pc, loop, jobVars, cancelled, clientVars, dbVars, history>>

\* CancelFunc and StopFunc of the session, outside the lock.
CancelVictim(t) ==
  /\ Active(t, "cancel")
  /\ cancelled' = cancelled \cup ({Top(t).victim} \cap Run)
  /\ Becomes(t, <<[Top(t) EXCEPT !.phase = "wait"]>>)
  /\ UNCHANGED <<sessions, closed, queues, pc, loop, jobVars, clientVars, dbVars, history>>

\* Mutant: Stop waits for the done channel alone.
ReturnWhenDrained(t) ==
  /\ Active(t, "wait") /\ Top(t).victim \in closed
  /\ Becomes(t, <<>>)
  /\ UNCHANGED <<sessions, closed, queues, pc, loop, jobVars, cancelled, clientVars,
                 dbVars, history>>

\* The done channel or two seconds, whichever comes first.
ReturnFromStop(t) ==
  /\ Active(t, "wait")
  /\ Becomes(t, <<>>)
  /\ UNCHANGED <<sessions, closed, queues, pc, loop, jobVars, cancelled, clientVars,
                 dbVars, history>>

\* The goroutine that restarts an overflowed run goes on once Stop returned.
HaltReturns(r) ==
  /\ pc[r] = "halt" /\ stk[r] = <<>>
  /\ Goto(r, "haltDrop")
  /\ UNCHANGED <<sessions, closed, queues, loop, jobVars, cancelled, stk, clientVars,
                 dbVars, history>>

HaltCleansUp(r) ==
  /\ pc[r] = "haltDrop"
  /\ Cleanup(ConvOf(r))
  /\ Goto(r, "haltClear")
  /\ UNCHANGED <<queues, loop, jobVars, cancelled, stk, clientVars, dbVars, history>>

HaltClearsCheckpoint(r) ==
  /\ pc[r] = "haltClear"
  /\ ClearCheckpointID(ConvOf(r))
  /\ Goto(r, "load")
  /\ UNCHANGED <<queues, loop, jobVars, cancelled, stk, clientVars, dbVars, history>>

-----------------------------------------------------------------------------

StopStep(t) ==
  \/ CollectChildren(t)
  \/ \E k \in Conv : StopChild(t, k)
  \/ StopSession(t)
  \/ CancelVictim(t)
  \/ ReturnFromStop(t)

\* runAgent's outer goroutine, and the one that restarts after an overflow.
OuterStep(r) ==
  \/ LoadConversation(r) \/ LoadConversationFails(r)
  \/ TryStart(r) \/ TryStartFails(r) \/ EnqueueRefused(r)
  \/ BuildRunner(r) \/ BuildRunnerFails(r) \/ CleanupUnbuilt(r)
  \/ ReadCheckpoint(r) \/ LoadHistory(r)
  \/ RunFresh(r) \/ ResumeWithoutAnswer(r) \/ TakeAnswer(r) \/ ResumeWithAnswer(r)
  \/ LoopClosed(r) \/ LoopTimesOut(r)
  \/ CheckPending(r) \/ CleanupSession(r) \/ CleanupQueue(r) \/ SignalDone(r)
  \/ \E q \in Run : Respawn(r, q)
  \/ HaltReturns(r) \/ HaltCleansUp(r) \/ HaltClearsCheckpoint(r)

LoopStep(r) ==
  \/ CallModel(r) \/ Overflow(r) \/ Requeue(r) \/ CompressFails(r)
  \/ \E q \in Run : Restart(r, q)
  \/ FinishLoop(r) \/ FailLoop(r)
  \/ \E i \in Interrupt : RaiseInterrupt(r, i)
  \/ PersistCheckpoint(r) \/ PublishInterrupt(r)

SendStep(m) ==
  \/ FindRunning(m) \/ EnqueueMessage(m)
  \/ \E r \in Run : StartRun(m, r) \/ StartSubAgent(m, r)

ResumeStep(i) ==
  \/ AnswerReloadFails(i)
  \/ ResumeClearsDb(i) \/ ResumeSetsParams(i) \/ ResumeSetsCheckpoint(i)
  \/ \E r \in Run : ResumeStartsRun(i, r)

\* What users do: nothing obliges them to.
UserStep ==
  \/ \E m \in Msg : Store(m)
  \/ \E i \in Interrupt : Answer(i)
  \/ \E s \in StopReq, c \in Conv : RequestStop(s, c)

Next ==
  \/ UserStep
  \/ \E m \in Msg : SendStep(m)
  \/ \E i \in Interrupt : ResumeStep(i)
  \/ \E r \in Run : OuterStep(r) \/ LoopStep(r)
  \/ \E t \in Thread : StopStep(t)

Spec == Init /\ [][Next]_vars

(* Goroutines are scheduled: each thread that can take a step does so.     *)
Fairness ==
  /\ \A m \in Msg : WF_vars(SendStep(m))
  /\ \A i \in Interrupt : WF_vars(ResumeStep(i))
  /\ \A r \in Run : WF_vars(OuterStep(r)) /\ WF_vars(LoopStep(r))
  /\ \A t \in Thread : WF_vars(StopStep(t))

FairSpec == Spec /\ Fairness

-----------------------------------------------------------------------------
(* Properties.                                                             *)

Job == [conv : Conv, text : Content, parent : Conv \cup {NoConv}]
Work == [has : BOOLEAN, again : BOOLEAN, take : Interrupt \cup {NoParams},
         drained : Seq(Content), context : SUBSET Msg]

\* Every variable holds a value of its kind.
TypeOK ==
  /\ SessionTypeOK
  /\ Q!QueueTypeOK
  /\ pc \in [Run -> Pcs]
  /\ loop \in [Run -> Loops]
  /\ job \in [Run -> Job]
  /\ work \in [Run -> Work]
  /\ cancelled \subseteq Run
  /\ stk \in [Thread -> Seq(Frame)]
  /\ requested \subseteq StopReq
  /\ sent \in [Msg -> {"new", "stored", "enqueue", "sent"}]
  /\ ask \in [Interrupt -> {"none", "raised", "pending", "answered", "stuck",
                            "params", "ckpt", "spawn", "done"}]
  /\ askConv \in [Interrupt -> Conv \cup {NoConv}]
  /\ dbCkpt \in [Conv -> BOOLEAN]
  /\ saved \in [Conv -> SUBSET Msg]
  /\ answered \subseteq Msg
  /\ delivered \subseteq Run \X Interrupt
  /\ dropped \subseteq Msg

\* A session in the map belongs to a run of that conversation that has still
\* to pass its own Cleanup: no run leaves behind a session that would refuse
\* every later run.  (Placeholders have no owner.)
SessionOwnerLive ==
  \A c \in Conv : OwnerOf(c) # NoRun =>
    pc[OwnerOf(c)] \in Holding /\ ConvOf(OwnerOf(c)) = c

\* What a sender, TryStart or another Stop is told when it asks the registry:
\* from the moment Stop has marked a session, before its context is cancelled
\* and while Stop waits, the run it is ending is not the one a conversation is
\* reported to be running; and a running conversation's owner is cancelled only
\* once it is ending by itself.  This is about the answer, not about what is
\* done with it: the sender that asked before the mark still queues its message
\* for the run that is being stopped, and so does a start that was refused.
RunningIsNotStopped ==
  \A c \in Conv : IsRunning(c) =>
    /\ \A t \in Thread : \A n \in DOMAIN stk[t] :
         stk[t][n].phase \in {"cancel", "wait"} => stk[t][n].victim # OwnerOf(c)
    /\ OwnerOf(c) \in cancelled => pc[OwnerOf(c)] \in Ending

\* At most one agent works on a conversation.
Exclusive ==
  \A r, q \in Run :
    r # q /\ loop[r] \in Working /\ loop[q] \in Working => ConvOf(r) # ConvOf(q)

\* No two agents that nobody has cancelled work on one conversation.
OneLiveAgent ==
  \A r, q \in Run \ cancelled :
    r # q /\ loop[r] \in Working /\ loop[q] \in Working => ConvOf(r) # ConvOf(q)

\* The answer to an interrupt is given to at most one run.
DeliveredOnce ==
  \A d, e \in delivered : d[2] = e[2] => d = e

Settled ==
  /\ \A r \in Run : pc[r] \in {"free", "gone"} /\ loop[r] \notin Working
  /\ \A m \in Msg : sent[m] \in {"new", "sent"}
  /\ \A i \in Interrupt : ask[i] \in {"none", "pending", "stuck", "done"}

InQueue(m) == \E n \in DOMAIN queues[Dest[m]] : queues[Dest[m]][n] = m

\* When all is quiet and nothing failed, a message nobody answered was deleted
\* by the cleanup of a run that was ending, or lies in the queue with no run to
\* drain it, or its conversation was resumed from a checkpoint, whose context
\* is older than the message: there is no fourth way to lose one.
UnansweredIsExplained ==
  Settled => \A m \in Msg : sent[m] = "sent" =>
    \/ m \in answered \cup dropped
    \/ InQueue(m)
    \/ \E r \in Run : ConvOf(r) = Dest[m] /\ work[r].has

\* A run that registered gives its session up, whatever happens to it.
RegisteredRunEnds ==
  \A r \in Run : pc[r] = "build" ~> pc[r] \in {"respawn", "gone"}

\* A stop request is answered.
StopReturns == \A s \in StopReq : stk[s] # <<>> ~> stk[s] = <<>>

-----------------------------------------------------------------------------
(* The registry as a lock: the abstract specification, implemented when    *)
(* nobody stops a run and none overflows or times out.                     *)

Lock == INSTANCE RunLock WITH
  holder  <- [c \in Conv |-> IF IsRunning(c) THEN OwnerOf(c) ELSE NoRun],
  working <- {r \in Run : loop[r] \in Working}

\* Every step of the runs is a step of a lock per conversation, or none.
ImplementsLock == Lock!LockSpec

=============================================================================
