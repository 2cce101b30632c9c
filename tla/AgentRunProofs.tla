---------------------------- MODULE AgentRunProofs ----------------------------
(***************************************************************************)
(* Proofs about agent runs, for any number of conversations, runs,         *)
(* messages, interrupts and stop requests.                                 *)
(***************************************************************************)
EXTENDS AgentRun, SequenceTheorems, TLAPS

-----------------------------------------------------------------------------
(* Type correctness.                                                       *)

\* Facts on the registry's sessions: each critical section leaves a map of
\* sessions behind.
LEMMA SessionTypes ==
  ASSUME SessionTypeOK, NEW c \in Conv
  PROVE  /\ OwnerOf(c) \in Run \cup {NoRun}
         /\ GetCheckpointID(c) \in BOOLEAN
         /\ GetResumeParams(c) \in Interrupt \cup {NoParams}
         /\ ChildrenOf(c) \subseteq Conv
         /\ HasSession(c) => sessions[c] \in Session
  BY DEF SessionTypeOK, OwnerOf, GetCheckpointID, GetResumeParams, ChildrenOf,
         HasSession, Session

LEMMA RegisterType ==
  ASSUME SessionTypeOK, NEW c \in Conv, NEW r \in Run,
         NEW parent \in Conv \cup {NoConv}, Register(c, r, parent)
  PROVE  SessionTypeOK'
  <1> DEFINE s == [owner |-> r, running |-> TRUE, ckpt |-> GetCheckpointID(c),
                   params |-> GetResumeParams(c), parent |-> parent]
  <1>1. s \in Session
    BY SessionTypes DEF Session
  <1> HIDE DEF s
  <1>2. sessions' = [sessions EXCEPT ![c] = s] /\ closed' = closed
    BY DEF Register, s
  <1> QED
    BY <1>1, <1>2 DEF SessionTypeOK

LEMMA AmendType ==
  ASSUME SessionTypeOK, NEW c \in Conv, NEW s,
         HasSession(c) => s \in Session, Amend(c, s)
  PROVE  SessionTypeOK'
  BY DEF SessionTypeOK, Amend, HasSession

LEMMA CheckpointType ==
  ASSUME SessionTypeOK, NEW c \in Conv, SetCheckpointID(c) \/ ClearCheckpointID(c)
  PROVE  SessionTypeOK'
  <1>1. HasSession(c) => /\ [sessions[c] EXCEPT !.ckpt = TRUE] \in Session
                         /\ [sessions[c] EXCEPT !.ckpt = FALSE] \in Session
    BY SessionTypes DEF Session
  <1> QED
    BY <1>1, AmendType DEF SetCheckpointID, ClearCheckpointID

LEMMA ClearParamsType ==
  ASSUME SessionTypeOK, NEW c \in Conv, ClearResumeParams(c)
  PROVE  SessionTypeOK'
  <1>1. HasSession(c) => [sessions[c] EXCEPT !.params = NoParams] \in Session
    BY SessionTypes DEF Session
  <1> QED
    BY <1>1, AmendType DEF ClearResumeParams

LEMMA MarkStoppedType ==
  ASSUME SessionTypeOK, NEW c \in Conv, MarkStopped(c)
  PROVE  SessionTypeOK'
  <1>1. HasSession(c) => [sessions[c] EXCEPT !.running = FALSE] \in Session
    BY SessionTypes DEF Session
  <1> QED
    BY <1>1, AmendType DEF MarkStopped

LEMMA SetParamsType ==
  ASSUME SessionTypeOK, NEW c \in Conv, NEW i \in Interrupt, SetResumeParams(c, i)
  PROVE  SessionTypeOK'
  <1> DEFINE s == IF HasSession(c) THEN [sessions[c] EXCEPT !.params = i]
                  ELSE [owner |-> NoRun, running |-> FALSE, ckpt |-> FALSE,
                        params |-> i, parent |-> NoConv]
  <1>1. s \in Session
    BY SessionTypes DEF Session
  <1>2. sessions' = [sessions EXCEPT ![c] = s] /\ closed' = closed
    BY DEF SetResumeParams
  <1> QED
    BY <1>1, <1>2 DEF SessionTypeOK

LEMMA CleanupDoneType ==
  ASSUME SessionTypeOK, NEW c \in Conv, Cleanup(c) \/ Done(c)
  PROVE  SessionTypeOK'
  BY DEF SessionTypeOK, Cleanup, Done

\* Pushing frames on a call stack keeps it one.
LEMMA BecomesType ==
  ASSUME stk \in [Thread -> Seq(Frame)], NEW t \in Thread, NEW frames \in Seq(Frame),
         stk[t] # <<>>, Becomes(t, frames)
  PROVE  stk' \in [Thread -> Seq(Frame)]
  <1>1. Tail(stk[t]) \in Seq(Frame)
    BY HeadTailProperties
  <1>2. frames \o Tail(stk[t]) \in Seq(Frame)
    BY <1>1, ConcatProperties
  <1> QED
    BY <1>2 DEF Becomes

LEMMA TopType ==
  ASSUME stk \in [Thread -> Seq(Frame)], NEW t \in Thread, NEW phase, Active(t, phase)
  PROVE  Top(t) \in Frame /\ Top(t).phase = phase /\ stk[t] # <<>>
  BY HeadTailProperties DEF Active, Top

LEMMA CallType == ASSUME NEW c \in Conv PROVE Call(c) \in Frame
  BY DEF Call, Frame

\* TypeOK is not inductive: an answer being resumed has a conversation, a run
\* that took resume parameters took an interrupt's, a run publishes an interrupt
\* that it, and nobody else, has raised, and no run has events before it started its agent.
AskedSomewhere == \A i \in Interrupt : ask[i] # "none" => askConv[i] \in Conv
TakenIsAnswer == \A r \in Run : pc[r] = "consume" => work[r].take \in Interrupt

PublishesItsOwn ==
  \A r \in Run : loop[r] \in {"raise", "publish"} =>
    /\ work[r].take \in Interrupt /\ ask[work[r].take] = "raised"
    /\ \A q \in Run : loop[q] \in {"raise", "publish"} /\ work[q].take = work[r].take => q = r
Started == {"wait", "queue", "done", "respawn", "gone"} \cup Ending
EventsFollowStart == \A r \in Run : loop[r] # "none" => pc[r] \in Started

Locals == AskedSomewhere /\ TakenIsAnswer /\ PublishesItsOwn /\ EventsFollowStart

TypeInv == TypeOK /\ Locals

LEMMA InitType == Init => TypeInv
  <1> SUFFICES ASSUME Init PROVE TypeInv
    OBVIOUS
  <1> USE AgentRunConstants, SessionConstants DEF Init
  <1>1. SessionTypeOK
    BY DEF SessionInit, SessionTypeOK
  <1>2. Q!QueueTypeOK
    BY DEF Q!QueueInit, Q!QueueTypeOK
  <1>3. job \in [Run -> Job]
    BY DEF Job, Content
  <1>4. work \in [Run -> Work]
    BY DEF Work
  <1>5. stk \in [Thread -> Seq(Frame)]
    OBVIOUS
  <1> QED
    BY <1>1, <1>2, <1>3, <1>4, <1>5 DEF TypeInv, Locals, AskedSomewhere, TakenIsAnswer,
       PublishesItsOwn, EventsFollowStart, TypeOK, Pcs, Loops

\* What users, senders and answering handlers do.
LEMMA UserStepType == TypeInv /\ UserStep => TypeOK'
  <1> SUFFICES ASSUME TypeInv, UserStep PROVE TypeOK'
    OBVIOUS
  <1> USE DEF TypeInv, TypeOK, Locals, AskedSomewhere, TakenIsAnswer, dbVars, jobVars, history
  <1>1. ASSUME NEW m \in Msg, Store(m) PROVE TypeOK'
    BY <1>1 DEF Store, SessionTypeOK, Q!QueueTypeOK
  <1>2. ASSUME NEW i \in Interrupt, Answer(i) PROVE TypeOK'
    BY <1>2 DEF Answer, SessionTypeOK, Q!QueueTypeOK
  <1>3. ASSUME NEW s \in StopReq, NEW c \in Conv, RequestStop(s, c) PROVE TypeOK'
    <2>1. <<Call(c)>> \in Seq(Frame)
      BY CallType
    <2>2. stk' \in [Thread -> Seq(Frame)]
      BY <1>3, <2>1 DEF RequestStop, Thread
    <2> QED
      BY <1>3, <2>2 DEF RequestStop, SessionTypeOK, Q!QueueTypeOK
  <1> QED
    BY <1>1, <1>2, <1>3 DEF UserStep

\* A new invocation of runAgent has arguments of the right kinds.
LEMMA SpawnType ==
  ASSUME TypeInv, NEW r \in Run, NEW c \in Conv, NEW text \in Content,
         NEW parent \in Conv \cup {NoConv}, Spawn(r, c, text, parent)
  PROVE  pc' \in [Run -> Pcs] /\ job' \in [Run -> Job]
  BY DEF TypeInv, TypeOK, Spawn, Goto, Job, Pcs

LEMMA SendStepType ==
  ASSUME TypeInv, NEW m \in Msg, SendStep(m)
  PROVE  TypeOK'
  <1> USE AgentRunConstants DEF TypeInv, TypeOK, Locals, AskedSomewhere, TakenIsAnswer, dbVars, jobVars, history
  <1>1. CASE FindRunning(m)
    BY <1>1 DEF FindRunning, SessionTypeOK, Q!QueueTypeOK
  <1>2. CASE EnqueueMessage(m)
    <2>1. queues[Dest[m]] \in Seq(Content) /\ m \in Content
      BY DEF Q!QueueTypeOK, Content
    <2>2. Append(queues[Dest[m]], m) \in Seq(Content)
      BY <2>1
    <2>3. Q!QueueTypeOK'
      BY <1>2, <2>2 DEF EnqueueMessage, Q!Enqueue, Q!QueueTypeOK
    <2> QED
      BY <1>2, <2>3 DEF EnqueueMessage, SessionTypeOK
  <1>3. ASSUME NEW r \in Run, StartRun(m, r) PROVE TypeOK'
    <2>1. pc' \in [Run -> Pcs] /\ job' \in [Run -> Job]
      BY <1>3, SpawnType DEF StartRun, Content
    <2> QED
      BY <1>3, <2>1 DEF StartRun, Spawn, Goto, SessionTypeOK, Q!QueueTypeOK
  <1>4. ASSUME NEW r \in Run, StartSubAgent(m, r) PROVE TypeOK'
    <2>1. pc' \in [Run -> Pcs] /\ job' \in [Run -> Job]
      BY <1>4, SpawnType DEF StartSubAgent, Content
    <2> QED
      BY <1>4, <2>1 DEF StartSubAgent, Spawn, Goto, SessionTypeOK, Q!QueueTypeOK
  <1> QED
    BY <1>1, <1>2, <1>3, <1>4 DEF SendStep

LEMMA ResumeStepType ==
  ASSUME TypeInv, NEW i \in Interrupt, ResumeStep(i)
  PROVE  TypeOK'
  <1> USE DEF TypeInv, TypeOK, Locals, AskedSomewhere, TakenIsAnswer, dbVars, jobVars, history
  <1>1. CASE AnswerReloadFails(i) \/ ResumeClearsDb(i)
    BY <1>1 DEF AnswerReloadFails, ResumeClearsDb, SessionTypeOK, Q!QueueTypeOK
  <1>2. CASE ResumeSetsParams(i)
    <2>1. SessionTypeOK'
      BY <1>2, SetParamsType DEF ResumeSetsParams
    <2> QED
      BY <1>2, <2>1 DEF ResumeSetsParams, Q!QueueTypeOK
  <1>3. CASE ResumeSetsCheckpoint(i)
    <2>1. SessionTypeOK'
      BY <1>3, CheckpointType DEF ResumeSetsCheckpoint
    <2> QED
      BY <1>3, <2>1 DEF ResumeSetsCheckpoint, Q!QueueTypeOK
  <1>4. ASSUME NEW r \in Run, ResumeStartsRun(i, r) PROVE TypeOK'
    <2>1. pc' \in [Run -> Pcs] /\ job' \in [Run -> Job]
      BY <1>4, SpawnType DEF ResumeStartsRun, Content
    <2> QED
      BY <1>4, <2>1 DEF ResumeStartsRun, Spawn, Goto, SessionTypeOK, Q!QueueTypeOK
  <1> QED
    BY <1>1, <1>2, <1>3, <1>4 DEF ResumeStep

LEMMA ConvOfType == ASSUME TypeInv, NEW r \in Run PROVE ConvOf(r) \in Conv
  BY DEF TypeInv, TypeOK, Job, ConvOf

\* Assigning to a local variable of a run keeps the others.
LEMMA FlagType ==
  ASSUME work \in [Run -> Work], NEW r \in Run, NEW b \in BOOLEAN,
         \/ work' = [work EXCEPT ![r].has = b]
         \/ work' = [work EXCEPT ![r].again = b]
  PROVE  work' \in [Run -> Work] /\ \A q \in Run : work'[q].take = work[q].take
  <1> DEFINE S == Seq(Content)
  <1>1. Work = [has : BOOLEAN, again : BOOLEAN, take : Interrupt \cup {NoParams},
                drained : S, context : SUBSET Msg]
    BY DEF Work
  <1> HIDE DEF S
  <1> QED
    BY <1>1

LEMMA ContextType ==
  ASSUME work \in [Run -> Work], NEW r \in Run, NEW x \in SUBSET Msg,
         work' = [work EXCEPT ![r].context = x]
  PROVE  work' \in [Run -> Work] /\ \A q \in Run : work'[q].take = work[q].take
  <1> DEFINE S == Seq(Content)
  <1>1. Work = [has : BOOLEAN, again : BOOLEAN, take : Interrupt \cup {NoParams},
                drained : S, context : SUBSET Msg]
    BY DEF Work
  <1> HIDE DEF S
  <1> QED
    BY <1>1

LEMMA DrainedType ==
  ASSUME work \in [Run -> Work], NEW r \in Run, NEW d \in Seq(Content),
         work' = [work EXCEPT ![r].drained = d]
  PROVE  work' \in [Run -> Work] /\ \A q \in Run : work'[q].take = work[q].take
  <1> DEFINE S == Seq(Content)
  <1>1. Work = [has : BOOLEAN, again : BOOLEAN, take : Interrupt \cup {NoParams},
                drained : S, context : SUBSET Msg]
    BY DEF Work
  <1>2. d \in S
    OBVIOUS
  <1> HIDE DEF S
  <1> QED
    BY <1>1, <1>2

LEMMA TakeType ==
  ASSUME work \in [Run -> Work], NEW r \in Run, NEW i \in Interrupt,
         work' = [work EXCEPT ![r].take = i]
  PROVE  /\ work' \in [Run -> Work]
         /\ \A q \in Run : work'[q].take = IF q = r THEN i ELSE work[q].take
  <1> DEFINE S == Seq(Content)
  <1>1. Work = [has : BOOLEAN, again : BOOLEAN, take : Interrupt \cup {NoParams},
                drained : S, context : SUBSET Msg]
    BY DEF Work
  <1> HIDE DEF S
  <1>2. work' = [work EXCEPT ![r] = [work[r] EXCEPT !.take = i]]
    OBVIOUS
  <1>3. [work[r] EXCEPT !.take = i] \in Work /\ [work[r] EXCEPT !.take = i].take = i
    BY <1>1
  <1> QED
    BY <1>2, <1>3

\* The actions of the outer goroutine that assign to a local variable.
LEMMA OuterLocals ==
  ASSUME TypeInv, NEW r \in Run,
         \/ LoadConversation(r) \/ ReadCheckpoint(r) \/ LoadHistory(r)
         \/ ResumeWithoutAnswer(r) \/ ResumeWithAnswer(r) \/ CheckPending(r)
  PROVE  work' \in [Run -> Work] /\ \A q \in Run : work'[q].take = work[q].take
  <1> DEFINE Kept == work' \in [Run -> Work] /\ \A q \in Run : work'[q].take = work[q].take
  <1>1. /\ work \in [Run -> Work]
        /\ dbCkpt[ConvOf(r)] \in BOOLEAN
        /\ saved[ConvOf(r)] \in SUBSET Msg
    BY ConvOfType DEF TypeInv, TypeOK
  <1>2. work[r].has \in BOOLEAN
    BY <1>1 DEF Work
  <1>3. ASSUME NEW b \in BOOLEAN,
               \/ work' = [work EXCEPT ![r].has = b]
               \/ work' = [work EXCEPT ![r].again = b]
        PROVE  Kept
    BY <1>1, <1>3, FlagType
  <1>4. ASSUME NEW x \in SUBSET Msg, work' = [work EXCEPT ![r].context = x]
        PROVE  Kept
    BY <1>1, <1>4, ContextType
  <1>5. work' = work => Kept
    BY <1>1
  <1> SUFFICES Kept
    OBVIOUS
  <1> HIDE DEF Kept
  <1>6. CASE LoadConversation(r)
    BY <1>1, <1>3, <1>6 DEF LoadConversation
  <1>7. CASE ReadCheckpoint(r)
    <2>1. (GetCheckpointID(ConvOf(r)) \/ work[r].has) \in BOOLEAN
      BY <1>2
    <2> QED
      BY <1>3, <1>7, <2>1 DEF ReadCheckpoint
  <1>8. CASE LoadHistory(r)
    BY <1>4, <1>8 DEF LoadHistory, Stored
  <1>9. CASE ResumeWithoutAnswer(r)
    BY <1>1, <1>4, <1>5, <1>9 DEF ResumeWithoutAnswer
  <1>10. CASE ResumeWithAnswer(r)
    BY <1>1, <1>4, <1>5, <1>10 DEF ResumeWithAnswer
  <1>11. CASE CheckPending(r)
    BY <1>3, <1>11 DEF CheckPending, Q!HasPending
  <1> QED
    BY <1>6, <1>7, <1>8, <1>9, <1>10, <1>11

LEMMA OuterStepType ==
  ASSUME TypeInv, NEW r \in Run, OuterStep(r)
  PROVE  TypeOK'
  <1> USE ConvOfType DEF TypeInv, TypeOK, Locals, AskedSomewhere, TakenIsAnswer, Goto, ToLoop,
          Pcs, Holding, Starting, Ending, Loops, dbVars, jobVars, clientVars, history
  <1>1. CASE LoadConversation(r)
    <2>1. work' \in [Run -> Work] /\ \A q \in Run : work'[q].take = work[q].take
      BY <1>1, OuterLocals
    <2> QED
      BY <1>1, <2>1 DEF LoadConversation, SessionTypeOK, Q!QueueTypeOK
  <1>22. CASE LoadConversationFails(r)
    BY <1>22 DEF LoadConversationFails, SessionTypeOK, Q!QueueTypeOK
  <1>2. CASE TryStart(r)
    <2>1. job[r].parent \in Conv \cup {NoConv}
      BY DEF Job
    <2>2. SessionTypeOK'
      BY <1>2, <2>1, RegisterType DEF TryStart
    <2> QED
      BY <1>2, <2>2 DEF TryStart, Q!QueueTypeOK
  <1>3. CASE TryStartFails(r)
    BY <1>3 DEF TryStartFails, SessionTypeOK, Q!QueueTypeOK
  <1>4. CASE EnqueueRefused(r)
    <2>1. queues[ConvOf(r)] \in Seq(Content) /\ job[r].text \in Content
      BY DEF Q!QueueTypeOK, Job
    <2>2. Append(queues[ConvOf(r)], job[r].text) \in Seq(Content)
      BY <2>1
    <2>3. Q!QueueTypeOK'
      BY <1>4, <2>2 DEF EnqueueRefused, Q!Enqueue, Q!QueueTypeOK
    <2> QED
      BY <1>4, <2>3 DEF EnqueueRefused, SessionTypeOK
  <1>5. CASE BuildRunner(r)
    BY <1>5 DEF BuildRunner, SessionTypeOK, Q!QueueTypeOK
  <1>6. CASE BuildRunnerFails(r) \/ CleanupUnbuilt(r)
    <2>1. SessionTypeOK'
      BY <1>6, CleanupDoneType DEF BuildRunnerFails, CleanupUnbuilt, SessionTypeOK
    <2> QED
      BY <1>6, <2>1 DEF BuildRunnerFails, CleanupUnbuilt, Q!QueueTypeOK
  <1>7. CASE ReadCheckpoint(r)
    <2>1. work' \in [Run -> Work] /\ \A q \in Run : work'[q].take = work[q].take
      BY <1>7, OuterLocals
    <2> QED
      BY <1>7, <2>1 DEF ReadCheckpoint, SessionTypeOK, Q!QueueTypeOK
  <1>8. CASE LoadHistory(r)
    <2>1. work' \in [Run -> Work] /\ \A q \in Run : work'[q].take = work[q].take
      BY <1>8, OuterLocals
    <2> QED
      BY <1>8, <2>1 DEF LoadHistory, SessionTypeOK, Q!QueueTypeOK
  <1>9. CASE RunFresh(r)
    BY <1>9 DEF RunFresh, SessionTypeOK, Q!QueueTypeOK
  <1>10. CASE ResumeWithoutAnswer(r)
    <2>1. work' \in [Run -> Work] /\ \A q \in Run : work'[q].take = work[q].take
      BY <1>10, OuterLocals
    <2> QED
      BY <1>10, <2>1 DEF ResumeWithoutAnswer, SessionTypeOK, Q!QueueTypeOK
  <1>11. CASE TakeAnswer(r)
    <2>1. GetResumeParams(ConvOf(r)) \in Interrupt
      BY <1>11, SessionTypes DEF TakeAnswer
    <2>2. /\ work' \in [Run -> Work]
          /\ \A q \in Run : work'[q].take = IF q = r THEN GetResumeParams(ConvOf(r))
                                            ELSE work[q].take
      BY <1>11, <2>1, TakeType DEF TakeAnswer
    <2> QED
      BY <1>11, <2>1, <2>2 DEF TakeAnswer, SessionTypeOK, Q!QueueTypeOK
  <1>12. CASE ResumeWithAnswer(r)
    <2>1. SessionTypeOK'
      BY <1>12, ClearParamsType DEF ResumeWithAnswer
    <2>2. work' \in [Run -> Work] /\ \A q \in Run : work'[q].take = work[q].take
      BY <1>12, OuterLocals
    <2>3. delivered' \subseteq Run \X Interrupt
      BY <1>12 DEF ResumeWithAnswer
    <2> QED
      BY <1>12, <2>1, <2>2, <2>3 DEF ResumeWithAnswer, Q!QueueTypeOK
  <1>13. CASE LoopClosed(r) \/ LoopTimesOut(r)
    BY <1>13 DEF LoopClosed, LoopTimesOut, LeaveWait, SessionTypeOK, Q!QueueTypeOK
  <1>14. CASE CheckPending(r)
    <2>1. work' \in [Run -> Work] /\ \A q \in Run : work'[q].take = work[q].take
      BY <1>14, OuterLocals
    <2> QED
      BY <1>14, <2>1 DEF CheckPending, SessionTypeOK, Q!QueueTypeOK
  <1>15. CASE CleanupSession(r)
    <2>1. SessionTypeOK'
      BY <1>15, CleanupDoneType DEF CleanupSession
    <2> QED
      BY <1>15, <2>1 DEF CleanupSession, Q!QueueTypeOK
  <1>16. CASE CleanupQueue(r)
    <2>1. Q!QueueTypeOK'
      BY <1>16 DEF CleanupQueue, Q!QueueCleanup, Q!QueueTypeOK
    <2> QED
      BY <1>16, <2>1 DEF CleanupQueue, SessionTypeOK
  <1>17. CASE SignalDone(r)
    <2>1. SessionTypeOK'
      BY <1>17, CleanupDoneType DEF SignalDone
    <2> QED
      BY <1>17, <2>1 DEF SignalDone, Q!QueueTypeOK
  <1>18. ASSUME NEW q \in Run, Respawn(r, q) PROVE TypeOK'
    BY <1>18 DEF Respawn, Job, SessionTypeOK, Q!QueueTypeOK
  <1>19. CASE HaltReturns(r)
    BY <1>19 DEF HaltReturns, SessionTypeOK, Q!QueueTypeOK
  <1>20. CASE HaltCleansUp(r)
    <2>1. SessionTypeOK'
      BY <1>20, CleanupDoneType DEF HaltCleansUp
    <2> QED
      BY <1>20, <2>1 DEF HaltCleansUp, Q!QueueTypeOK
  <1>21. CASE HaltClearsCheckpoint(r)
    <2>1. SessionTypeOK'
      BY <1>21, CheckpointType DEF HaltClearsCheckpoint
    <2> QED
      BY <1>21, <2>1 DEF HaltClearsCheckpoint, Q!QueueTypeOK
  <1> QED
    BY <1>1, <1>2, <1>3, <1>4, <1>5, <1>6, <1>7, <1>8, <1>9, <1>10, <1>11, <1>12, <1>13,
       <1>14, <1>15, <1>16, <1>17, <1>18, <1>19, <1>20, <1>21, <1>22 DEF OuterStep

\* The actions of the event goroutine that assign to a local variable.
LEMMA LoopLocals ==
  ASSUME TypeInv, NEW r \in Run, CallModel(r) \/ Overflow(r)
  PROVE  work' \in [Run -> Work] /\ \A q \in Run : work'[q].take = work[q].take
  <1>1. work \in [Run -> Work] /\ work[r].context \in SUBSET Msg
    BY DEF TypeInv, TypeOK, Work
  <1>2. queues[ConvOf(r)] \in Seq(Content)
    BY ConvOfType DEF TypeInv, TypeOK, Q!QueueTypeOK
  <1>3. CASE CallModel(r)
    <2>1. PICK x : x \in SUBSET Msg /\ work' = [work EXCEPT ![r].context = x]
      BY <1>1, <1>3 DEF CallModel
    <2> QED
      BY <1>1, <2>1, ContextType
  <1>4. CASE Overflow(r)
    <2>1. work' = [work EXCEPT ![r].drained = queues[ConvOf(r)]]
      BY <1>4 DEF Overflow
    <2> QED
      BY <1>1, <1>2, <2>1, DrainedType
  <1> QED
    BY <1>3, <1>4

LEMMA LoopStepType ==
  ASSUME TypeInv, NEW r \in Run, LoopStep(r)
  PROVE  TypeOK'
  <1> USE ConvOfType DEF TypeInv, TypeOK, Locals, AskedSomewhere, TakenIsAnswer, ToLoop,
          Loops, dbVars, jobVars, clientVars, history
  <1>1. CASE CallModel(r)
    <2>1. work' \in [Run -> Work] /\ \A q \in Run : work'[q].take = work[q].take
      BY <1>1, LoopLocals
    <2>2. Q!QueueTypeOK'
      BY <1>1 DEF CallModel, Q!Drain, Q!QueueTypeOK
    <2>3. answered' \subseteq Msg
      BY <1>1 DEF CallModel, Work
    <2> QED
      BY <1>1, <2>1, <2>2, <2>3 DEF CallModel, SessionTypeOK
  <1>2. CASE Overflow(r)
    <2>1. work' \in [Run -> Work] /\ \A q \in Run : work'[q].take = work[q].take
      BY <1>2, LoopLocals
    <2>2. Q!QueueTypeOK'
      BY <1>2 DEF Overflow, Q!Drain, Q!QueueTypeOK
    <2> QED
      BY <1>2, <2>1, <2>2 DEF Overflow, SessionTypeOK
  <1>3. CASE Requeue(r)
    <2>1. queues[ConvOf(r)] \in Seq(Content) /\ work[r].drained \in Seq(Content)
      BY DEF Q!QueueTypeOK, Work
    <2>2. queues[ConvOf(r)] \o work[r].drained \in Seq(Content)
      BY <2>1, ConcatProperties
    <2>3. Q!QueueTypeOK'
      BY <1>3, <2>2 DEF Requeue, Q!QueueTypeOK
    <2> QED
      BY <1>3, <2>3 DEF Requeue, SessionTypeOK
  <1>4. CASE CompressFails(r)
    BY <1>4 DEF CompressFails, SessionTypeOK, Q!QueueTypeOK
  <1>5. ASSUME NEW q \in Run, Restart(r, q) PROVE TypeOK'
    <2>1. <<Call(ConvOf(r))>> \in Seq(Frame)
      BY CallType
    <2>2. stk' \in [Thread -> Seq(Frame)]
      BY <1>5, <2>1 DEF Restart, Thread
    <2>3. job' \in [Run -> Job]
      BY <1>5 DEF Restart, Job
    <2>4. pc' \in [Run -> Pcs] /\ TakenIsAnswer'
      BY <1>5 DEF Restart, Goto, Pcs
    <2> QED
      BY <1>5, <2>2, <2>3, <2>4 DEF Restart, SessionTypeOK, Q!QueueTypeOK
  <1>6. CASE FinishLoop(r) \/ FailLoop(r)
    BY <1>6 DEF FinishLoop, FailLoop, SessionTypeOK, Q!QueueTypeOK
  <1>7. ASSUME NEW i \in Interrupt, RaiseInterrupt(r, i) PROVE TypeOK'
    <2>1. SessionTypeOK'
      BY <1>7, CheckpointType DEF RaiseInterrupt
    <2>2. /\ work' \in [Run -> Work]
          /\ \A q \in Run : work'[q].take = IF q = r THEN i ELSE work[q].take
      BY <1>7, TakeType DEF RaiseInterrupt
    <2>3. saved' \in [Conv -> SUBSET Msg]
      BY <1>7 DEF RaiseInterrupt, Work
    <2> QED
      BY <1>7, <2>1, <2>2, <2>3 DEF RaiseInterrupt, Q!QueueTypeOK
  <1>8. CASE PersistCheckpoint(r)
    BY <1>8 DEF PersistCheckpoint, SessionTypeOK, Q!QueueTypeOK
  <1>9. CASE PublishInterrupt(r)
    BY <1>9 DEF PublishInterrupt, SessionTypeOK, Q!QueueTypeOK
  <1> QED
    BY <1>1, <1>2, <1>3, <1>4, <1>5, <1>6, <1>7, <1>8, <1>9 DEF LoopStep

LEMMA StopStepType ==
  ASSUME TypeInv, NEW t \in Thread, StopStep(t)
  PROVE  TypeOK'
  <1>0. stk \in [Thread -> Seq(Frame)] /\ SessionTypeOK
    BY DEF TypeInv, TypeOK
  <1> DEFINE Rest == UNCHANGED <<queues, pc, loop, jobVars, clientVars, dbVars, history>>
  <1>1. ASSUME stk' \in [Thread -> Seq(Frame)], SessionTypeOK', cancelled' \subseteq Run, Rest
        PROVE  TypeOK'
    BY <1>1 DEF TypeInv, TypeOK, Locals, AskedSomewhere, TakenIsAnswer, Q!QueueTypeOK, jobVars,
                clientVars, dbVars, history
  <1>2. UNCHANGED <<sessions, closed>> => SessionTypeOK'
    BY <1>0 DEF SessionTypeOK
  <1>3. cancelled \subseteq Run
    BY DEF TypeInv, TypeOK
  <1>4. CASE CollectChildren(t)
    <2>1. Top(t) \in Frame /\ Top(t).conv \in Conv /\ stk[t] # <<>>
      BY <1>0, <1>4, TopType DEF CollectChildren, Frame
    <2>2. ChildrenOf(Top(t).conv) \in SUBSET Conv
      BY <1>0, <2>1, SessionTypes
    <2>3. [Top(t) EXCEPT !.phase = "kids", !.kids = ChildrenOf(Top(t).conv)] \in Frame
      BY <2>1, <2>2 DEF Frame
    <2>4. <<[Top(t) EXCEPT !.phase = "kids", !.kids = ChildrenOf(Top(t).conv)]>> \in Seq(Frame)
      BY <2>3
    <2> QED
      BY <1>0, <1>1, <1>2, <1>3, <1>4, <2>1, <2>4, BecomesType DEF CollectChildren
  <1>5. ASSUME NEW k \in Conv, StopChild(t, k) PROVE TypeOK'
    <2>1. Top(t) \in Frame /\ stk[t] # <<>>
      BY <1>0, <1>5, TopType DEF StopChild
    <2>2. [Top(t) EXCEPT !.kids = @ \ {k}] \in Frame
      BY <2>1 DEF Frame
    <2>3. <<Call(k), [Top(t) EXCEPT !.kids = @ \ {k}]>> \in Seq(Frame)
      BY <2>2, CallType
    <2> QED
      BY <1>0, <1>1, <1>2, <1>3, <1>5, <2>1, <2>3, BecomesType DEF StopChild
  <1>6. CASE StopSession(t)
    <2>1. Top(t) \in Frame /\ Top(t).conv \in Conv /\ stk[t] # <<>>
      BY <1>0, <1>6, TopType DEF StopSession, Frame
    <2>2. [Top(t) EXCEPT !.phase = "cancel", !.victim = OwnerOf(Top(t).conv)] \in Frame
      BY <1>0, <2>1, SessionTypes DEF Frame
    <2>3. PICK frames \in Seq(Frame) : Becomes(t, frames)
      <3>1. <<>> \in Seq(Frame) /\ <<[Top(t) EXCEPT !.phase = "cancel",
                                     !.victim = OwnerOf(Top(t).conv)]>> \in Seq(Frame)
        BY <2>2
      <3>2. CASE HasSession(Top(t).conv)
        BY <1>6, <3>1, <3>2 DEF StopSession
      <3>3. CASE ~HasSession(Top(t).conv)
        BY <1>6, <3>1, <3>3 DEF StopSession
      <3> QED
        BY <3>2, <3>3
    <2>5. stk' \in [Thread -> Seq(Frame)]
      BY <1>0, <2>1, <2>3, BecomesType
    <2>4. SessionTypeOK'
      BY <1>0, <1>6, <2>1, MarkStoppedType DEF StopSession
    <2> QED
      BY <1>1, <1>3, <1>6, <2>4, <2>5 DEF StopSession
  <1>7. CASE CancelVictim(t)
    <2>1. Top(t) \in Frame /\ stk[t] # <<>>
      BY <1>0, <1>7, TopType DEF CancelVictim
    <2>2. <<[Top(t) EXCEPT !.phase = "wait"]>> \in Seq(Frame)
      BY <2>1 DEF Frame
    <2> QED
      BY <1>0, <1>1, <1>2, <1>3, <1>7, <2>1, <2>2, BecomesType DEF CancelVictim
  <1>8. CASE ReturnFromStop(t)
    <2>1. stk[t] # <<>> /\ <<>> \in Seq(Frame)
      BY <1>0, <1>8, TopType DEF ReturnFromStop
    <2> QED
      BY <1>0, <1>1, <1>2, <1>3, <1>8, <2>1, BecomesType DEF ReturnFromStop
  <1> QED
    BY <1>4, <1>5, <1>6, <1>7, <1>8 DEF StopStep


\* What the local variables and program counters of the runs owe each other
\* is kept by every step.
LEMMA LocalsOfUsers ==
  ASSUME TypeInv,
         \/ UserStep
         \/ \E m \in Msg : SendStep(m)
         \/ \E i \in Interrupt : ResumeStep(i)
         \/ \E t \in Thread : StopStep(t)
         \/ UNCHANGED vars
  PROVE  Locals'
  <1>1. /\ pc \in [Run -> Pcs]
        /\ ask \in [Interrupt -> {"none", "raised", "pending", "answered", "stuck", "params",
                                  "ckpt", "spawn", "done"}]
    BY DEF TypeInv, TypeOK
  <1> USE <1>1 DEF TypeInv, Locals, AskedSomewhere, TakenIsAnswer, PublishesItsOwn,
          EventsFollowStart, jobVars, clientVars
  <1>2. CASE UserStep
    BY <1>2 DEF UserStep, Store, Answer, RequestStop
  <1>3. ASSUME NEW m \in Msg, SendStep(m) PROVE Locals'
    BY <1>3 DEF SendStep, FindRunning, EnqueueMessage, StartRun, StartSubAgent, Spawn,
                Goto, Started, Ending
  <1>4. ASSUME NEW i \in Interrupt, ResumeStep(i) PROVE Locals'
    BY <1>4 DEF ResumeStep, AnswerReloadFails, ResumeClearsDb, ResumeSetsParams,
                ResumeSetsCheckpoint, ResumeStartsRun, Spawn, Goto, Started, Ending
  <1>5. ASSUME NEW t \in Thread, StopStep(t) PROVE Locals'
    BY <1>5 DEF StopStep, CollectChildren, StopChild, StopSession, CancelVictim,
                ReturnFromStop
  <1>6. CASE UNCHANGED vars
    BY <1>6 DEF vars
  <1> QED
    BY <1>2, <1>3, <1>4, <1>5, <1>6

LEMMA LocalsOfOuter ==
  ASSUME TypeInv, NEW r \in Run, OuterStep(r)
  PROVE  Locals'
  <1>1. pc \in [Run -> Pcs] /\ loop \in [Run -> Loops] /\ work \in [Run -> Work]
    BY DEF TypeInv, TypeOK
  <1> USE <1>1 DEF TypeInv, Locals, AskedSomewhere, TakenIsAnswer, PublishesItsOwn,
          EventsFollowStart, Started, Ending, Goto, ToLoop, jobVars, clientVars
  <1>2. CASE LoadConversation(r) \/ ReadCheckpoint(r) \/ LoadHistory(r) \/ CheckPending(r)
    <2>1. \A q \in Run : work'[q].take = work[q].take
      BY <1>2, OuterLocals
    <2> QED
      BY <1>2, <2>1 DEF LoadConversation, ReadCheckpoint, LoadHistory, CheckPending
  <1>3. CASE ResumeWithoutAnswer(r) \/ ResumeWithAnswer(r)
    <2>1. \A q \in Run : work'[q].take = work[q].take
      BY <1>3, OuterLocals
    <2> QED
      BY <1>3, <2>1 DEF ResumeWithoutAnswer, ResumeWithAnswer
  <1>4. CASE TakeAnswer(r)
    <2>1. GetResumeParams(ConvOf(r)) \in Interrupt
      BY <1>4, SessionTypes, ConvOfType DEF TakeAnswer, TypeOK
    <2>2. \A q \in Run : work'[q].take = IF q = r THEN GetResumeParams(ConvOf(r))
                                         ELSE work[q].take
      BY <1>4, <2>1, TakeType DEF TakeAnswer
    <2> QED
      BY <1>4, <2>1, <2>2 DEF TakeAnswer
  <1>5. CASE \/ LoadConversationFails(r) \/ TryStart(r) \/ TryStartFails(r)
             \/ EnqueueRefused(r) \/ BuildRunner(r) \/ BuildRunnerFails(r)
             \/ CleanupUnbuilt(r) \/ RunFresh(r)
    BY <1>5 DEF LoadConversationFails, TryStart, TryStartFails, EnqueueRefused,
                BuildRunner, BuildRunnerFails, CleanupUnbuilt, RunFresh
  <1>6. CASE LoopClosed(r) \/ LoopTimesOut(r)
    BY <1>6 DEF LoopClosed, LoopTimesOut, LeaveWait
  <1>7. CASE CleanupSession(r) \/ CleanupQueue(r) \/ SignalDone(r)
    BY <1>7 DEF CleanupSession, CleanupQueue, SignalDone
  <1>8. ASSUME NEW q \in Run, Respawn(r, q) PROVE Locals'
    BY <1>8 DEF Respawn
  <1>9. CASE HaltReturns(r) \/ HaltCleansUp(r) \/ HaltClearsCheckpoint(r)
    BY <1>9 DEF HaltReturns, HaltCleansUp, HaltClearsCheckpoint
  <1> QED
    BY <1>2, <1>3, <1>4, <1>5, <1>6, <1>7, <1>8, <1>9 DEF OuterStep

LEMMA LocalsOfLoop ==
  ASSUME TypeInv, NEW r \in Run, LoopStep(r)
  PROVE  Locals'
  <1>1. /\ pc \in [Run -> Pcs] /\ loop \in [Run -> Loops] /\ work \in [Run -> Work]
        /\ ConvOf(r) \in Conv
        /\ ask \in [Interrupt -> {"none", "raised", "pending", "answered", "stuck", "params",
                                  "ckpt", "spawn", "done"}]
        /\ askConv \in [Interrupt -> Conv \cup {NoConv}]
    BY ConvOfType DEF TypeInv, TypeOK
  <1> USE <1>1 DEF TypeInv, Locals, AskedSomewhere, TakenIsAnswer, PublishesItsOwn,
          EventsFollowStart, Started, Ending, Goto, ToLoop, jobVars, clientVars
  <1>2. CASE CallModel(r) \/ Overflow(r)
    <2>1. \A q \in Run : work'[q].take = work[q].take
      BY <1>2, LoopLocals
    <2> QED
      BY <1>2, <2>1 DEF CallModel, Overflow, Ready
  <1>3. CASE Requeue(r) \/ CompressFails(r) \/ FinishLoop(r) \/ FailLoop(r)
    BY <1>3, ZenonT(60) DEF Requeue, CompressFails, FinishLoop, FailLoop, Ready
  <1>4. ASSUME NEW q \in Run, Restart(r, q) PROVE Locals'
    BY <1>4 DEF Restart
  <1>5. ASSUME NEW i \in Interrupt, RaiseInterrupt(r, i) PROVE Locals'
    <2>1. \A q \in Run : work'[q].take = IF q = r THEN i ELSE work[q].take
      BY <1>5, TakeType DEF RaiseInterrupt
    <2>2. /\ ask[i] = "none" /\ ask' = [ask EXCEPT ![i] = "raised"]
          /\ askConv' = [askConv EXCEPT ![i] = ConvOf(r)]
          /\ loop' = [loop EXCEPT ![r] = "raise"]
          /\ pc' = pc
          /\ loop[r] # "none"
      BY <1>5 DEF RaiseInterrupt
    <2>3. AskedSomewhere'
      BY <2>2
    <2>4. TakenIsAnswer'
      BY <2>1, <2>2
    <2>5. PublishesItsOwn'
      <3>1. \A q \in Run : loop[q] \in {"raise", "publish"} => work[q].take # i
        BY <2>2
      <3> QED
        BY <2>1, <2>2, <3>1
    <2>6. EventsFollowStart'
      BY <2>2
    <2> QED
      BY <2>3, <2>4, <2>5, <2>6
  <1>6. CASE PersistCheckpoint(r)
    <2>1. /\ loop[r] = "raise" /\ loop' = [loop EXCEPT ![r] = "publish"]
          /\ pc' = pc /\ ask' = ask /\ askConv' = askConv /\ work' = work
      BY <1>6 DEF PersistCheckpoint
    <2>2. EventsFollowStart'
      BY <2>1
    <2>3. PublishesItsOwn'
      BY <2>1
    <2> QED
      BY <2>1, <2>2, <2>3
  <1>7. CASE PublishInterrupt(r)
    BY <1>7 DEF PublishInterrupt
  <1> QED
    BY <1>2, <1>3, <1>4, <1>5, <1>6, <1>7 DEF LoopStep

\* TypeInv is inductive.
LEMMA TypeInvariance == Spec => []TypeInv
  <1>1. Init => TypeInv
    BY InitType
  <1>2. TypeInv /\ [Next]_vars => TypeInv'
    <2> SUFFICES ASSUME TypeInv, [Next]_vars PROVE TypeInv'
      OBVIOUS
    <2>1. TypeOK'
      <3>1. CASE UNCHANGED vars
        BY <3>1 DEF vars, TypeInv, TypeOK, SessionTypeOK, Q!QueueTypeOK
      <3> QED
        BY <3>1, UserStepType, SendStepType, ResumeStepType, OuterStepType, LoopStepType,
           StopStepType DEF Next
    <2>2. Locals'
      BY LocalsOfUsers, LocalsOfOuter, LocalsOfLoop DEF Next
    <2> QED
      BY <2>1, <2>2 DEF TypeInv
  <1> QED
    BY <1>1, <1>2, PTL DEF Spec

\* Every variable holds a value of its kind, at every step of the agent runs.
THEOREM TypeCorrect == Spec => []TypeOK
  <1>1. TypeInv => TypeOK
    BY DEF TypeInv
  <1> QED
    BY <1>1, TypeInvariance, PTL

-----------------------------------------------------------------------------
(* The registry and the runs: nobody's session outlives its run, and no    *)
(* stopped run is reported as running.                                     *)

\* What the critical sections of the manager do to owners and running flags.
LEMMA RegisterEffect ==
  ASSUME SessionTypeOK, NEW c \in Conv, NEW r \in Run,
         NEW parent \in Conv \cup {NoConv}, Register(c, r, parent)
  PROVE  \A k \in Conv : /\ OwnerOf(k)' = IF k = c THEN r ELSE OwnerOf(k)
                         /\ IsRunning(k)' = (k = c \/ IsRunning(k))
  <1> DEFINE s == [owner |-> r, running |-> TRUE, ckpt |-> GetCheckpointID(c),
                   params |-> GetResumeParams(c), parent |-> parent]
  <1>1. s \in Session /\ s.owner = r /\ s.running = TRUE
    BY SessionTypes DEF Session
  <1>2. sessions' = [sessions EXCEPT ![c] = s]
    BY DEF Register
  <1> HIDE DEF s
  <1>3. s # NoSession
    BY <1>1, SessionConstants
  <1> QED
    BY <1>1, <1>2, <1>3 DEF SessionTypeOK, OwnerOf, IsRunning, HasSession

LEMMA AmendEffect ==
  ASSUME SessionTypeOK, NEW c \in Conv, NEW s,
         HasSession(c) => s \in Session, Amend(c, s)
  PROVE  \A k \in Conv :
           /\ OwnerOf(k)' = IF k = c /\ HasSession(c) THEN s.owner ELSE OwnerOf(k)
           /\ IsRunning(k)' = IF k = c /\ HasSession(c) THEN s.running ELSE IsRunning(k)
  <1>1. CASE HasSession(c)
    <2>1. sessions' = [sessions EXCEPT ![c] = s] /\ s \in Session
      BY <1>1 DEF Amend
    <2>2. s # NoSession /\ s.running \in BOOLEAN
      BY <2>1, SessionConstants DEF Session
    <2> QED
      BY <1>1, <2>1, <2>2 DEF SessionTypeOK, OwnerOf, IsRunning, HasSession
  <1>2. CASE ~HasSession(c)
    BY <1>2 DEF Amend, OwnerOf, IsRunning, HasSession
  <1> QED
    BY <1>1, <1>2

\* No owner and no running flag changes.
SameRegistry == \A k \in Conv : OwnerOf(k)' = OwnerOf(k) /\ IsRunning(k)' = IsRunning(k)

LEMMA CheckpointEffect ==
  ASSUME SessionTypeOK, NEW c \in Conv,
         SetCheckpointID(c) \/ ClearCheckpointID(c) \/ ClearResumeParams(c)
  PROVE  SameRegistry
  <1>1. HasSession(c) =>
          /\ [sessions[c] EXCEPT !.ckpt = TRUE] \in Session
          /\ [sessions[c] EXCEPT !.ckpt = FALSE] \in Session
          /\ [sessions[c] EXCEPT !.params = NoParams] \in Session
          /\ [sessions[c] EXCEPT !.ckpt = TRUE].owner = OwnerOf(c)
          /\ [sessions[c] EXCEPT !.ckpt = FALSE].owner = OwnerOf(c)
          /\ [sessions[c] EXCEPT !.params = NoParams].owner = OwnerOf(c)
          /\ [sessions[c] EXCEPT !.ckpt = TRUE].running = IsRunning(c)
          /\ [sessions[c] EXCEPT !.ckpt = FALSE].running = IsRunning(c)
          /\ [sessions[c] EXCEPT !.params = NoParams].running = IsRunning(c)
    BY SessionTypes DEF Session, OwnerOf, IsRunning
  <1>2. ASSUME NEW s, HasSession(c) => s \in Session /\ s.owner = OwnerOf(c)
                                       /\ s.running = IsRunning(c), Amend(c, s)
        PROVE  SameRegistry
    BY <1>2, AmendEffect DEF SameRegistry
  <1> QED
    BY <1>1, <1>2 DEF SetCheckpointID, ClearCheckpointID, ClearResumeParams

LEMMA SetParamsEffect ==
  ASSUME SessionTypeOK, NEW c \in Conv, NEW i \in Interrupt, SetResumeParams(c, i)
  PROVE  SameRegistry
  <1> DEFINE s == IF HasSession(c) THEN [sessions[c] EXCEPT !.params = i]
                  ELSE [owner |-> NoRun, running |-> FALSE, ckpt |-> FALSE,
                        params |-> i, parent |-> NoConv]
  <1>1. s \in Session
    BY SessionTypes DEF Session
  <1>2. s.owner = OwnerOf(c) /\ s.running = IsRunning(c)
    BY SessionTypes DEF OwnerOf, IsRunning, Session
  <1>3. sessions' = [sessions EXCEPT ![c] = s]
    BY DEF SetResumeParams
  <1> HIDE DEF s
  <1>4. s # NoSession
    BY <1>1, SessionConstants
  <1> QED
    BY <1>1, <1>2, <1>3, <1>4 DEF SameRegistry, SessionTypeOK, OwnerOf, IsRunning, HasSession

LEMMA MarkStoppedEffect ==
  ASSUME SessionTypeOK, NEW c \in Conv, MarkStopped(c)
  PROVE  \A k \in Conv : /\ OwnerOf(k)' = OwnerOf(k)
                         /\ IsRunning(k)' = (k # c /\ IsRunning(k))
  <1>1. HasSession(c) => /\ [sessions[c] EXCEPT !.running = FALSE] \in Session
                         /\ [sessions[c] EXCEPT !.running = FALSE].owner = OwnerOf(c)
                         /\ [sessions[c] EXCEPT !.running = FALSE].running = FALSE
    BY SessionTypes DEF Session, OwnerOf
  <1>2. \A k \in Conv : IsRunning(k) \in BOOLEAN /\ (~HasSession(k) => ~IsRunning(k))
    BY DEF IsRunning, SessionTypeOK, HasSession, Session
  <1>3. CASE HasSession(c)
    BY <1>1, <1>2, <1>3, AmendEffect DEF MarkStopped
  <1>4. CASE ~HasSession(c)
    <2>1. sessions' = sessions
      BY <1>4 DEF MarkStopped, Amend
    <2> QED
      BY <1>2, <1>4, <2>1 DEF OwnerOf, IsRunning, HasSession
  <1> QED
    BY <1>3, <1>4

LEMMA CleanupEffect ==
  ASSUME SessionTypeOK, NEW c \in Conv, Cleanup(c)
  PROVE  \A k \in Conv : /\ OwnerOf(k)' = IF k = c THEN NoRun ELSE OwnerOf(k)
                         /\ IsRunning(k)' = (k # c /\ IsRunning(k))
  BY DEF SessionTypeOK, Cleanup, OwnerOf, IsRunning, HasSession

\* The strengthening.  A run registers once, so one that has been cancelled, or
\* whose session some Stop has marked, will not own a session again; and the
\* victim of a Stop past its marking owns no session that is running.
Marked == {"cancel", "wait"}
PastRegister == Holding \cup {"queue", "done", "respawn", "gone"}
Frames(t) == {stk[t][n] : n \in 1..Len(stk[t])}

RunningIsOwned == \A c \in Conv : IsRunning(c) => OwnerOf(c) \in Run
CancelledIsPast == \A r \in cancelled : pc[r] \in PastRegister
VictimIsPast ==
  \A t \in Thread : \A f \in Frames(t) : f.phase \in Marked /\ f.victim \in Run =>
    pc[f.victim] \in PastRegister
VictimIsStopped ==
  \A t \in Thread : \A f \in Frames(t) : f.phase \in Marked =>
    \A c \in Conv : IsRunning(c) => OwnerOf(c) # f.victim
RunningIsUncancelled ==
  \A c \in Conv : IsRunning(c) => OwnerOf(c) \notin cancelled \/ pc[OwnerOf(c)] \in Ending

RegistryInv ==
  /\ SessionOwnerLive
  /\ RunningIsOwned
  /\ CancelledIsPast
  /\ VictimIsPast
  /\ VictimIsStopped
  /\ RunningIsUncancelled

\* A step that leaves owners, running flags and cancellations alone, moves runs
\* only forward and brings no other run's Stop past its marking.
PcForward ==
  \A r \in Run :
    /\ pc[r] \in Holding => pc'[r] \in Holding /\ ConvOf(r)' = ConvOf(r)
    /\ pc[r] \in Ending => pc'[r] \in Ending
    /\ pc[r] \in PastRegister => pc'[r] \in PastRegister
NoNewVictim ==
  \A t \in Thread : \A f \in Frames(t)' :
    \/ f.phase \notin Marked
    \/ \E g \in Frames(t) : g.phase \in Marked /\ g.victim = f.victim

LEMMA QuietStep ==
  ASSUME TypeInv, RegistryInv, SameRegistry, cancelled' = cancelled, PcForward, NoNewVictim
  PROVE  RegistryInv'
  <1>1. cancelled \subseteq Run /\ \A c \in Conv : OwnerOf(c) \in Run \cup {NoRun}
    BY SessionTypes DEF TypeInv, TypeOK
  <1>2. SessionOwnerLive'
    BY <1>1 DEF SameRegistry, PcForward, RegistryInv, SessionOwnerLive
  <1>3. RunningIsOwned'
    BY DEF SameRegistry, RegistryInv, RunningIsOwned
  <1>4. CancelledIsPast'
    BY <1>1 DEF PcForward, RegistryInv, CancelledIsPast
  <1>5. VictimIsPast'
    BY DEF PcForward, NoNewVictim, RegistryInv, VictimIsPast
  <1>6. VictimIsStopped'
    BY DEF SameRegistry, NoNewVictim, RegistryInv, VictimIsStopped
  <1>7. RunningIsUncancelled'
    BY DEF SameRegistry, PcForward, RegistryInv, RunningIsUncancelled, RunningIsOwned
  <1> QED
    BY <1>2, <1>3, <1>4, <1>5, <1>6, <1>7 DEF RegistryInv

\* The frames a step of Stop leaves on the stacks.
LEMMA BecomesFrames ==
  ASSUME stk \in [Thread -> Seq(Frame)], NEW t \in Thread, NEW frames \in Seq(Frame),
         stk[t] # <<>>, Becomes(t, frames), NEW u \in Thread, NEW f \in Frames(u)'
  PROVE  f \in Frames(u) \/ \E n \in 1..Len(frames) : f = frames[n]
  <1>1. CASE u # t
    BY <1>1 DEF Becomes, Frames
  <1>2. CASE u = t
    <2> DEFINE tail == Tail(stk[t])
    <2>1. /\ tail \in Seq(Frame) /\ Len(tail) = Len(stk[t]) - 1
          /\ \A i \in 1..Len(tail) : tail[i] = stk[t][i + 1]
          /\ Len(stk[t]) \in Nat
      BY HeadTailProperties
    <2>2. stk'[t] = frames \o tail
      BY DEF Becomes
    <2> HIDE DEF tail
    <2>3. /\ Len(frames \o tail) = Len(frames) + Len(tail)
          /\ \A i \in 1..(Len(frames) + Len(tail)) :
               (frames \o tail)[i] = IF i <= Len(frames) THEN frames[i]
                                     ELSE tail[i - Len(frames)]
      BY <2>1, ConcatProperties
    <2>4. PICK n \in 1..(Len(frames) + Len(tail)) : f = (frames \o tail)[n]
      BY <1>2, <2>2, <2>3 DEF Frames
    <2>5. Len(frames) \in Nat /\ Len(tail) \in Nat
      BY <2>1
    <2>6. CASE n <= Len(frames)
      BY <2>3, <2>4, <2>5, <2>6
    <2>7. CASE ~(n <= Len(frames))
      <3>1. n - Len(frames) \in 1..Len(tail) /\ f = tail[n - Len(frames)]
        BY <2>3, <2>4, <2>5, <2>7
      <3> DEFINE i == n - Len(frames)
      <3>2. i \in 1..Len(tail) /\ f = tail[i]
        BY <3>1
      <3> HIDE DEF i
      <3>3. i + 1 \in 1..Len(stk[t]) /\ f = stk[t][i + 1]
        BY <2>1, <3>2
      <3> QED
        BY <1>2, <3>3 DEF Frames
    <2> QED
      BY <2>6, <2>7
  <1> QED
    BY <1>1, <1>2

LEMMA SameSessions == sessions' = sessions => SameRegistry
  BY DEF SameRegistry, OwnerOf, IsRunning, HasSession

LEMMA SameStacks == stk' = stk => NoNewVictim
  BY DEF NoNewVictim, Frames

LEMMA NewStack ==
  ASSUME stk \in [Thread -> Seq(Frame)], NEW t \in Thread, NEW c,
         stk' = [stk EXCEPT ![t] = <<Call(c)>>]
  PROVE  NoNewVictim
  BY DEF NoNewVictim, Frames, Call, Marked

LEMMA StepsOfUsers ==
  ASSUME TypeInv, RegistryInv,
         \/ UserStep
         \/ \E m \in Msg : SendStep(m)
         \/ \E i \in Interrupt : ResumeStep(i)
  PROVE  RegistryInv'
  <1>1. /\ pc \in [Run -> Pcs] /\ job \in [Run -> Job]
        /\ stk \in [Thread -> Seq(Frame)] /\ SessionTypeOK
        /\ \A i \in Interrupt : ask[i] # "none" => askConv[i] \in Conv
    BY DEF TypeInv, TypeOK, Locals, AskedSomewhere
  <1>2. pc' = pc /\ job' = job => PcForward
    BY DEF PcForward, ConvOf
  <1>3. ASSUME NEW r \in Run, NEW c, NEW text, NEW parent, Spawn(r, c, text, parent)
        PROVE  PcForward
    BY <1>1, <1>3 DEF Spawn, Goto, PcForward, ConvOf, PastRegister, Holding, Starting, Ending
  <1>4. ASSUME NEW m \in Msg, Store(m) \/ FindRunning(m) \/ EnqueueMessage(m)
        PROVE  RegistryInv'
    BY <1>2, <1>4, QuietStep, SameSessions, SameStacks DEF Store, FindRunning,
       EnqueueMessage, jobVars
  <1>5. ASSUME NEW m \in Msg, NEW r \in Run, StartRun(m, r) \/ StartSubAgent(m, r)
        PROVE  RegistryInv'
    BY <1>3, <1>5, QuietStep, SameSessions, SameStacks DEF StartRun, StartSubAgent
  <1>6. ASSUME NEW i \in Interrupt, Answer(i) \/ AnswerReloadFails(i) \/ ResumeClearsDb(i)
        PROVE  RegistryInv'
    BY <1>2, <1>6, QuietStep, SameSessions, SameStacks DEF Answer, AnswerReloadFails,
       ResumeClearsDb, jobVars
  <1>7. ASSUME NEW i \in Interrupt, ResumeSetsParams(i) \/ ResumeSetsCheckpoint(i)
        PROVE  RegistryInv'
    <2>1. SameRegistry
      BY <1>1, <1>7, SetParamsEffect, CheckpointEffect DEF ResumeSetsParams,
         ResumeSetsCheckpoint
    <2> QED
      BY <1>2, <1>7, <2>1, QuietStep, SameStacks DEF ResumeSetsParams,
         ResumeSetsCheckpoint, jobVars
  <1>8. ASSUME NEW i \in Interrupt, NEW r \in Run, ResumeStartsRun(i, r)
        PROVE  RegistryInv'
    BY <1>3, <1>8, QuietStep, SameSessions, SameStacks DEF ResumeStartsRun
  <1>9. ASSUME NEW s \in StopReq, NEW c \in Conv, RequestStop(s, c)
        PROVE  RegistryInv'
    <2>1. NoNewVictim
      BY <1>1, <1>9, NewStack DEF RequestStop, Thread
    <2> QED
      BY <1>2, <1>9, <2>1, QuietStep, SameSessions DEF RequestStop, jobVars
  <1> QED
    BY <1>4, <1>5, <1>6, <1>7, <1>8, <1>9 DEF UserStep, SendStep, ResumeStep

LEMMA StepsOfLoop ==
  ASSUME TypeInv, RegistryInv, NEW r \in Run, LoopStep(r)
  PROVE  RegistryInv'
  <1>1. /\ pc \in [Run -> Pcs] /\ job \in [Run -> Job]
        /\ stk \in [Thread -> Seq(Frame)] /\ SessionTypeOK
        /\ ConvOf(r) \in Conv
    BY ConvOfType DEF TypeInv, TypeOK
  <1>2. pc' = pc /\ job' = job => PcForward
    BY DEF PcForward, ConvOf
  <1>3. CASE CallModel(r) \/ Overflow(r) \/ Requeue(r) \/ CompressFails(r)
    BY <1>2, <1>3, QuietStep, SameSessions, SameStacks DEF CallModel, Overflow, Requeue,
       CompressFails, jobVars
  <1>4. CASE FinishLoop(r) \/ FailLoop(r) \/ PersistCheckpoint(r) \/ PublishInterrupt(r)
    BY <1>2, <1>4, QuietStep, SameSessions, SameStacks DEF FinishLoop, FailLoop,
       PersistCheckpoint, PublishInterrupt, jobVars
  <1>5. ASSUME NEW q \in Run, Restart(r, q) PROVE RegistryInv'
    <2>1. PcForward
      BY <1>1, <1>5 DEF Restart, Goto, PcForward, ConvOf, PastRegister, Holding, Starting, Ending
    <2>2. NoNewVictim
      BY <1>1, <1>5, NewStack DEF Restart, Thread
    <2> QED
      BY <1>5, <2>1, <2>2, QuietStep, SameSessions DEF Restart
  <1>6. ASSUME NEW i \in Interrupt, RaiseInterrupt(r, i) PROVE RegistryInv'
    <2>1. SameRegistry
      BY <1>1, <1>6, CheckpointEffect DEF RaiseInterrupt
    <2> QED
      BY <1>2, <1>6, <2>1, QuietStep, SameStacks DEF RaiseInterrupt
  <1> QED
    BY <1>3, <1>4, <1>5, <1>6 DEF LoopStep

LEMMA FramesAfterStep ==
  ASSUME stk \in [Thread -> Seq(Frame)], NEW t \in Thread, stk[t] # <<>>,
         NEW f \in Frame, NEW g \in Frame,
         Becomes(t, <<>>) \/ Becomes(t, <<f>>) \/ Becomes(t, <<f, g>>)
  PROVE  \A u \in Thread : \A h \in Frames(u)' : h \in Frames(u) \/ h = f \/ h = g
  <1>2. CASE Becomes(t, <<>>)
    <2>1. <<>> \in Seq(Frame) /\ \A n \in 1..Len(<<>>) : FALSE
      OBVIOUS
    <2> QED
      BY <1>2, <2>1, BecomesFrames
  <1>3. CASE Becomes(t, <<f>>)
    <2>1. <<f>> \in Seq(Frame)
      OBVIOUS
    <2>2. \A n \in 1..Len(<<f>>) : <<f>>[n] = f
      OBVIOUS
    <2> QED
      BY <1>3, <2>1, <2>2, BecomesFrames
  <1>4. CASE Becomes(t, <<f, g>>)
    <2>1. <<f, g>> \in Seq(Frame)
      OBVIOUS
    <2>2. \A n \in 1..Len(<<f, g>>) : <<f, g>>[n] = f \/ <<f, g>>[n] = g
      <3>1. Len(<<f, g>>) = 2 /\ <<f, g>>[1] = f /\ <<f, g>>[2] = g
        OBVIOUS
      <3>2. \A n \in 1..2 : n = 1 \/ n = 2
        OBVIOUS
      <3> QED
        BY <3>1, <3>2
    <2> DEFINE frames == <<f, g>>
    <2>3. /\ frames \in Seq(Frame) /\ Becomes(t, frames)
          /\ \A n \in 1..Len(frames) : frames[n] = f \/ frames[n] = g
      BY <1>4, <2>1, <2>2
    <2> HIDE DEF frames
    <2> QED
      BY <2>3, BecomesFrames
  <1> QED
    BY <1>2, <1>3, <1>4

LEMMA TopInFrames ==
  ASSUME stk \in [Thread -> Seq(Frame)], NEW t \in Thread, NEW phase, Active(t, phase)
  PROVE  Top(t) \in Frames(t)
  <1>1. stk[t] \in Seq(Frame) /\ stk[t] # <<>>
    BY DEF Active
  <1>2. Len(stk[t]) \in Nat \ {0} /\ Head(stk[t]) = stk[t][1]
    BY <1>1, EmptySeq
  <1> QED
    BY <1>2 DEF Frames, Top

LEMMA StepsOfStop ==
  ASSUME TypeInv, RegistryInv, NEW t \in Thread, StopStep(t)
  PROVE  RegistryInv'
  <1>1. stk \in [Thread -> Seq(Frame)] /\ SessionTypeOK
    BY DEF TypeInv, TypeOK
  <1>2. pc' = pc /\ job' = job => PcForward
    BY DEF PcForward, ConvOf
  <1>3. ASSUME NEW f \in Frame, NEW g \in Frame, stk[t] # <<>>,
               f.phase \notin Marked, g.phase \notin Marked,
               Becomes(t, <<>>) \/ Becomes(t, <<f>>) \/ Becomes(t, <<f, g>>)
        PROVE  NoNewVictim
    <2>1. \A u \in Thread : \A h \in Frames(u)' : h \in Frames(u) \/ h = f \/ h = g
      BY <1>1, <1>3, FramesAfterStep
    <2> QED
      BY <1>3, <2>1 DEF NoNewVictim
  <1>4. CASE CollectChildren(t)
    <2>1. Top(t) \in Frame /\ Top(t).conv \in Conv /\ stk[t] # <<>>
      BY <1>1, <1>4, TopType DEF CollectChildren, Frame
    <2> DEFINE f == [Top(t) EXCEPT !.phase = "kids", !.kids = ChildrenOf(Top(t).conv)]
    <2>2. ChildrenOf(Top(t).conv) \in SUBSET Conv
      BY <1>1, <2>1, SessionTypes
    <2>3. f \in Frame /\ f.phase = "kids"
      BY <2>1, <2>2 DEF Frame
    <2>4. Becomes(t, <<f>>)
      BY <1>4 DEF CollectChildren
    <2> HIDE DEF f
    <2>5. NoNewVictim
      BY <1>3, <2>1, <2>3, <2>4 DEF Marked
    <2> QED
      BY <1>2, <1>4, <2>5, QuietStep, SameSessions DEF CollectChildren, jobVars
  <1>5. ASSUME NEW k \in Conv, StopChild(t, k) PROVE RegistryInv'
    <2>1. Top(t) \in Frame /\ Top(t).phase = "kids" /\ stk[t] # <<>>
      BY <1>1, <1>5, TopType DEF StopChild
    <2> DEFINE f == [Top(t) EXCEPT !.kids = @ \ {k}]
               g == Call(k)
    <2>2. f \in Frame /\ f.phase = "kids" /\ g \in Frame /\ g.phase = "collect"
      BY <2>1, CallType DEF Frame, Call
    <2>3. Becomes(t, <<g, f>>)
      BY <1>5 DEF StopChild
    <2> HIDE DEF f, g
    <2>4. NoNewVictim
      BY <1>3, <2>1, <2>2, <2>3 DEF Marked
    <2> QED
      BY <1>2, <1>5, <2>4, QuietStep, SameSessions DEF StopChild, jobVars
  <1>6. CASE ReturnFromStop(t)
    <2>1. stk[t] # <<>> /\ Becomes(t, <<>>) /\ Top(t) \in Frame /\ Top(t) \in Frames(t)
      BY <1>1, <1>6, TopType, TopInFrames DEF ReturnFromStop
    <2>3. \A u \in Thread : \A h \in Frames(u)' : h \in Frames(u) \/ h = Top(t)
      BY <1>1, <2>1, FramesAfterStep
    <2>4. \A h \in Frames(t)' : h \in Frames(t)
      BY <2>1, <2>3
    <2>5. \A u \in Thread : u # t => Frames(u)' = Frames(u)
      BY <1>1, <2>1 DEF Becomes, Frames
    <2>2. NoNewVictim
      BY <2>4, <2>5 DEF NoNewVictim
    <2> QED
      BY <1>2, <1>6, <2>2, QuietStep, SameSessions DEF ReturnFromStop, jobVars
  <1>7. CASE CancelVictim(t)
    <2> DEFINE v == Top(t).victim
               f == [Top(t) EXCEPT !.phase = "wait"]
    <2>1. /\ Top(t) \in Frame /\ Top(t).phase = "cancel" /\ stk[t] # <<>>
          /\ Top(t) \in Frames(t)
      BY <1>1, <1>7, TopType, TopInFrames DEF CancelVictim
    <2>2. f \in Frame /\ f.phase = "wait"
      BY <2>1 DEF Frame
    <2>3. /\ Becomes(t, <<f>>) /\ cancelled' = cancelled \cup ({v} \cap Run)
          /\ sessions' = sessions /\ pc' = pc /\ job' = job
      BY <1>7 DEF CancelVictim, jobVars
    <2>4. v \in Run => pc[v] \in PastRegister
      BY <2>1 DEF RegistryInv, VictimIsPast, Marked
    <2>5. \A c \in Conv : IsRunning(c) => OwnerOf(c) # v
      BY <2>1 DEF RegistryInv, VictimIsStopped, Marked
    <2>11. f.victim = v /\ Top(t).victim = v
      BY <2>1 DEF Frame
    <2>12. \A u \in Thread : u # t => Frames(u)' = Frames(u)
      BY <1>1, <2>3 DEF Becomes, Frames
    <2> HIDE DEF f, v
    <2>13. \A u \in Thread : \A h \in Frames(u)' : h \in Frames(u) \/ h = f
      BY <1>1, <2>1, <2>2, <2>3, FramesAfterStep
    <2>14. \A h \in Frames(t)' :
             \/ h \in Frames(t)
             \/ \E g \in Frames(t) : g.phase \in Marked /\ g.victim = h.victim
      BY <2>1, <2>11, <2>13 DEF Marked
    <2>6. NoNewVictim /\ SameRegistry
      BY <2>3, <2>12, <2>14, SameSessions DEF NoNewVictim
    <2>7. SessionOwnerLive' /\ RunningIsOwned'
      BY <2>3, <2>6 DEF RegistryInv, SameRegistry, SessionOwnerLive, RunningIsOwned, ConvOf
    <2>8. CancelledIsPast'
      BY <2>3, <2>4 DEF RegistryInv, CancelledIsPast
    <2>9. VictimIsPast' /\ VictimIsStopped'
      BY <2>3, <2>6 DEF RegistryInv, SameRegistry, NoNewVictim, VictimIsPast, VictimIsStopped
    <2>10. RunningIsUncancelled'
      BY <2>3, <2>5, <2>6 DEF RegistryInv, SameRegistry, RunningIsUncancelled
    <2> QED
      BY <2>7, <2>8, <2>9, <2>10 DEF RegistryInv
  <1>8. CASE StopSession(t)
    <2> DEFINE c == Top(t).conv
               f == [Top(t) EXCEPT !.phase = "cancel", !.victim = OwnerOf(c)]
    <2>1. Top(t) \in Frame /\ c \in Conv /\ stk[t] # <<>>
      BY <1>1, <1>8, TopType DEF StopSession, Frame
    <2>2. f \in Frame /\ f.victim = OwnerOf(c)
      BY <1>1, <2>1, SessionTypes DEF Frame
    <2>3. Becomes(t, <<f>>) \/ Becomes(t, <<>>)
      BY <1>8 DEF StopSession
    <2>4. /\ cancelled' = cancelled /\ pc' = pc /\ job' = job
          /\ MarkStopped(c)
      BY <1>8 DEF StopSession, jobVars
    <2> HIDE DEF f, c
    <2>5. \A k \in Conv : OwnerOf(k)' = OwnerOf(k) /\ IsRunning(k)' = (k # c /\ IsRunning(k))
      BY <1>1, <2>1, <2>4, MarkStoppedEffect
    <2>6. \A u \in Thread : \A g \in Frames(u)' : g \in Frames(u) \/ g = f
      BY <1>1, <2>1, <2>2, <2>3, FramesAfterStep
    <2>7. SessionOwnerLive' /\ RunningIsOwned' /\ CancelledIsPast' /\ RunningIsUncancelled'
      BY <2>4, <2>5 DEF RegistryInv, SessionOwnerLive, RunningIsOwned, CancelledIsPast,
         RunningIsUncancelled, ConvOf
    <2>8. OwnerOf(c) \in Run => pc[OwnerOf(c)] \in Holding
      BY <2>1, SessionConstants DEF RegistryInv, SessionOwnerLive
    <2>9. VictimIsPast'
      BY <2>2, <2>4, <2>6, <2>8 DEF RegistryInv, VictimIsPast, PastRegister
    <2>10. ASSUME NEW k \in Conv, k # c, IsRunning(k) PROVE OwnerOf(k) # OwnerOf(c)
      BY <2>1, <2>10, SessionConstants DEF RegistryInv, SessionOwnerLive, RunningIsOwned
    <2>11. VictimIsStopped'
      BY <2>2, <2>5, <2>6, <2>10 DEF RegistryInv, VictimIsStopped
    <2> QED
      BY <2>7, <2>9, <2>11 DEF RegistryInv
  <1> QED
    BY <1>4, <1>5, <1>6, <1>7, <1>8 DEF StopStep

LEMMA StepsOfOuter ==
  ASSUME TypeInv, RegistryInv, NEW r \in Run, OuterStep(r)
  PROVE  RegistryInv'
  <1>1. /\ pc \in [Run -> Pcs] /\ job \in [Run -> Job] /\ cancelled \subseteq Run
        /\ SessionTypeOK /\ ConvOf(r) \in Conv
    BY ConvOfType DEF TypeInv, TypeOK
  <1>2. ASSUME NEW x \in {"register", "refused", "gone", "haltDrop", "haltClear", "load",
                          "checkpoint", "history", "choose", "consume", "wait",
                          "session", "done", "respawn"},
               Goto(r, x), job' = job,
               pc[r] \in Holding => x \in Holding,
               pc[r] \in Ending => x \in Ending,
               pc[r] \in PastRegister => x \in PastRegister
        PROVE  PcForward
    BY <1>1, <1>2 DEF PcForward, Goto, ConvOf
  <1> USE DEF PastRegister, Holding, Starting, Ending
  <1>3. CASE \/ LoadConversation(r) \/ LoadConversationFails(r) \/ TryStartFails(r)
             \/ BuildRunner(r) \/ ReadCheckpoint(r) \/ LoadHistory(r)
    <2>1. PcForward
      BY <1>2, <1>3 DEF LoadConversation, LoadConversationFails, TryStartFails,
         BuildRunner, ReadCheckpoint, LoadHistory, jobVars
    <2> QED
      BY <1>3, <2>1, QuietStep, SameSessions, SameStacks DEF LoadConversation,
         LoadConversationFails, TryStartFails, BuildRunner, ReadCheckpoint, LoadHistory
  <1>4. CASE RunFresh(r) \/ ResumeWithoutAnswer(r) \/ TakeAnswer(r)
    <2>1. PcForward
      BY <1>2, <1>4 DEF RunFresh, ResumeWithoutAnswer, TakeAnswer, jobVars
    <2> QED
      BY <1>4, <2>1, QuietStep, SameSessions, SameStacks DEF RunFresh,
         ResumeWithoutAnswer, TakeAnswer
  <1>5. CASE ResumeWithAnswer(r)
    <2>1. PcForward
      BY <1>2, <1>5 DEF ResumeWithAnswer
    <2>2. SameRegistry
      BY <1>1, <1>5, CheckpointEffect DEF ResumeWithAnswer
    <2> QED
      BY <1>5, <2>1, <2>2, QuietStep, SameStacks DEF ResumeWithAnswer
  <1>6. CASE CheckPending(r) \/ CleanupQueue(r) \/ SignalDone(r) \/ HaltReturns(r)
    <2>1. PcForward
      BY <1>2, <1>6 DEF CheckPending, CleanupQueue, SignalDone, HaltReturns, jobVars
    <2> QED
      BY <1>6, <2>1, QuietStep, SameSessions, SameStacks DEF CheckPending, CleanupQueue,
         SignalDone, Done, HaltReturns
  <1>7. CASE HaltClearsCheckpoint(r)
    <2>1. PcForward
      BY <1>2, <1>7 DEF HaltClearsCheckpoint, jobVars
    <2>2. SameRegistry
      BY <1>1, <1>7, CheckpointEffect DEF HaltClearsCheckpoint
    <2> QED
      BY <1>7, <2>1, <2>2, QuietStep, SameStacks DEF HaltClearsCheckpoint
  <1>8. ASSUME NEW q \in Run, Respawn(r, q) PROVE RegistryInv'
    <2>1. PcForward
      BY <1>1, <1>8 DEF Respawn, PcForward, ConvOf
    <2> QED
      BY <1>8, <2>1, QuietStep, SameSessions, SameStacks DEF Respawn
  <1>9. CASE TryStart(r)
    <2>1. /\ pc[r] = "register" /\ pc' = [pc EXCEPT ![r] = "build"]
          /\ job' = job /\ cancelled' = cancelled /\ stk' = stk
      BY <1>9 DEF TryStart, Goto, jobVars
    <2>2. \A k \in Conv : /\ OwnerOf(k)' = IF k = ConvOf(r) THEN r ELSE OwnerOf(k)
                          /\ IsRunning(k)' = (k = ConvOf(r) \/ IsRunning(k))
      <3>1. job[r].parent \in Conv \cup {NoConv}
        BY <1>1 DEF Job
      <3> QED
        BY <1>1, <1>9, <3>1, RegisterEffect DEF TryStart
    <2>3. r \notin cancelled /\ \A k \in Conv : OwnerOf(k) # r
      BY <2>1, SessionConstants DEF RegistryInv, CancelledIsPast, SessionOwnerLive
    <2>4. SessionOwnerLive'
      BY <1>1, <2>1, <2>2, <2>3 DEF RegistryInv, SessionOwnerLive, ConvOf
    <2>5. RunningIsOwned' /\ CancelledIsPast'
      BY <1>1, <2>1, <2>2 DEF RegistryInv, RunningIsOwned, CancelledIsPast
    <2>6. VictimIsPast'
      BY <1>1, <2>1 DEF RegistryInv, VictimIsPast, Frames
    <2>7. VictimIsStopped'
      <3>1. ASSUME NEW t \in Thread, NEW f \in Frames(t), f.phase \in Marked
            PROVE  f.victim # r
        BY <2>1, <3>1 DEF RegistryInv, VictimIsPast, Marked
      <3> QED
        BY <2>1, <2>2, <3>1 DEF RegistryInv, VictimIsStopped, Frames
    <2>8. RunningIsUncancelled'
      BY <1>1, <2>1, <2>2, <2>3 DEF RegistryInv, RunningIsUncancelled, RunningIsOwned
    <2> QED
      BY <2>4, <2>5, <2>6, <2>7, <2>8 DEF RegistryInv
  <1>10. CASE EnqueueRefused(r) \/ BuildRunnerFails(r) \/ LoopClosed(r) \/ LoopTimesOut(r)
    <2>1. /\ SameRegistry /\ NoNewVictim /\ job' = job /\ cancelled' = cancelled \cup {r}
          /\ \/ pc[r] = "refused" /\ pc' = [pc EXCEPT ![r] = "gone"]
             \/ pc[r] = "build" /\ pc' = [pc EXCEPT ![r] = "unbuilt"]
             \/ pc[r] = "wait" /\ pc' = [pc EXCEPT ![r] = "pending"]
      BY <1>10, SameSessions, SameStacks DEF EnqueueRefused, BuildRunnerFails, LoopClosed,
         LoopTimesOut, LeaveWait, Goto, jobVars
    <2>2. PcForward
      BY <1>1, <2>1 DEF PcForward, ConvOf
    <2>3. SessionOwnerLive' /\ RunningIsOwned'
      BY <1>1, <2>1, <2>2, SessionTypes DEF SameRegistry, PcForward, RegistryInv,
         SessionOwnerLive, RunningIsOwned
    <2>4. CancelledIsPast' /\ VictimIsPast' /\ VictimIsStopped'
      BY <1>1, <2>1 DEF SameRegistry, NoNewVictim, RegistryInv, CancelledIsPast,
         VictimIsPast, VictimIsStopped
    <2>5. RunningIsUncancelled'
      <3>1. ASSUME NEW c \in Conv, IsRunning(c)
            PROVE  pc[OwnerOf(c)] \in Holding /\ OwnerOf(c) \in Run
        BY <3>1, SessionConstants DEF RegistryInv, SessionOwnerLive, RunningIsOwned
      <3> QED
        BY <1>1, <2>1, <3>1 DEF SameRegistry, RegistryInv, RunningIsUncancelled
    <2> QED
      BY <2>3, <2>4, <2>5 DEF RegistryInv
  <1>11. CASE CleanupUnbuilt(r) \/ CleanupSession(r) \/ HaltCleansUp(r)
    <2>1. /\ NoNewVictim /\ job' = job /\ Cleanup(ConvOf(r))
          /\ cancelled' = cancelled
          /\ \/ pc[r] = "unbuilt" /\ pc' = [pc EXCEPT ![r] = "gone"]
             \/ pc[r] = "session" /\ pc' = [pc EXCEPT ![r] = "queue"]
             \/ pc[r] = "haltDrop" /\ pc' = [pc EXCEPT ![r] = "haltClear"]
      BY <1>11, SameStacks DEF CleanupUnbuilt, CleanupSession, HaltCleansUp, Goto, jobVars
    <2>2. \A k \in Conv : /\ OwnerOf(k)' = IF k = ConvOf(r) THEN NoRun ELSE OwnerOf(k)
                          /\ IsRunning(k)' = (k # ConvOf(r) /\ IsRunning(k))
      BY <1>1, <2>1, CleanupEffect
    <2>3. \A k \in Conv : k # ConvOf(r) => OwnerOf(k) # r
      BY SessionConstants DEF RegistryInv, SessionOwnerLive
    <2>4. SessionOwnerLive' /\ RunningIsOwned'
      <3>1. \A q \in Run : ConvOf(q)' = ConvOf(q)
        BY <2>1 DEF ConvOf
      <3>2. \A k \in Conv : OwnerOf(k) \in Run \cup {NoRun}
        BY <1>1, SessionTypes
      <3>3. \A q \in Run : q # r => pc'[q] = pc[q]
        BY <1>1, <2>1
      <3>4. SessionOwnerLive'
        BY <2>2, <2>3, <3>1, <3>2, <3>3 DEF RegistryInv, SessionOwnerLive
      <3> QED
        BY <2>2, <3>4 DEF RegistryInv, RunningIsOwned
    <2>5. CancelledIsPast' /\ VictimIsPast'
      BY <1>1, <2>1 DEF NoNewVictim, RegistryInv, CancelledIsPast, VictimIsPast
    <2>6. VictimIsStopped'
      <3>1. ASSUME NEW t \in Thread, NEW f \in Frames(t)', f.phase \in Marked,
                   NEW c \in Conv, IsRunning(c)'
            PROVE  OwnerOf(c)' # f.victim
        <4>1. PICK g \in Frames(t) : g.phase \in Marked /\ g.victim = f.victim
          BY <2>1, <3>1 DEF NoNewVictim
        <4>2. IsRunning(c) /\ OwnerOf(c)' = OwnerOf(c)
          BY <2>2, <3>1
        <4> QED
          BY <4>1, <4>2 DEF RegistryInv, VictimIsStopped
      <3> QED
        BY <3>1 DEF VictimIsStopped
    <2>7. RunningIsUncancelled'
      BY <1>1, <2>1, <2>2, <2>3 DEF RegistryInv, RunningIsUncancelled, RunningIsOwned
    <2> QED
      BY <2>4, <2>5, <2>6, <2>7 DEF RegistryInv
  <1> QED
    BY <1>3, <1>4, <1>5, <1>6, <1>7, <1>8, <1>9, <1>10, <1>11 DEF OuterStep

LEMMA InitRegistry == Init => RegistryInv
  <1> SUFFICES ASSUME Init PROVE RegistryInv
    OBVIOUS
  <1>1. \A c \in Conv : OwnerOf(c) = NoRun /\ ~IsRunning(c)
    BY DEF Init, SessionInit, OwnerOf, IsRunning, HasSession
  <1>2. \A t \in Thread : Frames(t) = {}
    <2>1. \A t \in Thread : stk[t] = <<>> /\ Len(<<>>) = 0
      BY DEF Init
    <2> QED
      BY <2>1 DEF Frames
  <1>3. cancelled = {}
    BY DEF Init
  <1> QED
    BY <1>1, <1>2, <1>3 DEF RegistryInv, SessionOwnerLive, RunningIsOwned, CancelledIsPast,
       VictimIsPast, VictimIsStopped, RunningIsUncancelled

LEMMA RegistryInvariance == Spec => []RegistryInv
  <1>1. Init => RegistryInv
    BY InitRegistry
  <1>2. TypeInv /\ RegistryInv /\ [Next]_vars => RegistryInv'
    <2> SUFFICES ASSUME TypeInv, RegistryInv, [Next]_vars PROVE RegistryInv'
      OBVIOUS
    <2>1. CASE UNCHANGED vars
      <3>1. SameRegistry /\ NoNewVictim /\ cancelled' = cancelled
        BY <2>1, SameSessions, SameStacks DEF vars
      <3>2. PcForward
        BY <2>1 DEF vars, PcForward, ConvOf
      <3> QED
        BY <3>1, <3>2, QuietStep
    <2> QED
      BY <2>1, StepsOfUsers, StepsOfOuter, StepsOfLoop, StepsOfStop DEF Next
  <1> QED
    BY <1>1, <1>2, TypeInvariance, PTL DEF Spec

\* Whatever is stopped, fails, overflows or times out, a session in the map
\* belongs to a run of its conversation that will still remove it: no
\* conversation is left refusing every later run.
THEOREM NoSessionIsLeftBehind == Spec => []SessionOwnerLive
  <1>1. RegistryInv => SessionOwnerLive
    BY DEF RegistryInv
  <1> QED
    BY <1>1, RegistryInvariance, PTL

\* From the moment Stop has marked a session, before it has cancelled the run
\* and while it waits for it, the registry reports that run to nobody; nor does
\* it report a run that is cancelled and not ending by itself.
THEOREM StoppedIsNotRunning == Spec => []RunningIsNotStopped
  <1>1. TypeInv /\ RegistryInv => RunningIsNotStopped
    <2> SUFFICES ASSUME TypeInv, RegistryInv PROVE RunningIsNotStopped
      OBVIOUS
    <2>1. ASSUME NEW t \in Thread, NEW n \in DOMAIN stk[t] PROVE stk[t][n] \in Frames(t)
      <3>1. stk[t] \in Seq(Frame)
        BY DEF TypeInv, TypeOK
      <3> QED
        BY <2>1, <3>1 DEF Frames
    <2>2. ASSUME NEW c \in Conv, IsRunning(c), NEW t \in Thread, NEW n \in DOMAIN stk[t],
                 stk[t][n].phase \in {"cancel", "wait"}
          PROVE  stk[t][n].victim # OwnerOf(c)
      BY <2>1, <2>2 DEF RegistryInv, VictimIsStopped, Marked
    <2> QED
      BY <2>2 DEF RegistryInv, RunningIsUncancelled, RunningIsNotStopped
  <1> QED
    BY <1>1, TypeInvariance, RegistryInvariance, PTL

-----------------------------------------------------------------------------
(* Mutual exclusion, when nobody stops a run and none overflows or times   *)
(* out: the registry is a lock.                                            *)

Undisturbed == StopReq = {} /\ Overflows = FALSE /\ Timeouts = FALSE

\* The strengthening: a run between TryStart and Cleanup is the registered one.
HolderOwns ==
  \A r \in Run : pc[r] \in Holding =>
    OwnerOf(ConvOf(r)) = r /\ IsRunning(ConvOf(r))
WorkerWaits == \A r \in Run : loop[r] \in Working => pc[r] = "wait"
NobodyStops ==
  /\ \A t \in Thread : stk[t] = <<>>
  /\ \A r \in Run : /\ pc[r] \notin {"halt", "haltDrop", "haltClear"}
                    /\ loop[r] \notin {"overflow", "compress", "returned"}

LockInv == HolderOwns /\ WorkerWaits /\ NobodyStops

\* A step that leaves the registry alone and takes no run into Holding.
NoEntry ==
  \A r \in Run :
    /\ pc'[r] \in Holding => pc[r] \in Holding /\ ConvOf(r)' = ConvOf(r)
    /\ pc'[r] \notin {"halt", "haltDrop", "haltClear"}
    /\ loop'[r] \notin {"overflow", "compress", "returned"}
    /\ loop'[r] \in Working => pc'[r] = "wait"

LEMMA LockQuiet ==
  ASSUME TypeInv, LockInv, SameRegistry, stk' = stk, NoEntry
  PROVE  LockInv'
  <1>1. HolderOwns'
    BY ConvOfType DEF LockInv, HolderOwns, SameRegistry, NoEntry
  <1> QED
    BY <1>1 DEF LockInv, WorkerWaits, NobodyStops, NoEntry

LEMMA LockUsers ==
  ASSUME Undisturbed, TypeInv, LockInv,
         \/ UserStep
         \/ \E m \in Msg : SendStep(m)
         \/ \E i \in Interrupt : ResumeStep(i)
  PROVE  LockInv'
  <1>1. pc \in [Run -> Pcs] /\ job \in [Run -> Job] /\ SessionTypeOK
        /\ \A i \in Interrupt : ask[i] # "none" => askConv[i] \in Conv
    BY DEF TypeInv, TypeOK, Locals, AskedSomewhere
  <1>2. pc' = pc /\ job' = job /\ loop' = loop => NoEntry
    BY DEF NoEntry, ConvOf, LockInv, WorkerWaits, NobodyStops
  <1>3. ASSUME NEW r \in Run, NEW c, NEW text, NEW parent, Spawn(r, c, text, parent),
               loop' = loop
        PROVE  NoEntry
    BY <1>1, <1>3 DEF Spawn, Goto, NoEntry, ConvOf, LockInv, WorkerWaits, NobodyStops,
       Holding, Starting, Ending
  <1>4. ASSUME NEW m \in Msg, Store(m) \/ FindRunning(m) \/ EnqueueMessage(m)
        PROVE  LockInv'
    BY <1>2, <1>4, LockQuiet, SameSessions DEF Store, FindRunning, EnqueueMessage, jobVars
  <1>5. ASSUME NEW m \in Msg, NEW r \in Run, StartRun(m, r) \/ StartSubAgent(m, r)
        PROVE  LockInv'
    BY <1>3, <1>5, LockQuiet, SameSessions DEF StartRun, StartSubAgent
  <1>6. ASSUME NEW i \in Interrupt, Answer(i) \/ AnswerReloadFails(i) \/ ResumeClearsDb(i)
        PROVE  LockInv'
    BY <1>2, <1>6, LockQuiet, SameSessions DEF Answer, AnswerReloadFails, ResumeClearsDb,
       jobVars
  <1>7. ASSUME NEW i \in Interrupt, ResumeSetsParams(i) \/ ResumeSetsCheckpoint(i)
        PROVE  LockInv'
    <2>1. SameRegistry
      BY <1>1, <1>7, SetParamsEffect, CheckpointEffect DEF ResumeSetsParams,
         ResumeSetsCheckpoint
    <2> QED
      BY <1>2, <1>7, <2>1, LockQuiet DEF ResumeSetsParams, ResumeSetsCheckpoint, jobVars
  <1>8. ASSUME NEW i \in Interrupt, NEW r \in Run, ResumeStartsRun(i, r)
        PROVE  LockInv'
    BY <1>3, <1>8, LockQuiet, SameSessions DEF ResumeStartsRun
  <1> QED
    BY <1>4, <1>5, <1>6, <1>7, <1>8 DEF UserStep, SendStep, ResumeStep, Undisturbed

LEMMA LockLoop ==
  ASSUME Undisturbed, TypeInv, LockInv, NEW r \in Run, LoopStep(r)
  PROVE  LockInv'
  <1>1. pc \in [Run -> Pcs] /\ loop \in [Run -> Loops] /\ SessionTypeOK /\ ConvOf(r) \in Conv
    BY ConvOfType DEF TypeInv, TypeOK
  <1>2. ASSUME NEW x \in {"called", "closed", "raise", "publish"}, ToLoop(r, x),
               loop[r] \in Working, pc' = pc, job' = job
        PROVE  NoEntry
    BY <1>1, <1>2 DEF NoEntry, ToLoop, ConvOf, LockInv, WorkerWaits, NobodyStops
  <1>3. ~Overflow(r) /\ ~Requeue(r) /\ ~CompressFails(r) /\ \A q \in Run : ~Restart(r, q)
    BY DEF Undisturbed, LockInv, NobodyStops, Overflow, Requeue, CompressFails, Restart
  <1>4. CASE CallModel(r) \/ FinishLoop(r) \/ FailLoop(r)
    <2>1. NoEntry
      BY <1>2, <1>4 DEF CallModel, FinishLoop, FailLoop, Ready, Working, Loops, jobVars
    <2> QED
      BY <1>4, <2>1, LockQuiet, SameSessions DEF CallModel, FinishLoop, FailLoop
  <1>5. CASE PersistCheckpoint(r) \/ PublishInterrupt(r)
    <2>1. NoEntry
      BY <1>2, <1>5 DEF PersistCheckpoint, PublishInterrupt, Working, Loops, jobVars
    <2> QED
      BY <1>5, <2>1, LockQuiet, SameSessions DEF PersistCheckpoint, PublishInterrupt
  <1>6. ASSUME NEW i \in Interrupt, RaiseInterrupt(r, i) PROVE LockInv'
    <2>1. NoEntry
      BY <1>2, <1>6 DEF RaiseInterrupt, Working, Loops
    <2>2. SameRegistry
      BY <1>1, <1>6, CheckpointEffect DEF RaiseInterrupt
    <2> QED
      BY <1>6, <2>1, <2>2, LockQuiet DEF RaiseInterrupt
  <1> QED
    BY <1>3, <1>4, <1>5, <1>6 DEF LoopStep

LEMMA LockOuter ==
  ASSUME Undisturbed, TypeInv, RegistryInv, LockInv, NEW r \in Run, OuterStep(r)
  PROVE  LockInv'
  <1>1. /\ pc \in [Run -> Pcs] /\ loop \in [Run -> Loops] /\ job \in [Run -> Job]
        /\ SessionTypeOK /\ ConvOf(r) \in Conv
    BY ConvOfType DEF TypeInv, TypeOK
  <1> USE DEF Holding, Starting, Ending
  <1>2. ASSUME NEW x \in {"register", "refused", "gone", "load", "checkpoint", "history",
                          "choose", "consume", "unbuilt", "pending", "session", "done",
                          "respawn"},
               Goto(r, x), job' = job, loop' = loop,
               x \in Holding => pc[r] \in Holding,
               loop[r] \notin Working
        PROVE  NoEntry
    BY <1>1, <1>2 DEF NoEntry, Goto, ConvOf, LockInv, WorkerWaits, NobodyStops
  <1>3. pc[r] # "wait" => loop[r] \notin Working
    BY DEF LockInv, WorkerWaits
  <1>4. CASE \/ LoadConversation(r) \/ LoadConversationFails(r) \/ TryStartFails(r)
             \/ BuildRunner(r) \/ ReadCheckpoint(r) \/ LoadHistory(r)
    <2>1. NoEntry
      BY <1>2, <1>3, <1>4 DEF LoadConversation, LoadConversationFails, TryStartFails,
         BuildRunner, ReadCheckpoint, LoadHistory, jobVars
    <2> QED
      BY <1>4, <2>1, LockQuiet, SameSessions DEF LoadConversation,
         LoadConversationFails, TryStartFails, BuildRunner, ReadCheckpoint, LoadHistory
  <1>5. CASE RunFresh(r) \/ ResumeWithoutAnswer(r)
    <2>1. /\ pc[r] = "choose" /\ pc' = [pc EXCEPT ![r] = "wait"] /\ job' = job
          /\ \E x \in {"start", "resumed"} : loop' = [loop EXCEPT ![r] = x]
      BY <1>5 DEF RunFresh, ResumeWithoutAnswer, Goto, ToLoop, jobVars
    <2>2. NoEntry
      BY <1>1, <2>1 DEF NoEntry, ConvOf, LockInv, WorkerWaits, NobodyStops
    <2> QED
      BY <1>5, <2>2, LockQuiet, SameSessions DEF RunFresh, ResumeWithoutAnswer
  <1>6. CASE ResumeWithAnswer(r)
    <2>1. /\ pc[r] = "consume" /\ pc' = [pc EXCEPT ![r] = "wait"] /\ job' = job
          /\ \E x \in {"start", "resumed"} : loop' = [loop EXCEPT ![r] = x]
      BY <1>6 DEF ResumeWithAnswer, Goto, ToLoop
    <2>2. NoEntry
      BY <1>1, <2>1 DEF NoEntry, ConvOf, LockInv, WorkerWaits, NobodyStops
    <2>3. SameRegistry
      BY <1>1, <1>6, CheckpointEffect DEF ResumeWithAnswer
    <2> QED
      BY <1>6, <2>2, <2>3, LockQuiet DEF ResumeWithAnswer
  <1>7. CASE \/ TakeAnswer(r) \/ CheckPending(r) \/ CleanupQueue(r) \/ SignalDone(r)
             \/ EnqueueRefused(r) \/ BuildRunnerFails(r)
    <2>1. NoEntry
      BY <1>2, <1>3, <1>7 DEF TakeAnswer, CheckPending, CleanupQueue, SignalDone,
         EnqueueRefused, BuildRunnerFails, jobVars
    <2> QED
      BY <1>7, <2>1, LockQuiet, SameSessions DEF TakeAnswer, CheckPending, CleanupQueue,
         SignalDone, EnqueueRefused, BuildRunnerFails, Done
  <1>8. CASE LoopClosed(r) \/ LoopTimesOut(r)
    <2>1. loop[r] = "closed"
      BY <1>8 DEF LoopClosed, LoopTimesOut, Undisturbed, LockInv, NobodyStops
    <2>2. NoEntry
      BY <1>2, <1>8, <2>1 DEF LoopClosed, LoopTimesOut, LeaveWait, Working, jobVars
    <2> QED
      BY <1>8, <2>2, LockQuiet, SameSessions DEF LoopClosed, LoopTimesOut, LeaveWait
  <1>9. ASSUME NEW q \in Run, Respawn(r, q) PROVE LockInv'
    <2>1. NoEntry
      BY <1>1, <1>9 DEF Respawn, NoEntry, ConvOf, LockInv, WorkerWaits, NobodyStops
    <2> QED
      BY <1>9, <2>1, LockQuiet, SameSessions DEF Respawn
  <1>10. ~HaltReturns(r) /\ ~HaltCleansUp(r) /\ ~HaltClearsCheckpoint(r)
    BY DEF LockInv, NobodyStops, HaltReturns, HaltCleansUp, HaltClearsCheckpoint
  <1>11. CASE TryStart(r)
    <2>1. /\ pc[r] = "register" /\ pc' = [pc EXCEPT ![r] = "build"]
          /\ job' = job /\ loop' = loop /\ stk' = stk /\ ~IsRunning(ConvOf(r))
      BY <1>11 DEF TryStart, Register, Goto, jobVars
    <2>2. \A k \in Conv : /\ OwnerOf(k)' = IF k = ConvOf(r) THEN r ELSE OwnerOf(k)
                          /\ IsRunning(k)' = (k = ConvOf(r) \/ IsRunning(k))
      <3>1. job[r].parent \in Conv \cup {NoConv}
        BY <1>1 DEF Job
      <3> QED
        BY <1>1, <1>11, <3>1, RegisterEffect DEF TryStart
    <2>3. \A q \in Run : pc[q] \in Holding => ConvOf(q) # ConvOf(r)
      BY <2>1 DEF LockInv, HolderOwns
    <2>4. \A q \in Run : ConvOf(q) \in Conv /\ ConvOf(q)' = ConvOf(q)
      BY <2>1, ConvOfType DEF ConvOf
    <2>5. HolderOwns'
      BY <1>1, <2>1, <2>2, <2>3, <2>4 DEF LockInv, HolderOwns
    <2>6. WorkerWaits' /\ NobodyStops'
      BY <1>1, <1>3, <2>1 DEF LockInv, WorkerWaits, NobodyStops
    <2> QED
      BY <2>5, <2>6 DEF LockInv
  <1>12. CASE CleanupUnbuilt(r) \/ CleanupSession(r)
    <2>1. /\ job' = job /\ loop' = loop /\ stk' = stk /\ Cleanup(ConvOf(r))
          /\ \/ pc[r] = "unbuilt" /\ pc' = [pc EXCEPT ![r] = "gone"]
             \/ pc[r] = "session" /\ pc' = [pc EXCEPT ![r] = "queue"]
      BY <1>12 DEF CleanupUnbuilt, CleanupSession, Goto, jobVars
    <2>2. \A k \in Conv : /\ OwnerOf(k)' = IF k = ConvOf(r) THEN NoRun ELSE OwnerOf(k)
                          /\ IsRunning(k)' = (k # ConvOf(r) /\ IsRunning(k))
      BY <1>1, <2>1, CleanupEffect
    <2>3. \A q \in Run : pc[q] \in Holding /\ q # r => ConvOf(q) # ConvOf(r)
      BY <2>1 DEF LockInv, HolderOwns
    <2>4. \A q \in Run : ConvOf(q) \in Conv /\ ConvOf(q)' = ConvOf(q)
      BY <2>1, ConvOfType DEF ConvOf
    <2>5. HolderOwns'
      BY <1>1, <2>1, <2>2, <2>3, <2>4 DEF LockInv, HolderOwns
    <2>6. WorkerWaits' /\ NobodyStops'
      BY <1>1, <1>3, <2>1 DEF LockInv, WorkerWaits, NobodyStops
    <2> QED
      BY <2>5, <2>6 DEF LockInv
  <1> QED
    BY <1>4, <1>5, <1>6, <1>7, <1>8, <1>9, <1>10, <1>11, <1>12 DEF OuterStep

LEMMA LockStep ==
  ASSUME Undisturbed, TypeInv, RegistryInv, LockInv, [Next]_vars
  PROVE  LockInv'
  <1>1. \A t \in Thread : ~StopStep(t)
    BY DEF LockInv, NobodyStops, StopStep, CollectChildren, StopChild, StopSession,
           CancelVictim, ReturnFromStop, Active
  <1>2. CASE UNCHANGED vars
    <2>1. SameRegistry /\ stk' = stk
      BY <1>2, SameSessions DEF vars
    <2>2. NoEntry
      BY <1>2 DEF vars, NoEntry, ConvOf, LockInv, WorkerWaits, NobodyStops
    <2> QED
      BY <2>1, <2>2, LockQuiet
  <1> QED
    BY <1>1, <1>2, LockUsers, LockOuter, LockLoop DEF Next

LEMMA LockInvariance == Undisturbed => (Spec => []LockInv)
  <1> SUFFICES ASSUME Undisturbed PROVE Spec => []LockInv
    OBVIOUS
  <1>1. Init => LockInv
    BY DEF Init, LockInv, HolderOwns, WorkerWaits, NobodyStops, Holding, Starting, Ending, Working
  <1>2. TypeInv /\ RegistryInv /\ LockInv /\ [Next]_vars => LockInv'
    BY LockStep
  <1> QED
    BY <1>1, <1>2, TypeInvariance, RegistryInvariance, PTL DEF Spec

\* When nobody stops a run and none overflows or times out, at most one agent
\* works on a conversation, however messages and answers race.
THEOREM MutualExclusion == Undisturbed => (Spec => []Exclusive)
  <1>1. LockInv => Exclusive
    BY DEF LockInv, HolderOwns, WorkerWaits, Exclusive, Holding
  <1> QED
    BY <1>1, LockInvariance, PTL

-----------------------------------------------------------------------------
(* The runs implement a lock per conversation.                             *)

Holder == [c \in Conv |-> IF IsRunning(c) THEN OwnerOf(c) ELSE NoRun]
AtWork == {r \in Run : loop[r] \in Working}

LEMMA LockStutters ==
  ASSUME SameRegistry, AtWork' = AtWork
  PROVE  Lock!LockNext \/ UNCHANGED Lock!lockVars
  <1>1. Holder' = Holder
    BY DEF SameRegistry, Holder
  <1> QED
    BY <1>1 DEF Lock!lockVars, Holder, AtWork

LEMMA LockBegins ==
  ASSUME TypeInv, LockInv, SameRegistry, NEW r \in Run, pc[r] \in Holding,
         AtWork' = AtWork \cup {r}
  PROVE  Lock!LockNext
  <1>1. Holder' = Holder /\ ConvOf(r) \in Conv /\ Holder[ConvOf(r)] = r
    BY ConvOfType DEF SameRegistry, Holder, LockInv, HolderOwns
  <1>2. PICK c \in Conv : c = ConvOf(r)
    BY <1>1
  <1>3. Lock!Begin(c)
    BY <1>1, <1>2 DEF Lock!Begin, Holder, AtWork
  <1> QED
    BY <1>3 DEF Lock!LockNext

LEMMA LockEnds ==
  ASSUME SameRegistry, NEW r \in Run, AtWork' = AtWork \ {r}
  PROVE  Lock!LockNext
  <1>1. Holder' = Holder
    BY DEF SameRegistry, Holder
  <1>2. Lock!End(r)
    BY <1>1 DEF Lock!End, Holder, AtWork
  <1> QED
    BY <1>2 DEF Lock!LockNext

LEMMA LockAcquired ==
  ASSUME TypeInv, LockInv, NEW r \in Run, TryStart(r)
  PROVE  Lock!LockNext
  <1>1. /\ SessionTypeOK /\ ConvOf(r) \in Conv /\ job[r].parent \in Conv \cup {NoConv}
    BY ConvOfType DEF TypeInv, TypeOK, Job
  <1>2. \A k \in Conv : /\ OwnerOf(k)' = IF k = ConvOf(r) THEN r ELSE OwnerOf(k)
                        /\ IsRunning(k)' = (k = ConvOf(r) \/ IsRunning(k))
    BY <1>1, RegisterEffect DEF TryStart
  <1>3. Holder[ConvOf(r)] = NoRun /\ r \notin AtWork
    BY <1>1 DEF TryStart, Register, Holder, AtWork, LockInv, WorkerWaits
  <1>4. Holder' = [Holder EXCEPT ![ConvOf(r)] = r]
    BY <1>1, <1>2 DEF Holder
  <1>5. AtWork' = AtWork
    BY DEF TryStart, AtWork
  <1>6. Lock!Acquire(ConvOf(r), r)
    BY <1>3, <1>4, <1>5 DEF Lock!Acquire, Holder, AtWork
  <1> QED
    BY <1>1, <1>6 DEF Lock!LockNext

LEMMA LockReleased ==
  ASSUME TypeInv, LockInv, NEW r \in Run, CleanupUnbuilt(r) \/ CleanupSession(r)
  PROVE  Lock!LockNext
  <1>1. /\ SessionTypeOK /\ ConvOf(r) \in Conv /\ Cleanup(ConvOf(r))
        /\ pc[r] \in {"unbuilt", "session"} /\ loop' = loop
    BY ConvOfType DEF TypeInv, TypeOK, CleanupUnbuilt, CleanupSession
  <1>2. \A k \in Conv : /\ OwnerOf(k)' = IF k = ConvOf(r) THEN NoRun ELSE OwnerOf(k)
                        /\ IsRunning(k)' = (k # ConvOf(r) /\ IsRunning(k))
    BY <1>1, CleanupEffect
  <1>3. Holder[ConvOf(r)] = r /\ r \notin AtWork
    BY <1>1 DEF Holder, AtWork, LockInv, HolderOwns, WorkerWaits, Holding, Starting, Ending
  <1>4. Holder' = [Holder EXCEPT ![ConvOf(r)] = NoRun]
    BY <1>1, <1>2 DEF Holder
  <1>5. AtWork' = AtWork
    BY <1>1 DEF AtWork
  <1>6. Lock!Release(ConvOf(r))
    BY <1>3, <1>4, <1>5 DEF Lock!Release, Holder, AtWork
  <1> QED
    BY <1>1, <1>6 DEF Lock!LockNext

LEMMA LockUserStep ==
  ASSUME Undisturbed, TypeInv,
         \/ UserStep
         \/ \E m \in Msg : SendStep(m)
         \/ \E i \in Interrupt : ResumeStep(i)
         \/ UNCHANGED vars
  PROVE  Lock!LockNext \/ UNCHANGED Lock!lockVars
  <1>1. SessionTypeOK /\ \A i \in Interrupt : ask[i] # "none" => askConv[i] \in Conv
    BY DEF TypeInv, TypeOK, Locals, AskedSomewhere
  <1>2. loop' = loop => AtWork' = AtWork
    BY DEF AtWork
  <1>3. ASSUME NEW i \in Interrupt, ResumeStep(i)
        PROVE  SameRegistry /\ loop' = loop
    BY <1>1, <1>3, SameSessions, SetParamsEffect, CheckpointEffect DEF ResumeStep,
       AnswerReloadFails, ResumeClearsDb, ResumeSetsParams, ResumeSetsCheckpoint, ResumeStartsRun
  <1>4. ASSUME NEW m \in Msg, SendStep(m)
        PROVE  SameRegistry /\ loop' = loop
    BY <1>4, SameSessions DEF SendStep, FindRunning, EnqueueMessage, StartRun, StartSubAgent
  <1>5. ASSUME UserStep
        PROVE  SameRegistry /\ loop' = loop
    BY <1>5, SameSessions DEF UserStep, Store, Answer, Undisturbed
  <1>6. ASSUME UNCHANGED vars
        PROVE  SameRegistry /\ loop' = loop
    BY <1>6, SameSessions DEF vars
  <1> QED
    BY <1>2, <1>3, <1>4, <1>5, <1>6, LockStutters

LEMMA LockLoopStep ==
  ASSUME Undisturbed, TypeInv, LockInv, NEW r \in Run, LoopStep(r)
  PROVE  Lock!LockNext \/ UNCHANGED Lock!lockVars
  <1>1. loop \in [Run -> Loops] /\ SessionTypeOK /\ ConvOf(r) \in Conv
    BY ConvOfType DEF TypeInv, TypeOK
  <1>2. ~Overflow(r) /\ ~Requeue(r) /\ ~CompressFails(r) /\ \A q \in Run : ~Restart(r, q)
    BY DEF Undisturbed, LockInv, NobodyStops, Overflow, Requeue, CompressFails, Restart
  <1>3. ASSUME NEW x \in {"called", "raise", "publish"}, ToLoop(r, x), loop[r] \in Working
        PROVE  AtWork' = AtWork
    BY <1>1, <1>3 DEF AtWork, ToLoop, Working, Loops
  <1>4. ASSUME ToLoop(r, "closed") PROVE AtWork' = AtWork \ {r}
    BY <1>1, <1>4 DEF AtWork, ToLoop, Working, Loops
  <1>5. CASE CallModel(r) \/ PersistCheckpoint(r)
    BY <1>3, <1>5, SameSessions, LockStutters DEF CallModel, PersistCheckpoint, Ready,
       Working, Loops
  <1>6. CASE FinishLoop(r) \/ FailLoop(r) \/ PublishInterrupt(r)
    BY <1>4, <1>6, SameSessions, LockEnds DEF FinishLoop, FailLoop, PublishInterrupt
  <1>7. ASSUME NEW i \in Interrupt, RaiseInterrupt(r, i)
        PROVE  Lock!LockNext \/ UNCHANGED Lock!lockVars
    <2>1. SameRegistry
      BY <1>1, <1>7, CheckpointEffect DEF RaiseInterrupt
    <2> QED
      BY <1>3, <1>7, <2>1, LockStutters DEF RaiseInterrupt, Working, Loops
  <1> QED
    BY <1>2, <1>5, <1>6, <1>7 DEF LoopStep

LEMMA LockOuterStep ==
  ASSUME Undisturbed, TypeInv, LockInv, NEW r \in Run, OuterStep(r)
  PROVE  Lock!LockNext \/ UNCHANGED Lock!lockVars
  <1>1. loop \in [Run -> Loops] /\ SessionTypeOK /\ ConvOf(r) \in Conv
    BY ConvOfType DEF TypeInv, TypeOK
  <1>2. loop' = loop => AtWork' = AtWork
    BY DEF AtWork
  <1>3. CASE \/ LoadConversation(r) \/ LoadConversationFails(r) \/ TryStartFails(r)
             \/ EnqueueRefused(r) \/ BuildRunner(r) \/ BuildRunnerFails(r)
             \/ ReadCheckpoint(r) \/ LoadHistory(r) \/ TakeAnswer(r)
    BY <1>2, <1>3, SameSessions, LockStutters DEF LoadConversation, LoadConversationFails,
       TryStartFails, EnqueueRefused, BuildRunner, BuildRunnerFails, ReadCheckpoint,
       LoadHistory, TakeAnswer
  <1>4. CASE LoopClosed(r) \/ LoopTimesOut(r)
    BY <1>2, <1>4, SameSessions, LockStutters DEF LoopClosed, LoopTimesOut, LeaveWait
  <1>5. CASE CheckPending(r) \/ CleanupQueue(r) \/ SignalDone(r)
    BY <1>2, <1>5, SameSessions, LockStutters DEF CheckPending, CleanupQueue, SignalDone, Done
  <1>6. ASSUME NEW q \in Run, Respawn(r, q)
        PROVE  Lock!LockNext \/ UNCHANGED Lock!lockVars
    BY <1>2, <1>6, SameSessions, LockStutters DEF Respawn
  <1>7. CASE RunFresh(r) \/ ResumeWithoutAnswer(r) \/ ResumeWithAnswer(r)
    <2>1. pc[r] \in Holding /\ \E x \in {"start", "resumed"} : loop' = [loop EXCEPT ![r] = x]
      BY <1>7 DEF RunFresh, ResumeWithoutAnswer, ResumeWithAnswer, ToLoop, Holding, Starting
    <2>2. AtWork' = AtWork \cup {r}
      BY <1>1, <2>1 DEF AtWork, Working, Loops
    <2>3. SameRegistry
      BY <1>1, <1>7, SameSessions, CheckpointEffect DEF RunFresh, ResumeWithoutAnswer,
         ResumeWithAnswer
    <2> QED
      BY <2>1, <2>2, <2>3, LockBegins
  <1>8. ~HaltReturns(r) /\ ~HaltCleansUp(r) /\ ~HaltClearsCheckpoint(r)
    BY DEF LockInv, NobodyStops, HaltReturns, HaltCleansUp, HaltClearsCheckpoint
  <1> QED
    BY <1>3, <1>4, <1>5, <1>6, <1>7, <1>8, LockAcquired, LockReleased DEF OuterStep

\* Undisturbed, the session registry makes the agent runs a lock per
\* conversation: TryStart acquires it, Cleanup releases it, and a run works
\* only in between.
THEOREM RunsImplementLock == Undisturbed => (Spec => ImplementsLock)
  <1> SUFFICES ASSUME Undisturbed PROVE Spec => ImplementsLock
    OBVIOUS
  <1>1. Init => Lock!LockInit
    <2> SUFFICES ASSUME Init PROVE Lock!LockInit
      OBVIOUS
    <2>1. \A c \in Conv : ~IsRunning(c)
      BY DEF Init, SessionInit, IsRunning, HasSession
    <2>2. \A r \in Run : loop[r] \notin Working
      BY DEF Init, Working
    <2> QED
      BY <2>1, <2>2 DEF Lock!LockInit
  <1>2. TypeInv /\ LockInv /\ [Next]_vars => [Lock!LockNext]_(Lock!lockVars)
    <2> SUFFICES ASSUME TypeInv, LockInv, [Next]_vars
                 PROVE  Lock!LockNext \/ UNCHANGED Lock!lockVars
      OBVIOUS
    <2>1. \A t \in Thread : ~StopStep(t)
      BY DEF LockInv, NobodyStops, StopStep, CollectChildren, StopChild, StopSession,
             CancelVictim, ReturnFromStop, Active
    <2> QED
      BY <2>1, LockUserStep, LockOuterStep, LockLoopStep DEF Next
  <1> QED
    BY <1>1, <1>2, TypeInvariance, LockInvariance, PTL DEF Spec, ImplementsLock, Lock!LockSpec

-----------------------------------------------------------------------------
(* An answer is used once, when nobody stops a run and none overflows or   *)
(* times out.                                                              *)

\* The strengthening: resume parameters exist, and are taken, only for an
\* answer whose handler has stored them, in the conversation that asked; once
\* an answer has been used neither the map nor a run holds it.
ParamsStored == {"ckpt", "spawn", "done"}
ParamsAreOfAsker ==
  \A c \in Conv, i \in Interrupt : GetResumeParams(c) = i =>
    ask[i] \in ParamsStored /\ askConv[i] = c
TakenAreOfAsker ==
  \A r \in Run : pc[r] = "consume" =>
    ask[work[r].take] \in ParamsStored /\ askConv[work[r].take] = ConvOf(r)
UsedIsGone ==
  \A d \in delivered :
    /\ ask[d[2]] \in ParamsStored
    /\ \A c \in Conv : GetResumeParams(c) # d[2]
    /\ \A r \in Run : pc[r] = "consume" => work[r].take # d[2]

AnswerInv == ParamsAreOfAsker /\ TakenAreOfAsker /\ UsedIsGone /\ DeliveredOnce

\* What the critical sections of the manager do to the resume parameters.
LEMMA CheckpointKeepsParams ==
  ASSUME SessionTypeOK, NEW c \in Conv, SetCheckpointID(c)
  PROVE  \A k \in Conv : GetResumeParams(k)' = GetResumeParams(k)
  <1>1. CASE HasSession(c)
    <2> DEFINE s == [sessions[c] EXCEPT !.ckpt = TRUE]
    <2>1. s \in Session /\ s.params = GetResumeParams(c)
      BY <1>1, SessionTypes DEF Session, GetResumeParams
    <2>2. sessions' = [sessions EXCEPT ![c] = s]
      BY <1>1 DEF SetCheckpointID, Amend
    <2> HIDE DEF s
    <2>3. s # NoSession
      BY <2>1, SessionConstants
    <2> QED
      BY <1>1, <2>1, <2>2, <2>3 DEF SessionTypeOK, GetResumeParams, HasSession
  <1>2. CASE ~HasSession(c)
    BY <1>2 DEF SetCheckpointID, Amend, GetResumeParams, HasSession
  <1> QED
    BY <1>1, <1>2

LEMMA RegisterKeepsParams ==
  ASSUME SessionTypeOK, NEW c \in Conv, NEW r \in Run, NEW parent \in Conv \cup {NoConv},
         Register(c, r, parent)
  PROVE  \A k \in Conv : GetResumeParams(k)' = GetResumeParams(k)
  <1> DEFINE s == [owner |-> r, running |-> TRUE, ckpt |-> GetCheckpointID(c),
                   params |-> GetResumeParams(c), parent |-> parent]
  <1>1. s \in Session /\ s.params = GetResumeParams(c) /\ sessions' = [sessions EXCEPT ![c] = s]
    BY SessionTypes DEF Session, Register
  <1> HIDE DEF s
  <1>2. s # NoSession
    BY <1>1, SessionConstants
  <1> QED
    BY <1>1, <1>2 DEF SessionTypeOK, GetResumeParams, HasSession

LEMMA ParamsSet ==
  ASSUME SessionTypeOK, NEW c \in Conv, NEW i \in Interrupt, SetResumeParams(c, i)
  PROVE  \A k \in Conv : GetResumeParams(k)' = IF k = c THEN i ELSE GetResumeParams(k)
  <1> DEFINE s == IF HasSession(c) THEN [sessions[c] EXCEPT !.params = i]
                  ELSE [owner |-> NoRun, running |-> FALSE, ckpt |-> FALSE,
                        params |-> i, parent |-> NoConv]
  <1>1. s \in Session /\ s.params = i
    BY SessionTypes DEF Session
  <1>2. sessions' = [sessions EXCEPT ![c] = s]
    BY DEF SetResumeParams
  <1> HIDE DEF s
  <1>3. s # NoSession
    BY <1>1, SessionConstants
  <1> QED
    BY <1>1, <1>2, <1>3 DEF SessionTypeOK, GetResumeParams, HasSession

LEMMA ParamsCleared ==
  ASSUME SessionTypeOK, NEW c \in Conv, ClearResumeParams(c) \/ Cleanup(c)
  PROVE  \A k \in Conv : GetResumeParams(k)' = IF k = c THEN NoParams ELSE GetResumeParams(k)
  <1>1. CASE Cleanup(c)
    BY <1>1 DEF Cleanup, SessionTypeOK, GetResumeParams, HasSession
  <1>2. CASE ClearResumeParams(c) /\ HasSession(c)
    <2> DEFINE s == [sessions[c] EXCEPT !.params = NoParams]
    <2>1. s \in Session /\ s.params = NoParams
      BY <1>2, SessionTypes DEF Session
    <2>2. sessions' = [sessions EXCEPT ![c] = s]
      BY <1>2 DEF ClearResumeParams, Amend
    <2> HIDE DEF s
    <2>3. s # NoSession
      BY <2>1, SessionConstants
    <2> QED
      BY <2>1, <2>2, <2>3 DEF SessionTypeOK, GetResumeParams, HasSession
  <1>3. CASE ClearResumeParams(c) /\ ~HasSession(c)
    BY <1>3 DEF ClearResumeParams, Amend, GetResumeParams, HasSession
  <1> QED
    BY <1>1, <1>2, <1>3

\* A step that brings no parameters, no taken answer and no delivery, and does
\* not move an answer back.
LEMMA AnswerQuiet ==
  ASSUME TypeInv, AnswerInv, delivered' = delivered,
         \A k \in Conv : GetResumeParams(k)' \in {GetResumeParams(k), NoParams},
         \A i \in Interrupt : ask[i] \in ParamsStored =>
           ask'[i] \in ParamsStored /\ askConv'[i] = askConv[i],
         \A r \in Run : pc'[r] = "consume" =>
           /\ pc[r] = "consume" /\ ConvOf(r)' = ConvOf(r)
           /\ work'[r].take = work[r].take
  PROVE  AnswerInv'
  <1>1. /\ \A r \in Run : pc[r] = "consume" => work[r].take \in Interrupt
        /\ delivered \subseteq Run \X Interrupt
    BY DEF TypeInv, TypeOK, Locals, TakenIsAnswer
  <1>2. ParamsAreOfAsker'
    BY SessionConstants DEF AnswerInv, ParamsAreOfAsker
  <1>3. TakenAreOfAsker'
    BY <1>1 DEF AnswerInv, TakenAreOfAsker
  <1>4. UsedIsGone'
    BY <1>1, SessionConstants DEF AnswerInv, UsedIsGone
  <1>5. DeliveredOnce'
    BY DEF AnswerInv, DeliveredOnce
  <1> QED
    BY <1>2, <1>3, <1>4, <1>5 DEF AnswerInv

LEMMA AnswerUsers ==
  ASSUME TypeInv, AnswerInv,
         \/ \E m \in Msg : Store(m) \/ SendStep(m)
         \/ \E i \in Interrupt : Answer(i) \/ ResumeStep(i)
         \/ UNCHANGED vars
  PROVE  AnswerInv'
  <1>1. /\ SessionTypeOK /\ pc \in [Run -> Pcs] /\ job \in [Run -> Job]
        /\ \A i \in Interrupt : ask[i] # "none" => askConv[i] \in Conv
        /\ ask \in [Interrupt -> {"none", "raised", "pending", "answered", "stuck", "params",
                                  "ckpt", "spawn", "done"}]
        /\ delivered \subseteq Run \X Interrupt
        /\ \A r \in Run : pc[r] = "consume" => work[r].take \in Interrupt
    BY DEF TypeInv, TypeOK, Locals, AskedSomewhere, TakenIsAnswer
  <1>2. sessions' = sessions => \A k \in Conv : GetResumeParams(k)' = GetResumeParams(k)
    BY DEF GetResumeParams, HasSession
  <1>3. ASSUME NEW r \in Run, NEW c, NEW text, NEW parent, Spawn(r, c, text, parent)
        PROVE  \A q \in Run : pc'[q] = "consume" => pc[q] = "consume" /\ ConvOf(q)' = ConvOf(q)
    BY <1>1, <1>3 DEF Spawn, Goto, ConvOf
  <1>4. ASSUME NEW m \in Msg, Store(m) \/ FindRunning(m) \/ EnqueueMessage(m)
        PROVE  AnswerInv'
    BY <1>2, <1>4, AnswerQuiet DEF Store, FindRunning, EnqueueMessage, jobVars, history, ConvOf
  <1>5. ASSUME NEW m \in Msg, NEW r \in Run, StartRun(m, r) \/ StartSubAgent(m, r)
        PROVE  AnswerInv'
    <2>1. \A q \in Run : pc'[q] = "consume" => pc[q] = "consume" /\ ConvOf(q)' = ConvOf(q)
      BY <1>3, <1>5 DEF StartRun, StartSubAgent
    <2> QED
      BY <1>2, <1>5, <2>1, AnswerQuiet DEF StartRun, StartSubAgent, history
  <1>6. ASSUME NEW i \in Interrupt, Answer(i) \/ AnswerReloadFails(i) \/ ResumeClearsDb(i)
        PROVE  AnswerInv'
    <2>1. \A j \in Interrupt : ask[j] \in ParamsStored => ask'[j] \in ParamsStored
      BY <1>1, <1>6 DEF Answer, AnswerReloadFails, ResumeClearsDb, ParamsStored
    <2> QED
      BY <1>2, <1>6, <2>1, AnswerQuiet DEF Answer, AnswerReloadFails, ResumeClearsDb,
         jobVars, history, ConvOf
  <1>7. ASSUME NEW i \in Interrupt, ResumeSetsParams(i)
        PROVE  AnswerInv'
    <2>1. /\ ask[i] = "params" /\ ask' = [ask EXCEPT ![i] = "ckpt"] /\ askConv' = askConv
          /\ pc' = pc /\ job' = job /\ work' = work /\ delivered' = delivered
          /\ SetResumeParams(askConv[i], i) /\ askConv[i] \in Conv
      BY <1>1, <1>7 DEF ResumeSetsParams, jobVars, history
    <2>2. \A k \in Conv : GetResumeParams(k)' = IF k = askConv[i] THEN i ELSE GetResumeParams(k)
      BY <1>1, <2>1, ParamsSet
    <2>3. ParamsAreOfAsker'
      BY <1>1, <2>1, <2>2 DEF AnswerInv, ParamsAreOfAsker, ParamsStored
    <2>4. TakenAreOfAsker'
      BY <1>1, <2>1 DEF AnswerInv, TakenAreOfAsker, ParamsStored, ConvOf
    <2>5. UsedIsGone'
      BY <1>1, <2>1, <2>2 DEF AnswerInv, UsedIsGone, ParamsStored
    <2>6. DeliveredOnce'
      BY <2>1 DEF AnswerInv, DeliveredOnce
    <2> QED
      BY <2>3, <2>4, <2>5, <2>6 DEF AnswerInv
  <1>8. ASSUME NEW i \in Interrupt, ResumeSetsCheckpoint(i)
        PROVE  AnswerInv'
    <2>1. \A k \in Conv : GetResumeParams(k)' = GetResumeParams(k)
      BY <1>1, <1>8, CheckpointKeepsParams DEF ResumeSetsCheckpoint
    <2>2. \A j \in Interrupt : ask[j] \in ParamsStored => ask'[j] \in ParamsStored
      BY <1>1, <1>8 DEF ResumeSetsCheckpoint, ParamsStored
    <2> QED
      BY <1>8, <2>1, <2>2, AnswerQuiet DEF ResumeSetsCheckpoint, jobVars, history, ConvOf
  <1>9. ASSUME NEW i \in Interrupt, NEW r \in Run, ResumeStartsRun(i, r)
        PROVE  AnswerInv'
    <2>1. \A q \in Run : pc'[q] = "consume" => pc[q] = "consume" /\ ConvOf(q)' = ConvOf(q)
      BY <1>3, <1>9 DEF ResumeStartsRun
    <2>2. \A j \in Interrupt : ask[j] \in ParamsStored => ask'[j] \in ParamsStored
      BY <1>1, <1>9 DEF ResumeStartsRun, ParamsStored
    <2> QED
      BY <1>2, <1>9, <2>1, <2>2, AnswerQuiet DEF ResumeStartsRun, history
  <1>10. CASE UNCHANGED vars
    BY <1>2, <1>10, AnswerQuiet DEF vars, ConvOf
  <1> QED
    BY <1>4, <1>5, <1>6, <1>7, <1>8, <1>9, <1>10 DEF SendStep, ResumeStep

LEMMA AnswerLoop ==
  ASSUME Undisturbed, TypeInv, LockInv, AnswerInv, NEW r \in Run, LoopStep(r)
  PROVE  AnswerInv'
  <1>1. /\ SessionTypeOK /\ ConvOf(r) \in Conv /\ work \in [Run -> Work]
        /\ ask \in [Interrupt -> {"none", "raised", "pending", "answered", "stuck", "params",
                                  "ckpt", "spawn", "done"}]
        /\ loop[r] # "none" => pc[r] # "consume"
    BY ConvOfType DEF TypeInv, TypeOK, Locals, EventsFollowStart, Started, Ending
  <1>2. sessions' = sessions => \A k \in Conv : GetResumeParams(k)' = GetResumeParams(k)
    BY DEF GetResumeParams, HasSession
  <1>3. ~Overflow(r) /\ ~Requeue(r) /\ ~CompressFails(r) /\ \A q \in Run : ~Restart(r, q)
    BY DEF Undisturbed, LockInv, NobodyStops, Overflow, Requeue, CompressFails, Restart
  <1>4. CASE CallModel(r)
    <2>1. \A q \in Run : work'[q].take = work[q].take
      BY <1>4, LoopLocals
    <2> QED
      BY <1>2, <1>4, <2>1, AnswerQuiet DEF CallModel, clientVars, ConvOf
  <1>5. CASE FinishLoop(r) \/ FailLoop(r) \/ PersistCheckpoint(r)
    BY <1>2, <1>5, AnswerQuiet DEF FinishLoop, FailLoop, PersistCheckpoint, jobVars,
       clientVars, history, ConvOf
  <1>6. ASSUME NEW i \in Interrupt, RaiseInterrupt(r, i) PROVE AnswerInv'
    <2>1. \A k \in Conv : GetResumeParams(k)' = GetResumeParams(k)
      BY <1>1, <1>6, CheckpointKeepsParams DEF RaiseInterrupt
    <2>2. \A q \in Run : work'[q].take = IF q = r THEN i ELSE work[q].take
      BY <1>1, <1>6, TakeType DEF RaiseInterrupt
    <2>3. /\ ask[i] = "none" /\ ask' = [ask EXCEPT ![i] = "raised"]
          /\ askConv' = [askConv EXCEPT ![i] = ConvOf(r)]
          /\ pc' = pc /\ job' = job /\ delivered' = delivered /\ pc[r] # "consume"
      BY <1>1, <1>6 DEF RaiseInterrupt, history
    <2>4. \A j \in Interrupt : ask[j] \in ParamsStored =>
            ask'[j] \in ParamsStored /\ askConv'[j] = askConv[j]
      <3>1. askConv \in [Interrupt -> Conv \cup {NoConv}]
        BY DEF TypeInv, TypeOK
      <3> QED
        BY <1>1, <2>3, <3>1 DEF ParamsStored
    <2>5. \A q \in Run : pc'[q] = "consume" =>
            /\ pc[q] = "consume" /\ ConvOf(q)' = ConvOf(q)
            /\ work'[q].take = work[q].take
      BY <2>2, <2>3 DEF ConvOf
    <2> QED
      BY <2>1, <2>3, <2>4, <2>5, AnswerQuiet
  <1>7. CASE PublishInterrupt(r)
    <2>1. \A j \in Interrupt : ask[j] \in ParamsStored => ask'[j] \in ParamsStored
      BY <1>1, <1>7 DEF PublishInterrupt, ParamsStored, TypeInv, Locals, PublishesItsOwn
    <2> QED
      BY <1>2, <1>7, <2>1, AnswerQuiet DEF PublishInterrupt, jobVars, history, ConvOf
  <1> QED
    BY <1>3, <1>4, <1>5, <1>6, <1>7 DEF LoopStep

LEMMA AnswerOuter ==
  ASSUME Undisturbed, TypeInv, LockInv, AnswerInv, NEW r \in Run, OuterStep(r)
  PROVE  AnswerInv'
  <1>1. /\ SessionTypeOK /\ ConvOf(r) \in Conv /\ work \in [Run -> Work]
        /\ pc \in [Run -> Pcs] /\ job \in [Run -> Job]
    BY ConvOfType DEF TypeInv, TypeOK
  <1>2. sessions' = sessions => \A k \in Conv : GetResumeParams(k)' = GetResumeParams(k)
    BY DEF GetResumeParams, HasSession
  <1>3. ~HaltReturns(r) /\ ~HaltCleansUp(r) /\ ~HaltClearsCheckpoint(r)
    BY DEF LockInv, NobodyStops, HaltReturns, HaltCleansUp, HaltClearsCheckpoint
  <1>4. CASE \/ LoadConversation(r) \/ ReadCheckpoint(r) \/ LoadHistory(r)
             \/ ResumeWithoutAnswer(r) \/ CheckPending(r)
    <2>1. \A q \in Run : work'[q].take = work[q].take
      BY <1>4, OuterLocals
    <2>2. \A q \in Run : pc'[q] = "consume" => pc[q] = "consume" /\ ConvOf(q)' = ConvOf(q)
      BY <1>1, <1>4 DEF LoadConversation, ReadCheckpoint, LoadHistory,
         ResumeWithoutAnswer, CheckPending, Goto, ConvOf
    <2> QED
      BY <1>2, <1>4, <2>1, <2>2, AnswerQuiet DEF LoadConversation, ReadCheckpoint,
         LoadHistory, ResumeWithoutAnswer, CheckPending, clientVars, history
  <1>5. CASE \/ LoadConversationFails(r) \/ TryStartFails(r) \/ EnqueueRefused(r)
             \/ BuildRunner(r) \/ BuildRunnerFails(r) \/ RunFresh(r)
             \/ LoopClosed(r) \/ LoopTimesOut(r) \/ CleanupQueue(r) \/ SignalDone(r)
    <2>1. \A q \in Run : pc'[q] = "consume" => pc[q] = "consume" /\ ConvOf(q)' = ConvOf(q)
      BY <1>1, <1>5 DEF LoadConversationFails, TryStartFails, EnqueueRefused,
         BuildRunner, BuildRunnerFails, RunFresh, LoopClosed, LoopTimesOut, LeaveWait, CleanupQueue,
         SignalDone, Goto, ConvOf, jobVars
    <2> QED
      BY <1>2, <1>5, <2>1, AnswerQuiet DEF LoadConversationFails, TryStartFails,
         EnqueueRefused, BuildRunner, BuildRunnerFails, RunFresh, LoopClosed,
         LoopTimesOut, LeaveWait, CleanupQueue, SignalDone, Done, jobVars, clientVars, history
  <1>6. ASSUME NEW q \in Run, Respawn(r, q) PROVE AnswerInv'
    <2>1. \A p \in Run : pc'[p] = "consume" => pc[p] = "consume" /\ ConvOf(p)' = ConvOf(p)
      BY <1>1, <1>6 DEF Respawn, ConvOf
    <2> QED
      BY <1>2, <1>6, <2>1, AnswerQuiet DEF Respawn, clientVars, history
  <1>7. CASE TryStart(r) \/ CleanupUnbuilt(r) \/ CleanupSession(r)
    <2>1. \A k \in Conv : GetResumeParams(k)' \in {GetResumeParams(k), NoParams}
      <3>1. job[r].parent \in Conv \cup {NoConv}
        BY <1>1 DEF Job
      <3> QED
        BY <1>1, <1>7, <3>1, RegisterKeepsParams, ParamsCleared DEF TryStart,
           CleanupUnbuilt, CleanupSession
    <2>2. \A q \in Run : pc'[q] = "consume" => pc[q] = "consume" /\ ConvOf(q)' = ConvOf(q)
      BY <1>1, <1>7 DEF TryStart, CleanupUnbuilt, CleanupSession, Goto, ConvOf, jobVars
    <2> QED
      BY <1>7, <2>1, <2>2, AnswerQuiet DEF TryStart, CleanupUnbuilt, CleanupSession,
         jobVars, clientVars, history
  <1>8. CASE TakeAnswer(r)
    <2>1. PICK i \in Interrupt : i = GetResumeParams(ConvOf(r))
      BY <1>1, <1>8, SessionTypes DEF TakeAnswer
    <2>2. \A q \in Run : work'[q].take = IF q = r THEN i ELSE work[q].take
      BY <1>1, <1>8, <2>1, TakeType DEF TakeAnswer
    <2>3. /\ pc' = [pc EXCEPT ![r] = "consume"] /\ ask' = ask /\ askConv' = askConv
          /\ delivered' = delivered /\ job' = job
          /\ \A k \in Conv : GetResumeParams(k)' = GetResumeParams(k)
      BY <1>2, <1>8 DEF TakeAnswer, Goto, clientVars, history
    <2>4. ask[i] \in ParamsStored /\ askConv[i] = ConvOf(r)
      BY <1>1, <2>1 DEF AnswerInv, ParamsAreOfAsker
    <2>5. ParamsAreOfAsker'
      BY <2>3 DEF AnswerInv, ParamsAreOfAsker
    <2>6. TakenAreOfAsker'
      BY <1>1, <2>2, <2>3, <2>4 DEF AnswerInv, TakenAreOfAsker, ConvOf
    <2>7. UsedIsGone'
      BY <1>1, <2>1, <2>2, <2>3 DEF AnswerInv, UsedIsGone
    <2>8. DeliveredOnce'
      BY <2>3 DEF AnswerInv, DeliveredOnce
    <2> QED
      BY <2>5, <2>6, <2>7, <2>8 DEF AnswerInv
  <1>9. CASE ResumeWithAnswer(r)
    <2>1. PICK i \in Interrupt : i = work[r].take
      BY <1>9 DEF ResumeWithAnswer, TypeInv, Locals, TakenIsAnswer
    <2>2. \A q \in Run : work'[q].take = work[q].take
      BY <1>9, OuterLocals
    <2>3. /\ pc[r] = "consume" /\ pc' = [pc EXCEPT ![r] = "wait"]
          /\ ask' = ask /\ askConv' = askConv /\ job' = job
          /\ \/ delivered' = delivered
             \/ delivered' = delivered \cup {<<r, i>>}
      BY <1>9, <2>1 DEF ResumeWithAnswer, Goto, clientVars
    <2>4. \A k \in Conv : GetResumeParams(k)' = IF k = ConvOf(r) THEN NoParams
                                                ELSE GetResumeParams(k)
      BY <1>1, <1>9, ParamsCleared DEF ResumeWithAnswer
    <2>5. ask[i] \in ParamsStored /\ askConv[i] = ConvOf(r)
      BY <2>1, <2>3 DEF AnswerInv, TakenAreOfAsker
    <2>6. \A d \in delivered : d[2] # i
      BY <2>1, <2>3 DEF AnswerInv, UsedIsGone
    <2>7. ParamsAreOfAsker'
      BY <2>3, <2>4, SessionConstants DEF AnswerInv, ParamsAreOfAsker
    <2>8. TakenAreOfAsker'
      BY <1>1, <2>2, <2>3 DEF AnswerInv, TakenAreOfAsker, ConvOf
    <2>9. UsedIsGone'
      <3>1. \A k \in Conv : GetResumeParams(k)' # i
        BY <2>4, <2>5, SessionConstants DEF AnswerInv, ParamsAreOfAsker
      <3>2. \A q \in Run : pc'[q] = "consume" => work'[q].take # i
        <4>1. \A q \in Run : pc[q] = "consume" /\ work[q].take = i => q = r
          BY <2>3, <2>5 DEF AnswerInv, TakenAreOfAsker, LockInv, HolderOwns, Holding,
             Starting
        <4> QED
          BY <1>1, <2>2, <2>3, <4>1
      <3>3. \A d \in delivered : \A k \in Conv : GetResumeParams(k)' # d[2]
        BY <2>4, SessionConstants DEF AnswerInv, UsedIsGone, TypeInv, TypeOK
      <3>4. \A d \in delivered : \A q \in Run : pc'[q] = "consume" => work'[q].take # d[2]
        BY <1>1, <2>2, <2>3 DEF AnswerInv, UsedIsGone
      <3>5. \A d \in delivered : ask[d[2]] \in ParamsStored
        BY DEF AnswerInv, UsedIsGone
      <3> QED
        BY <2>3, <2>5, <3>1, <3>2, <3>3, <3>4, <3>5 DEF UsedIsGone
    <2>10. DeliveredOnce'
      BY <2>3, <2>6 DEF AnswerInv, DeliveredOnce
    <2> QED
      BY <2>7, <2>8, <2>9, <2>10 DEF AnswerInv
  <1> QED
    BY <1>3, <1>4, <1>5, <1>6, <1>7, <1>8, <1>9 DEF OuterStep

LEMMA AnswerInvariance == Undisturbed => (Spec => []AnswerInv)
  <1> SUFFICES ASSUME Undisturbed PROVE Spec => []AnswerInv
    OBVIOUS
  <1>1. Init => AnswerInv
    BY SessionConstants DEF Init, SessionInit, AnswerInv, ParamsAreOfAsker,
       TakenAreOfAsker, UsedIsGone, DeliveredOnce, GetResumeParams, HasSession
  <1>2. TypeInv /\ LockInv /\ AnswerInv /\ [Next]_vars => AnswerInv'
    <2> SUFFICES ASSUME TypeInv, LockInv, AnswerInv, [Next]_vars PROVE AnswerInv'
      OBVIOUS
    <2>1. \A t \in Thread : ~StopStep(t)
      BY DEF LockInv, NobodyStops, StopStep, CollectChildren, StopChild, StopSession,
             CancelVictim, ReturnFromStop, Active
    <2> QED
      BY <2>1, AnswerUsers, AnswerLoop, AnswerOuter DEF Next, UserStep, Undisturbed
  <1> QED
    BY <1>1, <1>2, TypeInvariance, LockInvariance, PTL DEF Spec

\* When nobody stops a run and none overflows or times out, the answer to an
\* interrupt resumes at most one run, although its parameters wait in a map
\* that every run of the conversation reads.
THEOREM AnswerUsedOnce == Undisturbed => (Spec => []DeliveredOnce)
  <1>1. AnswerInv => DeliveredOnce
    BY DEF AnswerInv
  <1> QED
    BY <1>1, AnswerInvariance, PTL

-----------------------------------------------------------------------------
(* No message is lost in a fourth way, when nobody stops a run, none       *)
(* overflows or times out, and no call fails.                              *)

\* The strengthening: a message that was sent was shown to a model or deleted,
\* or is in its queue, or its conversation was resumed from a checkpoint, or a
\* run has it as its content and will load it, enqueue it or show it.
Carries(r, m) ==
  /\ job[r].text = m /\ ConvOf(r) = Dest[m]
  /\ \/ pc[r] \in {"load", "register", "refused", "build", "checkpoint", "history"}
     \/ pc[r] = "choose" /\ m \in work[r].context
     \/ pc[r] = "wait" /\ loop[r] = "start" /\ m \in work[r].context

Resumes(r, m) == ConvOf(r) = Dest[m] /\ work[r].has = TRUE

Accounted(m) ==
  \/ m \in answered \cup dropped
  \/ InQueue(m)
  \/ \E r \in Run : Resumes(r, m)
  \/ \E r \in Run : Carries(r, m)

\* A run is cancelled when it has nothing left to show.
Over == Ending \cup {"queue", "done", "respawn", "gone"}

MessageInv ==
  /\ \A m \in Msg : sent[m] = "sent" => Accounted(m)
  /\ \A r \in Run : pc[r] \in {"free", "load"} => work[r].has = FALSE
  /\ \A r \in cancelled : pc[r] \in Over

\* What a step may do to run r: nothing, or hand over what r carries.
Untouched(r) ==
  pc'[r] = pc[r] /\ loop'[r] = loop[r] /\ job'[r] = job[r] /\ work'[r] = work[r]
HandsOver(r) ==
  /\ pc[r] \notin {"free", "load"} =>
       job'[r].conv = job[r].conv /\ (work[r].has = TRUE => work'[r].has = TRUE)
  /\ pc'[r] \in {"free", "load"} => work'[r].has = FALSE
  /\ pc[r] \in Over => pc'[r] \in Over
  /\ \A m \in Msg : sent[m] = "sent" /\ Carries(r, m) => Accounted(m)'

\* A step that lets no message out of a queue but to a model or the cleanup.
LEMMA MessagesStay ==
  ASSUME TypeInv, MessageInv,
         answered \subseteq answered', dropped \subseteq dropped',
         \A m \in Msg : InQueue(m) => InQueue(m)' \/ m \in answered' \cup dropped',
         \A m \in Msg : sent'[m] = "sent" => sent[m] = "sent" \/ Accounted(m)',
         \A r \in Run : Untouched(r) \/ HandsOver(r),
         \A r \in cancelled' : r \in cancelled \/ pc'[r] \in Over
  PROVE  MessageInv'
  <1>1. \A r \in Run : work[r].has \in BOOLEAN
    BY DEF TypeInv, TypeOK, Work
  <1>2. ASSUME NEW m \in Msg, sent'[m] = "sent" PROVE Accounted(m)'
    <2>1. CASE sent[m] # "sent"
      BY <1>2, <2>1
    <2>2. CASE sent[m] = "sent"
      <3>1. Accounted(m)
        BY <2>2 DEF MessageInv
      <3>2. CASE m \in answered \cup dropped \/ InQueue(m)
        BY <3>2 DEF Accounted
      <3>3. ASSUME NEW r \in Run, Resumes(r, m) PROVE Accounted(m)'
        <4>1. pc[r] \notin {"free", "load"}
          BY <3>3 DEF Resumes, MessageInv
        <4>2. job'[r].conv = job[r].conv /\ work'[r].has = TRUE
          BY <3>3, <4>1 DEF Untouched, HandsOver, Resumes
        <4>3. Resumes(r, m)'
          BY <3>3, <4>2 DEF Resumes, ConvOf
        <4> QED
          BY <4>3 DEF Accounted
      <3>4. ASSUME NEW r \in Run, Carries(r, m) PROVE Accounted(m)'
        <4>1. CASE Untouched(r)
          <5>1. Carries(r, m)'
            BY <3>4, <4>1 DEF Carries, Untouched, ConvOf
          <5> QED
            BY <5>1 DEF Accounted
        <4>2. CASE HandsOver(r)
          BY <2>2, <3>4, <4>2 DEF HandsOver
        <4> QED
          BY <4>1, <4>2
      <3> QED
        BY <3>1, <3>2, <3>3, <3>4 DEF Accounted
    <2> QED
      BY <2>1, <2>2
  <1>3. \A r \in Run : pc'[r] \in {"free", "load"} => work'[r].has = FALSE
    BY DEF MessageInv, Untouched, HandsOver
  <1>4. \A r \in cancelled' : pc'[r] \in Over
    <2>1. cancelled \subseteq Run
      BY DEF TypeInv, TypeOK
    <2> QED
      BY <2>1 DEF MessageInv, Untouched, HandsOver
  <1> QED
    BY <1>2, <1>3, <1>4 DEF MessageInv

\* Queues.
LEMMA QueueSame ==
  ASSUME queues' = queues
  PROVE  \A m \in Msg : InQueue(m)' <=> InQueue(m)
  BY DEF InQueue

LEMMA Enqueued ==
  ASSUME TypeInv, NEW c \in Conv, NEW x \in Content, Q!Enqueue(c, x)
  PROVE  /\ \A m \in Msg : InQueue(m) => InQueue(m)'
         /\ \A m \in Msg : m = x /\ Dest[m] = c => InQueue(m)'
  <1>1. queues \in [Conv -> Seq(Content)] /\ Dest \in [Msg -> Conv]
    BY AgentRunConstants DEF TypeInv, TypeOK, Q!QueueTypeOK
  <1>2. PICK q : q = Append(queues[c], x)
    OBVIOUS
  <1>3. queues' = [queues EXCEPT ![c] = q]
    BY <1>2 DEF Q!Enqueue
  <1>4. /\ Len(q) = Len(queues[c]) + 1 /\ Len(queues[c]) \in Nat
        /\ q \in Seq(Content)
        /\ \A i \in 1 .. Len(queues[c]) : q[i] = queues[c][i]
        /\ q[Len(queues[c]) + 1] = x
    BY <1>1, <1>2, AppendProperties
  <1>5. DOMAIN q = 1 .. Len(queues[c]) + 1 /\ DOMAIN queues[c] = 1 .. Len(queues[c])
    BY <1>1, <1>4
  <1>6. \A n \in DOMAIN queues[c] : n \in DOMAIN q /\ q[n] = queues[c][n]
    BY <1>4, <1>5
  <1>7. Len(queues[c]) + 1 \in DOMAIN q
    BY <1>4, <1>5
  <1>8. ASSUME NEW m \in Msg, InQueue(m) PROVE InQueue(m)'
    <2>1. PICK n \in DOMAIN queues[Dest[m]] : queues[Dest[m]][n] = m
      BY <1>8 DEF InQueue
    <2>2. CASE Dest[m] = c
      BY <1>1, <1>3, <1>6, <2>1, <2>2 DEF InQueue
    <2>3. CASE Dest[m] # c
      BY <1>1, <1>3, <2>1, <2>3 DEF InQueue
    <2> QED
      BY <2>2, <2>3
  <1>9. ASSUME NEW m \in Msg, m = x, Dest[m] = c PROVE InQueue(m)'
    BY <1>1, <1>3, <1>4, <1>7, <1>9 DEF InQueue
  <1> QED
    BY <1>8, <1>9

LEMMA Emptied ==
  ASSUME TypeInv, NEW c \in Conv, queues' = [queues EXCEPT ![c] = <<>>],
         NEW m \in Msg, InQueue(m)
  PROVE  InQueue(m)' \/ (Dest[m] = c /\ \E n \in DOMAIN queues[c] : queues[c][n] = m)
  <1>1. queues \in [Conv -> Seq(Content)] /\ Dest[m] \in Conv
    BY AgentRunConstants DEF TypeInv, TypeOK, Q!QueueTypeOK
  <1> QED
    BY <1>1 DEF InQueue

\* A new run of the goroutine that was free.
LEMMA SpawnHandsOver ==
  ASSUME TypeInv, MessageInv, NEW r \in Run, NEW c, NEW text, NEW parent,
         Spawn(r, c, text, parent), loop' = loop, work' = work
  PROVE  /\ \A q \in Run : Untouched(q) \/ HandsOver(q)
         /\ \A m \in Msg : m = text /\ Dest[m] = c => Accounted(m)'
  <1>1. pc \in [Run -> Pcs] /\ job \in [Run -> Job]
    BY DEF TypeInv, TypeOK
  <1>2. PICK j : j = [conv |-> c, text |-> text, parent |-> parent]
    OBVIOUS
  <1>3. /\ pc[r] = "free" /\ pc' = [pc EXCEPT ![r] = "load"]
        /\ job' = [job EXCEPT ![r] = j] /\ j.text = text /\ j.conv = c
    BY <1>2 DEF Spawn, Goto
  <1>4. \A q \in Run \ {r} : Untouched(q)
    BY <1>1, <1>3 DEF Untouched
  <1>5. HandsOver(r)
    BY <1>1, <1>3 DEF HandsOver, Carries, MessageInv, Over, Ending
  <1>6. ASSUME NEW m \in Msg, m = text, Dest[m] = c PROVE Accounted(m)'
    <2>1. Carries(r, m)'
      BY <1>1, <1>3, <1>6 DEF Carries, ConvOf
    <2> QED
      BY <2>1 DEF Accounted
  <1> QED
    BY <1>4, <1>5, <1>6

LEMMA MessagesOfUsers ==
  ASSUME TypeInv, MessageInv,
         \/ \E m \in Msg : Store(m) \/ SendStep(m)
         \/ \E i \in Interrupt : Answer(i) \/ ResumeStep(i)
         \/ UNCHANGED vars
  PROVE  MessageInv'
  <1>1. /\ sent \in [Msg -> {"new", "stored", "enqueue", "sent"}]
        /\ Dest \in [Msg -> Conv]
    BY AgentRunConstants DEF TypeInv, TypeOK
  <1>2. /\ pc' = pc /\ loop' = loop /\ job' = job /\ work' = work
        => \A r \in Run : Untouched(r)
    BY DEF Untouched
  <1>3. ASSUME NEW m \in Msg, Store(m) \/ FindRunning(m)
        PROVE  MessageInv'
    <2>1. /\ queues' = queues /\ UNCHANGED <<pc, loop, job, work, cancelled, answered, dropped>>
          /\ sent' = [sent EXCEPT ![m] = "stored"] \/ sent' = [sent EXCEPT ![m] = "enqueue"]
      BY <1>3 DEF Store, FindRunning, jobVars, history
    <2>2. \A k \in Msg : sent'[k] = "sent" => sent[k] = "sent"
      BY <1>1, <2>1
    <2> QED
      BY <1>2, <2>1, <2>2, QueueSame, MessagesStay
  <1>4. ASSUME NEW m \in Msg, EnqueueMessage(m)
        PROVE  MessageInv'
    <2>1. /\ Q!Enqueue(Dest[m], m) /\ sent' = [sent EXCEPT ![m] = "sent"]
          /\ UNCHANGED <<pc, loop, job, work, cancelled, answered, dropped>>
      BY <1>4 DEF EnqueueMessage, jobVars, history
    <2>2. m \in Content /\ Dest[m] \in Conv
      BY <1>1 DEF Content
    <2>3. InQueue(m)' /\ \A k \in Msg : InQueue(k) => InQueue(k)'
      BY <2>1, <2>2, Enqueued
    <2>4. \A k \in Msg : sent'[k] = "sent" => sent[k] = "sent" \/ Accounted(k)'
      BY <1>1, <2>1, <2>3 DEF Accounted
    <2> QED
      BY <1>2, <2>1, <2>3, <2>4, MessagesStay
  <1>5. ASSUME NEW m \in Msg, NEW r \in Run, StartRun(m, r) \/ StartSubAgent(m, r)
        PROVE  MessageInv'
    <2>1. PICK parent : Spawn(r, Dest[m], m, parent)
      BY <1>5 DEF StartRun, StartSubAgent
    <2>2. /\ queues' = queues /\ UNCHANGED <<loop, work, cancelled, answered, dropped>>
          /\ sent' = [sent EXCEPT ![m] = "sent"]
      BY <1>5 DEF StartRun, StartSubAgent, history
    <2>3. /\ \A q \in Run : Untouched(q) \/ HandsOver(q)
          /\ Accounted(m)'
      BY <2>1, <2>2, SpawnHandsOver
    <2>4. \A k \in Msg : sent'[k] = "sent" => sent[k] = "sent" \/ Accounted(k)'
      BY <1>1, <2>2, <2>3
    <2> QED
      BY <2>2, <2>3, <2>4, QueueSame, MessagesStay
  <1>6. ASSUME NEW i \in Interrupt, NEW r \in Run, ResumeStartsRun(i, r)
        PROVE  MessageInv'
    <2>1. /\ Spawn(r, askConv[i], NoText, NoConv) /\ queues' = queues /\ sent' = sent
          /\ UNCHANGED <<loop, work, cancelled, answered, dropped>>
      BY <1>6 DEF ResumeStartsRun, history
    <2>2. \A q \in Run : Untouched(q) \/ HandsOver(q)
      BY <2>1, SpawnHandsOver
    <2> QED
      BY <2>1, <2>2, QueueSame, MessagesStay
  <1>7. ASSUME \/ UNCHANGED vars
               \/ \E i \in Interrupt : \/ Answer(i) \/ AnswerReloadFails(i) \/ ResumeClearsDb(i)
                                       \/ ResumeSetsParams(i) \/ ResumeSetsCheckpoint(i)
        PROVE  MessageInv'
    <2>1. /\ queues' = queues /\ sent' = sent
          /\ UNCHANGED <<pc, loop, job, work, cancelled, answered, dropped>>
      BY <1>7 DEF vars, Answer, AnswerReloadFails, ResumeClearsDb, ResumeSetsParams,
         ResumeSetsCheckpoint, jobVars, history
    <2> QED
      BY <1>2, <2>1, QueueSame, MessagesStay
  <1> QED
    BY <1>3, <1>4, <1>5, <1>6, <1>7 DEF SendStep, ResumeStep

LEMMA MessagesOfLoop ==
  ASSUME Undisturbed, Faults = FALSE, TypeInv, LockInv, MessageInv, NEW r \in Run, LoopStep(r)
  PROVE  MessageInv'
  <1>1. /\ pc \in [Run -> Pcs] /\ loop \in [Run -> Loops] /\ job \in [Run -> Job]
        /\ work \in [Run -> Work] /\ ConvOf(r) \in Conv /\ Dest \in [Msg -> Conv]
    BY ConvOfType, AgentRunConstants DEF TypeInv, TypeOK
  <1>2. ~Overflow(r) /\ ~Requeue(r) /\ ~CompressFails(r) /\ \A q \in Run : ~Restart(r, q)
    BY DEF Undisturbed, LockInv, NobodyStops, Overflow, Requeue, CompressFails, Restart
  <1>3. loop[r] \in Working => pc[r] = "wait" /\ r \notin cancelled
    BY DEF LockInv, WorkerWaits, MessageInv, Over, Ending
  <1>4. ASSUME NEW l \in Loops, loop[r] \in Working \ {"start"}, ToLoop(r, l), pc' = pc, job' = job,
               \A q \in Run \ {r} : work'[q] = work[q],
               work'[r].has = work[r].has
        PROVE  \A q \in Run : Untouched(q) \/ HandsOver(q)
    <2>1. \A q \in Run \ {r} : Untouched(q)
      BY <1>1, <1>4 DEF Untouched, ToLoop
    <2>2. HandsOver(r)
      BY <1>1, <1>3, <1>4 DEF HandsOver, Carries
    <2> QED
      BY <2>1, <2>2
  <1>5. CASE CallModel(r)
    <2>1. PICK pending : pending = {m \in Msg : \E n \in DOMAIN queues[ConvOf(r)] :
                                      queues[ConvOf(r)][n] = m}
      OBVIOUS
    <2>2. PICK context : context = work[r].context \cup pending
      OBVIOUS
    <2>3. /\ work' = [work EXCEPT ![r].context = context] /\ answered' = answered \cup context
          /\ queues' = [queues EXCEPT ![ConvOf(r)] = <<>>]
          /\ loop' = [loop EXCEPT ![r] = "called"] /\ loop[r] \in Working
          /\ UNCHANGED <<pc, job, sent, cancelled, dropped>>
      BY <1>5, <2>1, <2>2 DEF CallModel, Q!Drain, ToLoop, Ready, Working, Loops, clientVars
    <2>4. /\ \A q \in Run \ {r} : work'[q] = work[q]
          /\ work'[r].has = work[r].has
      BY <1>1, <2>3 DEF Work
    <2>5. \A q \in Run \ {r} : Untouched(q)
      BY <1>1, <2>3, <2>4 DEF Untouched
    <2>6. ASSUME NEW m \in Msg, Carries(r, m) PROVE Accounted(m)'
      <3>1. m \in work[r].context
        BY <1>3, <2>3, <2>6 DEF Carries
      <3> QED
        BY <2>2, <2>3, <3>1 DEF Accounted
    <2>7. HandsOver(r)
      BY <1>3, <2>3, <2>4, <2>6 DEF HandsOver
    <2>8. \A m \in Msg : InQueue(m) => InQueue(m)' \/ m \in answered'
      BY <1>1, <2>1, <2>2, <2>3, Emptied
    <2> QED
      BY <2>3, <2>5, <2>7, <2>8, MessagesStay
  <1>6. CASE FinishLoop(r) \/ PersistCheckpoint(r) \/ PublishInterrupt(r)
    <2>1. /\ queues' = queues /\ UNCHANGED <<pc, job, work, sent, cancelled, answered, dropped>>
          /\ loop[r] \in Working \ {"start"} /\ \E l \in Loops : ToLoop(r, l)
      BY <1>6 DEF FinishLoop, PersistCheckpoint, PublishInterrupt, Working, Loops, jobVars,
         clientVars, history
    <2>2. \A q \in Run : Untouched(q) \/ HandsOver(q)
      BY <1>4, <2>1
    <2> QED
      BY <2>1, <2>2, QueueSame, MessagesStay
  <1>7. ~FailLoop(r)
    BY <1>3 DEF FailLoop, Ready, Working, Loops
  <1>8. ASSUME NEW i \in Interrupt, RaiseInterrupt(r, i) PROVE MessageInv'
    <2>1. /\ queues' = queues /\ UNCHANGED <<pc, job, sent, cancelled, answered, dropped>>
          /\ loop[r] \in Working \ {"start"} /\ ToLoop(r, "raise") /\ "raise" \in Loops
          /\ work' = [work EXCEPT ![r].take = i]
      BY <1>8 DEF RaiseInterrupt, Working, Loops, history
    <2>2. /\ \A q \in Run \ {r} : work'[q] = work[q]
          /\ work'[r].has = work[r].has
      BY <1>1, <2>1 DEF Work
    <2>3. \A q \in Run : Untouched(q) \/ HandsOver(q)
      BY <1>4, <2>1, <2>2
    <2> QED
      BY <2>1, <2>3, QueueSame, MessagesStay
  <1> QED
    BY <1>2, <1>5, <1>6, <1>7, <1>8 DEF LoopStep

\* A run that goes on towards its agent hands over what it carries.
LEMMA GoesOn ==
  ASSUME TypeInv, MessageInv, NEW r \in Run,
         NEW x \in {"register", "refused", "build", "checkpoint", "history", "choose", "consume"},
         Goto(r, x), loop' = loop, job' = job,
         \A q \in Run \ {r} : work'[q] = work[q],
         pc[r] \notin Over \cup {"free"},
         pc[r] # "load" => (work[r].has = TRUE => work'[r].has = TRUE),
         \A m \in Msg : sent[m] = "sent" /\ Carries(r, m) =>
           \/ x \notin {"choose", "consume"}
           \/ x = "choose" /\ m \in work'[r].context
           \/ work'[r].has = TRUE
  PROVE  \A q \in Run : Untouched(q) \/ HandsOver(q)
  <1>1. pc \in [Run -> Pcs]
    BY DEF TypeInv, TypeOK
  <1>2. \A q \in Run \ {r} : Untouched(q)
    BY <1>1 DEF Untouched, Goto
  <1>3. pc'[r] = x
    BY <1>1 DEF Goto
  <1>4. ASSUME NEW m \in Msg, sent[m] = "sent", Carries(r, m) PROVE Accounted(m)'
    <2>1. job'[r].text = m /\ job'[r].conv = Dest[m]
      BY <1>4 DEF Carries, ConvOf
    <2>2. CASE work'[r].has = TRUE
      <3>1. Resumes(r, m)'
        BY <2>1, <2>2 DEF Resumes, ConvOf
      <3> QED
        BY <3>1 DEF Accounted
    <2>3. CASE work'[r].has # TRUE
      <3>1. Carries(r, m)'
        BY <1>3, <1>4, <2>1, <2>3 DEF Carries, ConvOf
      <3> QED
        BY <3>1 DEF Accounted
    <2> QED
      BY <2>2, <2>3
  <1>5. HandsOver(r)
    BY <1>3, <1>4 DEF HandsOver
  <1> QED
    BY <1>2, <1>5

\* A run that carries nothing any more.
LEMMA CarriesNothing ==
  ASSUME TypeInv, NEW r \in Run, Goto(r, pc'[r]), job'[r] = job[r], work'[r].has = work[r].has,
         pc[r] \notin {"free", "load"}, pc'[r] \notin {"free", "load"},
         pc[r] \in Over => pc'[r] \in Over,
         \A m \in Msg : ~Carries(r, m),
         \A q \in Run \ {r} : loop'[q] = loop[q] /\ job'[q] = job[q] /\ work'[q] = work[q]
  PROVE  \A q \in Run : Untouched(q) \/ HandsOver(q)
  <1>1. \A q \in Run \ {r} : pc'[q] = pc[q]
    BY DEF TypeInv, TypeOK, Goto
  <1>2. \A q \in Run \ {r} : Untouched(q)
    BY <1>1 DEF Untouched
  <1>3. HandsOver(r)
    BY DEF HandsOver
  <1> QED
    BY <1>2, <1>3

LEMMA MessagesOfStart ==
  ASSUME Faults = FALSE, TypeInv, MessageInv, NEW r \in Run,
         \/ LoadConversation(r) \/ TryStart(r) \/ TryStartFails(r) \/ BuildRunner(r)
         \/ ReadCheckpoint(r) \/ LoadHistory(r) \/ TakeAnswer(r)
  PROVE  MessageInv'
  <1>1. work \in [Run -> Work] /\ work[r].has \in BOOLEAN
    BY DEF TypeInv, TypeOK, Work
  <1>2. /\ queues' = queues /\ loop' = loop /\ job' = job
        /\ UNCHANGED <<sent, cancelled, answered, dropped>>
    BY DEF LoadConversation, TryStart, TryStartFails, BuildRunner, ReadCheckpoint, LoadHistory,
       TakeAnswer, jobVars, clientVars, history
  <1> SUFFICES \A q \in Run : Untouched(q) \/ HandsOver(q)
    BY <1>2, QueueSame, MessagesStay
  <1> USE DEF Over, Ending
  <1>3. CASE LoadConversation(r)
    <2>1. PICK h : h = dbCkpt[ConvOf(r)]
      OBVIOUS
    <2>2. /\ pc[r] = "load" /\ Goto(r, "register")
          /\ work' = [work EXCEPT ![r].has = h]
      BY <1>3, <2>1 DEF LoadConversation
    <2>3. \A q \in Run \ {r} : work'[q] = work[q]
      BY <1>1, <2>2
    <2> QED
      BY <1>2, <2>2, <2>3, GoesOn
  <1>4. CASE TryStart(r)
    <2>1. work' = work /\ pc[r] = "register" /\ Goto(r, "build")
      BY <1>4 DEF TryStart, jobVars
    <2> QED
      BY <1>2, <2>1, GoesOn
  <1>5. CASE TryStartFails(r)
    <2>1. work' = work /\ pc[r] = "register" /\ Goto(r, "refused")
      BY <1>5 DEF TryStartFails, jobVars
    <2> QED
      BY <1>2, <2>1, GoesOn
  <1>6. CASE BuildRunner(r)
    <2>1. work' = work /\ pc[r] = "build" /\ Goto(r, "checkpoint")
      BY <1>6 DEF BuildRunner, jobVars
    <2> QED
      BY <1>2, <2>1, GoesOn
  <1>7. CASE ReadCheckpoint(r)
    <2>1. PICK h : h = (GetCheckpointID(ConvOf(r)) \/ work[r].has)
      OBVIOUS
    <2>2. /\ pc[r] = "checkpoint" /\ Goto(r, "history")
          /\ work' = [work EXCEPT ![r].has = h]
      BY <1>7, <2>1 DEF ReadCheckpoint
    <2>3. /\ work'[r].has = h
          /\ \A q \in Run \ {r} : work'[q] = work[q]
      BY <1>1, <2>2 DEF Work
    <2>4. work[r].has = TRUE => work'[r].has = TRUE
      BY <2>1, <2>3
    <2> QED
      BY <1>2, <2>2, <2>3, <2>4, GoesOn
  <1>8. CASE LoadHistory(r)
    <2>1. PICK X : X = Stored(ConvOf(r))
      OBVIOUS
    <2>2. /\ pc[r] = "history" /\ Goto(r, "choose")
          /\ work' = [work EXCEPT ![r].context = X]
      BY <1>8, <2>1 DEF LoadHistory
    <2>3. /\ work'[r].has = work[r].has /\ work'[r].context = X
          /\ \A q \in Run \ {r} : work'[q] = work[q]
      BY <1>1, <2>2 DEF Work
    <2>4. \A m \in Msg : sent[m] = "sent" /\ Carries(r, m) => m \in work'[r].context
      BY <2>1, <2>3 DEF Stored, Carries
    <2> QED
      BY <1>2, <2>2, <2>3, <2>4, GoesOn
  <1>9. CASE TakeAnswer(r)
    <2>1. PICK i : i = GetResumeParams(ConvOf(r))
      OBVIOUS
    <2>2. /\ pc[r] = "choose" /\ Goto(r, "consume") /\ work[r].has
          /\ work' = [work EXCEPT ![r].take = i]
      BY <1>9, <2>1 DEF TakeAnswer
    <2>3. /\ work'[r].has = work[r].has
          /\ \A q \in Run \ {r} : work'[q] = work[q]
      BY <1>1, <2>2 DEF Work
    <2>4. work'[r].has = TRUE
      BY <1>1, <2>2, <2>3
    <2> QED
      BY <1>2, <2>2, <2>3, <2>4, GoesOn
  <1> QED
    BY <1>3, <1>4, <1>5, <1>6, <1>7, <1>8, <1>9

LEMMA MessagesOfResume ==
  ASSUME Faults = FALSE, TypeInv, MessageInv, NEW r \in Run,
         RunFresh(r) \/ ResumeWithoutAnswer(r) \/ ResumeWithAnswer(r)
  PROVE  MessageInv'
  <1>1. /\ pc \in [Run -> Pcs] /\ loop \in [Run -> Loops] /\ work \in [Run -> Work]
        /\ job \in [Run -> Job]
    BY DEF TypeInv, TypeOK
  <1>2. /\ queues' = queues /\ job' = job
        /\ UNCHANGED <<sent, cancelled, answered, dropped>>
    BY DEF RunFresh, ResumeWithoutAnswer, ResumeWithAnswer, jobVars, clientVars, history
  <1>3. work[r].has \in BOOLEAN /\ work[r].context \in SUBSET Msg
    BY <1>1 DEF Work
  <1> SUFFICES \A q \in Run : Untouched(q) \/ HandsOver(q)
    BY <1>2, QueueSame, MessagesStay
  <1>4. CASE RunFresh(r)
    <2>1. /\ pc[r] = "choose" /\ pc' = [pc EXCEPT ![r] = "wait"] /\ ~work[r].has
          /\ loop' = [loop EXCEPT ![r] = "start"] /\ work' = work
      BY <1>4 DEF RunFresh, Goto, ToLoop, jobVars
    <2>2. \A q \in Run \ {r} : Untouched(q)
      BY <1>1, <1>2, <2>1 DEF Untouched
    <2>3. pc'[r] = "wait" /\ loop'[r] = "start" /\ work[r].has # TRUE
      BY <1>1, <1>3, <2>1
    <2>4. ASSUME NEW m \in Msg, Carries(r, m) PROVE Accounted(m)'
      <3>1. Carries(r, m)'
        BY <1>2, <2>1, <2>3, <2>4 DEF Carries, ConvOf
      <3> QED
        BY <3>1 DEF Accounted
    <2>5. HandsOver(r)
      BY <1>2, <2>1, <2>3, <2>4 DEF HandsOver, Over, Ending
    <2> QED
      BY <2>2, <2>5
  <1>5. CASE ResumeWithoutAnswer(r) \/ ResumeWithAnswer(r)
    <2>1. /\ pc[r] \in {"choose", "consume"} /\ Goto(r, "wait") /\ ToLoop(r, "resumed")
          /\ work' = [work EXCEPT ![r].context = saved[ConvOf(r)]]
          /\ pc[r] = "choose" => work[r].has
      BY <1>5 DEF ResumeWithoutAnswer, ResumeWithAnswer
    <2>2. /\ work'[r].has = work[r].has
          /\ \A q \in Run \ {r} : work'[q] = work[q]
      BY <1>1, <2>1 DEF Work
    <2>3. \A q \in Run \ {r} : Untouched(q)
      BY <1>1, <1>2, <2>1, <2>2 DEF Untouched, Goto, ToLoop
    <2>4. pc'[r] = "wait" /\ pc[r] = "choose" => work[r].has = TRUE
      BY <1>1, <1>3, <2>1
    <2>5. pc'[r] = "wait"
      BY <1>1, <2>1 DEF Goto
    <2>6. ASSUME NEW m \in Msg, Carries(r, m) PROVE Accounted(m)'
      <3>1. work'[r].has = TRUE
        BY <2>1, <2>2, <2>4, <2>5, <2>6 DEF Carries
      <3>2. Resumes(r, m)'
        BY <1>2, <2>6, <3>1 DEF Resumes, Carries, ConvOf
      <3> QED
        BY <3>2 DEF Accounted
    <2>7. HandsOver(r)
      BY <1>2, <2>1, <2>2, <2>5, <2>6 DEF HandsOver, Over, Ending
    <2> QED
      BY <2>3, <2>7
  <1> QED
    BY <1>4, <1>5

LEMMA MessagesOfEnd ==
  ASSUME Undisturbed, TypeInv, LockInv, MessageInv, NEW r \in Run,
         \/ LoopClosed(r) \/ LoopTimesOut(r) \/ CheckPending(r) \/ CleanupSession(r)
         \/ CleanupQueue(r) \/ SignalDone(r)
  PROVE  MessageInv'
  <1>1. /\ pc \in [Run -> Pcs] /\ work \in [Run -> Work] /\ ConvOf(r) \in Conv
        /\ Dest \in [Msg -> Conv]
    BY ConvOfType, AgentRunConstants DEF TypeInv, TypeOK
  <1>2. job' = job /\ loop' = loop /\ sent' = sent /\ answered' = answered
    BY DEF LoopClosed, LoopTimesOut, LeaveWait, CheckPending, CleanupSession, CleanupQueue,
       SignalDone, jobVars, clientVars, history
  <1>3. PICK x : Goto(r, x) /\ x \in Over
    BY DEF LoopClosed, LoopTimesOut, LeaveWait, CheckPending, CleanupSession, CleanupQueue,
       SignalDone, Over, Ending
  <1>4. pc'[r] = x
    BY <1>1, <1>3 DEF Goto
  <1>5. /\ work'[r].has = work[r].has
        /\ \A q \in Run \ {r} : work'[q] = work[q]
    <2>1. CASE CheckPending(r)
      <3>1. PICK h : h = Q!HasPending(ConvOf(r))
        OBVIOUS
      <3>2. work' = [work EXCEPT ![r].again = h]
        BY <2>1, <3>1 DEF CheckPending
      <3> QED
        BY <1>1, <3>2 DEF Work
    <2>2. CASE ~CheckPending(r)
      BY <2>2 DEF LoopClosed, LoopTimesOut, LeaveWait, CleanupSession, CleanupQueue,
         SignalDone, jobVars
    <2> QED
      BY <2>1, <2>2
  <1>6. \A m \in Msg : ~Carries(r, m)
    BY DEF LoopClosed, LoopTimesOut, LeaveWait, CheckPending, CleanupSession, CleanupQueue,
       SignalDone, Carries, Undisturbed, LockInv, NobodyStops
  <1>7. pc[r] \notin {"free", "load"} /\ pc'[r] \notin {"free", "load"}
    BY <1>3, <1>4 DEF LoopClosed, LoopTimesOut, LeaveWait, CheckPending, CleanupSession,
       CleanupQueue, SignalDone, Over, Ending
  <1>8. \A q \in Run : Untouched(q) \/ HandsOver(q)
    BY <1>2, <1>3, <1>4, <1>5, <1>6, <1>7, CarriesNothing
  <1>9. \A q \in cancelled' : q \in cancelled \/ pc'[q] \in Over
    BY <1>3, <1>4 DEF LoopClosed, LoopTimesOut, LeaveWait, CheckPending, CleanupSession,
       CleanupQueue, SignalDone
  <1>10. CASE CleanupQueue(r)
    <2>1. PICK gone : gone = {m \in Msg : \E n \in DOMAIN queues[ConvOf(r)] :
                                   queues[ConvOf(r)][n] = m}
      OBVIOUS
    <2>2. queues' = [queues EXCEPT ![ConvOf(r)] = <<>>] /\ dropped' = dropped \cup gone
      BY <1>10, <2>1 DEF CleanupQueue, Q!QueueCleanup
    <2>3. \A m \in Msg : InQueue(m) => InQueue(m)' \/ m \in dropped'
      BY <1>1, <2>1, <2>2, Emptied
    <2> QED
      BY <1>2, <1>8, <1>9, <2>2, <2>3, MessagesStay
  <1>11. CASE ~CleanupQueue(r)
    <2>1. queues' = queues /\ dropped' = dropped
      BY <1>11 DEF LoopClosed, LoopTimesOut, LeaveWait, CheckPending, CleanupSession,
         SignalDone, history
    <2> QED
      BY <1>2, <1>8, <1>9, <2>1, QueueSame, MessagesStay
  <1> QED
    BY <1>10, <1>11

LEMMA MessagesOfOuter ==
  ASSUME Undisturbed, Faults = FALSE, TypeInv, LockInv, MessageInv, NEW r \in Run, OuterStep(r)
  PROVE  MessageInv'
  <1>1. /\ pc \in [Run -> Pcs] /\ job \in [Run -> Job] /\ ConvOf(r) \in Conv
        /\ job[r].text \in Content
    BY ConvOfType DEF TypeInv, TypeOK, Job
  <1>2. ~LoadConversationFails(r) /\ ~BuildRunnerFails(r)
    BY DEF LoadConversationFails, BuildRunnerFails
  <1>3. ~HaltReturns(r) /\ ~HaltCleansUp(r) /\ ~HaltClearsCheckpoint(r)
    BY DEF LockInv, NobodyStops, HaltReturns, HaltCleansUp, HaltClearsCheckpoint
  <1>4. CASE EnqueueRefused(r)
    <2>1. /\ pc[r] = "refused" /\ pc' = [pc EXCEPT ![r] = "gone"]
          /\ Q!Enqueue(ConvOf(r), job[r].text) /\ cancelled' = cancelled \cup {r}
          /\ UNCHANGED <<loop, job, work, sent, answered, dropped>>
      BY <1>4 DEF EnqueueRefused, Goto, jobVars, clientVars, history
    <2>2. /\ \A m \in Msg : InQueue(m) => InQueue(m)'
          /\ \A m \in Msg : m = job[r].text /\ Dest[m] = ConvOf(r) => InQueue(m)'
      BY <1>1, <2>1, Enqueued
    <2>3. \A q \in Run \ {r} : Untouched(q)
      BY <1>1, <2>1 DEF Untouched
    <2>4. pc'[r] = "gone"
      BY <1>1, <2>1
    <2>5. HandsOver(r)
      BY <2>1, <2>2, <2>4 DEF HandsOver, Carries, Accounted, Over, Ending
    <2> QED
      BY <2>1, <2>2, <2>3, <2>4, <2>5, MessagesStay DEF Over
  <1>5. ASSUME NEW q \in Run, Respawn(r, q) PROVE MessageInv'
    <2>1. PICK j : j = [conv |-> ConvOf(r), text |-> job[r].text, parent |-> NoConv]
      OBVIOUS
    <2>2. /\ pc[r] = "respawn" /\ pc[q] = "free" /\ queues' = queues
          /\ pc' = [pc EXCEPT ![r] = "gone", ![q] = "load"] /\ job' = [job EXCEPT ![q] = j]
          /\ UNCHANGED <<loop, work, sent, cancelled, answered, dropped>>
      BY <1>5, <2>1 DEF Respawn, clientVars, history
    <2>3. r # q /\ pc'[r] = "gone" /\ pc'[q] = "load" /\ job'[r] = job[r]
      BY <1>1, <2>2
    <2>4. \A p \in Run \ {q, r} : Untouched(p)
      BY <1>1, <2>2 DEF Untouched
    <2>5. HandsOver(r)
      BY <2>2, <2>3 DEF HandsOver, Carries, Over, Ending
    <2>6. HandsOver(q)
      BY <2>2, <2>3 DEF HandsOver, Carries, Over, Ending, MessageInv
    <2> QED
      BY <2>2, <2>4, <2>5, <2>6, QueueSame, MessagesStay
  <1>6. CASE CleanupUnbuilt(r)
    <2>1. /\ pc[r] = "unbuilt" /\ pc'[r] = "gone" /\ queues' = queues
          /\ \A q \in Run \ {r} : pc'[q] = pc[q]
          /\ UNCHANGED <<loop, job, work, sent, cancelled, answered, dropped>>
      BY <1>1, <1>6 DEF CleanupUnbuilt, Goto, jobVars, clientVars, history
    <2>2. \A q \in Run \ {r} : Untouched(q)
      BY <2>1 DEF Untouched
    <2>3. HandsOver(r)
      BY <2>1 DEF HandsOver, Carries, Over, Ending
    <2> QED
      BY <2>1, <2>2, <2>3, QueueSame, MessagesStay
  <1> QED
    BY <1>2, <1>3, <1>4, <1>5, <1>6, MessagesOfStart, MessagesOfResume, MessagesOfEnd
       DEF OuterStep

LEMMA MessageInvariance == Undisturbed /\ Faults = FALSE => (Spec => []MessageInv)
  <1> SUFFICES ASSUME Undisturbed, Faults = FALSE PROVE Spec => []MessageInv
    OBVIOUS
  <1>1. Init => MessageInv
    BY DEF Init, MessageInv
  <1>2. TypeInv /\ LockInv /\ MessageInv /\ [Next]_vars => MessageInv'
    <2> SUFFICES ASSUME TypeInv, LockInv, MessageInv, [Next]_vars PROVE MessageInv'
      OBVIOUS
    <2>1. \A t \in Thread : ~StopStep(t)
      BY DEF LockInv, NobodyStops, StopStep, CollectChildren, StopChild, StopSession,
             CancelVictim, ReturnFromStop, Active
    <2>2. \A s \in StopReq, c \in Conv : ~RequestStop(s, c)
      BY DEF Undisturbed
    <2> QED
      BY <2>1, <2>2, MessagesOfUsers, MessagesOfOuter, MessagesOfLoop DEF Next, UserStep
  <1> QED
    BY <1>1, <1>2, TypeInvariance, LockInvariance, PTL DEF Spec

\* With no failure, stop, overflow or timeout, a message that no model was shown
\* when all is quiet was deleted by the cleanup of an ending run, lies in its
\* queue, or its conversation was resumed from an older checkpoint: however
\* senders, runs and answers interleave there is no fourth way to lose one.
THEOREM LossIsExplained == Undisturbed /\ Faults = FALSE => (Spec => []UnansweredIsExplained)
  <1>1. MessageInv => UnansweredIsExplained
    <2> SUFFICES ASSUME MessageInv, Settled, NEW m \in Msg, sent[m] = "sent"
                 PROVE  \/ m \in answered \cup dropped
                        \/ InQueue(m)
                        \/ \E r \in Run : ConvOf(r) = Dest[m] /\ work[r].has
      BY DEF UnansweredIsExplained
    <2>1. \A r \in Run : ~Carries(r, m)
      BY DEF Settled, Carries
    <2>2. \A r \in Run : Resumes(r, m) => ConvOf(r) = Dest[m] /\ work[r].has
      BY DEF Resumes
    <2> QED
      BY <2>1, <2>2 DEF MessageInv, Accounted
  <1> QED
    BY <1>1, MessageInvariance, PTL

=============================================================================
