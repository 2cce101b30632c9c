-------------------------- MODULE ToolApprovalProofs --------------------------
(***************************************************************************)
(* Proofs about permissions and questions, for any calls, operations,      *)
(* globs, review levels and modes, and any number of messages.             *)
(***************************************************************************)
EXTENDS ToolApproval, TLAPS

-----------------------------------------------------------------------------
(* The inductive invariant.                                                *)

\* An interrupt of call k.
For(id, k) == id # NoId /\ id[1] = k

Unsettled == {"called", "review", "ask", "run"}

\* Calls are under way only in the current step of a running run, and
\* identifiers are those of the calls they interrupted.
Control ==
  /\ phase # "idle" => runMode \in Modes
  /\ phase \in {"idle", "loaded"} => batch = {} /\ \A k \in ToolCall : was[k] = NoId
  /\ \A k \in ToolCall : at[k] \in Unsettled => phase = "running" /\ k \in batch
  /\ \A k \in ToolCall : at[k] = "review" => runMode = "edit_automatically"
  /\ \A k \in DOMAIN ckpt : For(ckpt[k], k)
  /\ \A k \in ToolCall : was[k] # NoId => For(was[k], k)

\* A record is made when its call interrupts, once, and decided once.
RecordOf(k) ==
  /\ rec[k].status # "answered" => rec[k].decision = "none"
  /\ rec[k].status = "none" => rec[k].tag = NoId
  /\ at[k] \in {"new", "review", "ask"} => rec[k].status = "none"
  /\ at[k] \in {"called", "run"} /\ was[k] = NoId => rec[k].status = "none"
  /\ rec[k].status = "pending" => shown[k] \subseteq {NoId, rec[k].tag}
  /\ k \in Tool =>
       /\ at[k] # "again"
       /\ k \in DOMAIN ckpt \/ at[k] = "asked" => rec[k].status # "none"
       /\ k \in batch /\ at[k] = "asked" => rec[k].tag = NoId
       /\ rec[k].decision # "text"
       /\ rec[k].status # "answered" => via[k] = NoId
       /\ via[k] \in {NoId, rec[k].tag}
  /\ k \in Question =>
       /\ k \in batch /\ at[k] = "asked" => rec[k].status = "none"
       /\ rec[k].decision \in {"none", "text"}
       /\ rec[k].status # "none" => For(rec[k].tag, k)

Records == \A k \in ToolCall : RecordOf(k)

\* A record has the identifier of a call that has a record.
Tagged == \A j, k \in Tool : For(rec[j].tag, k) => rec[k].status # "none"

\* An answer is that of a decided record, under the identifier it was passed on
\* for.
FromRecord(a) ==
  a = NoAnswer \/ a.id = NoId \/
  \E j \in ToolCall : /\ rec[j].status = "answered"
                      /\ rec[j].decision = a.decision
                      /\ IF j \in Tool THEN via[j] = a.id ELSE rec[j].tag = a.id

Answers ==
  /\ \A a \in answers : FromRecord(a)
  /\ FromRecord(params) /\ FromRecord(target)

\* What lets call k through, in the given mode.
LetThrough(k, mode) ==
  \/ mode = "bypass_permissions"
  \/ Decided(k, Approve)
  \/ rec[k].status = "none" /\ mode = "edit_automatically" /\ (Whitelisted(k) \/ low)

\* Call k is made in its own right.
OwnRight(k) == was[k] = NoId \/ Addressed(k)

ConsentOf(k) ==
  /\ at[k] = "run" /\ OwnRight(k) => LetThrough(k, runMode)
  /\ \A mode \in ran[k] : LetThrough(k, mode)
  /\ ran[k] # {} /\ rec[k].status = "none" => at[k] = "done"

Consent == \A k \in Tool : ConsentOf(k)

\* One record at most was answered for the interrupt of the call.  Its answer
\* is in one place, and while it is anywhere the call was not executed.
Single(k) == \A i, j \in Answering(k) : i = j

NotAmong(k) == \A a \in answers : ~For(a.id, k)
NotStored(k) == params # NoAnswer => ~For(params.id, k)

TokenOf(k) ==
  /\ \A a \in answers : For(a.id, k) => ran[k] = {}
  /\ \A a, b \in answers : For(a.id, k) /\ For(b.id, k) => a = b
  /\ params # NoAnswer /\ For(params.id, k) => ran[k] = {} /\ NotAmong(k)
  /\ Addressed(k) /\ at[k] \in Unsettled => ran[k] = {} /\ NotAmong(k) /\ NotStored(k)
  /\ Answering(k) = {} /\ rec[k].status # "none" => ran[k] = {}

Tokens == \A k \in Tool : Single(k) => TokenOf(k)

\* An interrupted call is in the checkpoint the next run resumes, and while its
\* answer is accepted that run is still to come.
SavedAll ==
  phase = "saved" => flagged /\ \A k \in batch : at[k] = "asked" => k \in DOMAIN ckpt

ResumableOf(k) ==
  at[k] = "asked" =>
    /\ phase \in {"running", "saved"} => k \in batch
    /\ phase = "idle" => (flagged \/ ckptId) /\ k \in DOMAIN ckpt
    /\ phase = "loaded" => (has \/ ckptId) /\ k \in DOMAIN ckpt
    /\ rec[k].status = "answered" =>
         answers # {} \/ phase = "loaded" \/ (phase = "idle" /\ spawned > 0)

Resumable == ~mislaid => SavedAll /\ \A k \in Tool : ResumableOf(k)

Inv == TypeOK /\ Control /\ Records /\ Tagged /\ Answers /\ Consent /\ Tokens /\ Resumable /\ RunsOnce
       /\ RememberedByUser

-----------------------------------------------------------------------------
(* Types.                                                                  *)

LEMMA ToolsAreCalls == \A k \in Tool : k \in ToolCall /\ k \notin Question
  BY ApprovalAssumption DEF ToolCall

LEMMA QuestionsAreCalls == \A k \in Question : k \in ToolCall /\ k \notin Tool
  BY ApprovalAssumption DEF ToolCall

LEMMA MovesType ==
  ASSUME TypeOK, NEW k \in ToolCall,
         NEW label \in {"new", "called", "review", "ask", "run"} \cup Settled, Moves(k, label)
  PROVE  at' \in [ToolCall -> {"new", "called", "review", "ask", "run"} \cup Settled]
  BY DEF TypeOK, Moves

LEMMA EndsType ==
  ASSUME TypeOK, Ends
  PROVE  /\ phase' = "idle" /\ runMode' = "none" /\ batch' = {}
         /\ has' \in BOOLEAN /\ ckptId' \in BOOLEAN
         /\ target' = NoAnswer /\ params' = NoAnswer /\ channel' = <<>>
         /\ was' \in [ToolCall -> Id]
         /\ reports' \in [Tool -> 0 .. MaxReports]
  <1>1. 0 \in 0 .. MaxReports
    BY ApprovalAssumption
  <1> QED
    BY <1>1 DEF Ends, Id

LEMMA CallType ==
  ASSUME TypeOK, Control, NEW k \in ToolCall, CallStep(k)
  PROVE  TypeOK'
  <1> USE DEF vars, runVars, reviewVars, userVars, resumeVars, history
  <1>1. CASE Bypass(k)
    BY <1>1 DEF Bypass, Moves, TypeOK
  <1>2. CASE CheckPermission(k)
    <2>1. reports' \in [Tool -> 0 .. MaxReports]
      BY <1>2, ApprovalAssumption DEF CheckPermission, TypeOK
    <2> QED
      BY <1>2, <2>1 DEF CheckPermission, FirstCheck, Moves, TypeOK
  <1>3. CASE HandleResume(k)
    BY <1>3, ApprovalAssumption DEF HandleResume, Moves, TypeOK, Settled
  <1>4. CASE TakeReport(k)
    BY <1>4 DEF TakeReport, Judge, Moves, TypeOK
  <1>5. CASE ReviewTimesOut(k)
    BY <1>5 DEF ReviewTimesOut, Judge, Moves, TypeOK
  <1>6. CASE Interrupt(k)
    BY <1>6 DEF Interrupt, Moves, NoRecord, TypeOK, Settled, Interrupted, Id
  <1>7. CASE InterruptFails(k)
    BY <1>7 DEF InterruptFails, Moves, TypeOK, Settled
  <1>8. CASE Invoke(k)
    <2>1. runMode \in Mode
      BY <1>8, ApprovalAssumption DEF Invoke, Control, Unsettled
    <2>2. ran' \in [Tool -> SUBSET Mode] /\ twice' \subseteq Tool /\ unasked' \subseteq Tool
      <3>1. CASE was[k] = NoId \/ Addressed(k)
        BY <1>8, <2>1, <3>1 DEF Invoke, TypeOK
      <3>2. CASE ~(was[k] = NoId \/ Addressed(k))
        BY <1>8, <3>2 DEF Invoke, TypeOK
      <3> QED
        BY <3>1, <3>2
    <2> QED
      BY <1>8, <2>2 DEF Invoke, Moves, TypeOK, Settled
  <1>9. CASE AskQuestion(k)
    BY <1>9 DEF AskQuestion, Moves, TypeOK, Settled, Interrupted
  <1> QED
    BY <1>1, <1>2, <1>3, <1>4, <1>5, <1>6, <1>7, <1>8, <1>9 DEF CallStep

LEMMA RunType ==
  ASSUME TypeOK, Control, RunStep
  PROVE  TypeOK'
  <1> USE DEF vars, runVars, reviewVars, userVars, resumeVars, history
  <1>1. CASE StartRun
    <2>1. spawned' \in Nat /\ run' \in Nat
      BY <1>1 DEF StartRun, TypeOK
    <2>2. runMode' \in Mode \cup {"none"}
      BY <1>1, ApprovalAssumption DEF StartRun
    <2> QED
      BY <1>1, <2>1, <2>2 DEF StartRun, TypeOK
  <1>2. CASE RunFresh
    BY <1>2 DEF RunFresh, TypeOK
  <1>3. CASE ResumeRun
    <2>1. was' \in [ToolCall -> Id]
      BY <1>3 DEF ResumeRun, TypeOK, Id
    <2> QED
      BY <1>3, <2>1 DEF ResumeRun, TypeOK
  <1>4. CASE StepDone
    BY <1>4 DEF StepDone, TypeOK
  <1>5. CASE FinishRun
    BY <1>5, EndsType DEF FinishRun, TypeOK, Ends
  <1>6. CASE FailRun
    BY <1>6, EndsType DEF FailRun, TypeOK, Ends, Settled
  <1>7. CASE SaveCheckpoint
    <2>1. flagged' \in BOOLEAN
      BY <1>7, Zenon DEF SaveCheckpoint, TypeOK
    <2>2. mislaid' \in BOOLEAN
      BY <1>7, Zenon DEF SaveCheckpoint, TypeOK
    <2> QED
      BY <1>7, <2>1, <2>2 DEF SaveCheckpoint, TypeOK, Id
  <1>8. ASSUME NEW q \in Question, PublishQuestion(q)
        PROVE  TypeOK'
    <2>1. <<q, run>> \in Id /\ q \in ToolCall
      BY QuestionsAreCalls DEF TypeOK, Id
    <2>2. shown' \in [ToolCall -> SUBSET Id]
      BY <1>8, <2>1 DEF PublishQuestion, TypeOK
    <2>3. rec' \in [ToolCall -> [status : {"none", "pending", "answered"},
                                 decision : Decision \cup {"none", "text"}, tag : Id]]
      BY <1>8, <2>1 DEF PublishQuestion, TypeOK, NoRecord
    <2> QED
      BY <1>8, <2>2, <2>3, EndsType DEF PublishQuestion, TypeOK
  <1>9. ASSUME NEW first \in Tool, NEW second \in Tool, PublishPermission(first, second)
        PROVE  TypeOK'
    <2>1. <<second, run>> \in Id
      BY ToolsAreCalls DEF TypeOK, Id
    <2>2. shown' \in [ToolCall -> SUBSET Id]
      BY <1>9, <2>1 DEF PublishPermission, TypeOK
    <2>3. rec' \in [ToolCall -> [status : {"none", "pending", "answered"},
                                 decision : Decision \cup {"none", "text"}, tag : Id]]
      BY <1>9, <2>1 DEF PublishPermission, TypeOK
    <2> QED
      BY <1>9, <2>2, <2>3, EndsType DEF PublishPermission, TypeOK
  <1>10. CASE PublishNothing
    BY <1>10, EndsType DEF PublishNothing, TypeOK
  <1> QED
    BY <1>1, <1>2, <1>3, <1>4, <1>5, <1>6, <1>7, <1>8, <1>9, <1>10 DEF RunStep

LEMMA UserType ==
  ASSUME TypeOK, UserStep \/ \E answer \in answers : ResumeAgent(answer)
  PROVE  TypeOK'
  <1> USE DEF vars, runVars, reviewVars, userVars, resumeVars, history
  <1>1. ASSUME NEW k \in Tool, NEW d \in Decision, NEW id \in shown[k], AnswerPermission(k, d, id)
        PROVE  TypeOK'
    <2>1. [id |-> id, decision |-> d] \in Answer
      BY ToolsAreCalls DEF TypeOK, Answer
    <2>2. rec' = [rec EXCEPT ![k].status = "answered", ![k].decision = d]
      BY <1>1 DEF AnswerPermission
    <2>3. rec' \in [ToolCall -> [status : {"none", "pending", "answered"},
                                 decision : Decision \cup {"none", "text"}, tag : Id]]
      BY <2>2, ToolsAreCalls DEF TypeOK
    <2>4. whitelist' \subseteq Op
      BY <1>1, ApprovalAssumption DEF AnswerPermission, TypeOK
    <2>5. answers' \subseteq Answer /\ via' \in [Tool -> Id]
      <3>1. id \in Id
        BY ToolsAreCalls DEF TypeOK
      <3>2. \/ /\ answers' = answers \cup {[id |-> id, decision |-> d]}
               /\ via' = [via EXCEPT ![k] = id]
            \/ UNCHANGED <<answers, via>>
        BY <1>1 DEF AnswerPermission
      <3> QED
        BY <2>1, <3>1, <3>2 DEF TypeOK
    <2>6. mislaid' \in BOOLEAN
      BY <1>1, Zenon DEF AnswerPermission, TypeOK
    <2> QED
      BY <1>1, <2>3, <2>4, <2>5, <2>6 DEF AnswerPermission, TypeOK
  <1>2. ASSUME NEW k \in Question, NEW id \in shown[k], AnswerQuestion(k, id)
        PROVE  TypeOK'
    <2>1. [id |-> id, decision |-> "text"] \in Answer
      BY QuestionsAreCalls DEF TypeOK, Answer
    <2>2. rec' \in [ToolCall -> [status : {"none", "pending", "answered"},
                                 decision : Decision \cup {"none", "text"}, tag : Id]]
      <3>1. rec' = [rec EXCEPT ![k].status = "answered", ![k].decision = "text"]
        BY <1>2 DEF AnswerQuestion
      <3>2. k \in ToolCall
        BY QuestionsAreCalls
      <3> QED
        BY <3>1, <3>2 DEF TypeOK
    <2>3. mislaid' \in BOOLEAN
      BY <1>2, Zenon DEF AnswerQuestion, TypeOK
    <2>4. answers' \subseteq Answer
      BY <1>2, <2>1 DEF AnswerQuestion, TypeOK
    <2>5. UNCHANGED <<phase, runVars, batch, at, was, reviewVars, ckpt, shown, sends, resumeVars,
                      whitelist, ran, twice, unasked, via>>
      BY <1>2 DEF AnswerQuestion
    <2> QED
      BY <2>2, <2>3, <2>4, <2>5 DEF TypeOK
  <1>3. CASE SendMessage
    <2>1. sends' \in 0 .. MaxSends /\ spawned' \in Nat
      BY <1>3, ApprovalAssumption DEF SendMessage, TypeOK
    <2> QED
      BY <1>3, <2>1 DEF SendMessage, TypeOK
  <1>4. ASSUME NEW answer \in answers, ResumeAgent(answer)
        PROVE  TypeOK'
    <2>1. mislaid' \in BOOLEAN
      <3>1. CASE phase = "idle"
        BY <1>4, <3>1, Zenon DEF ResumeAgent
      <3>2. CASE phase # "idle"
        BY <1>4, <3>2, Zenon DEF ResumeAgent
      <3> QED
        BY <3>1, <3>2
    <2>2. params' \in Answer /\ answers' \subseteq Answer /\ spawned' \in Nat
      BY <1>4 DEF ResumeAgent, TypeOK
    <2>3. flagged' \in BOOLEAN
      BY <1>4, Zenon DEF ResumeAgent, TypeOK
    <2> QED
      BY <1>4, <2>1, <2>2, <2>3 DEF ResumeAgent, TypeOK
  <1>5. CASE AnswerStep
    BY <1>1, <1>2, <1>5 DEF AnswerStep
  <1> QED
    BY <1>3, <1>4, <1>5 DEF UserStep

LEMMA AskType ==
  ASSUME TypeOK, NEW calls \in SUBSET ToolCall, AskForTools(calls)
  PROVE  TypeOK'
  <1>1. was' \in [ToolCall -> Id]
    BY DEF AskForTools, TypeOK, Id
  <1> QED
    BY <1>1 DEF AskForTools, TypeOK, runVars, reviewVars, userVars, resumeVars, history

LEMMA ReportType ==
  ASSUME TypeOK, NEW k \in Tool, ReviewStep(k)
  PROVE  TypeOK'
  <1>1. PICK level \in Levels : Report(k, level)
    BY DEF ReviewStep
  <1>2. reports' \in [Tool -> 0 .. MaxReports]
    BY <1>1, ApprovalAssumption DEF Report, TypeOK
  <1> QED
    BY <1>1, <1>2 DEF Report, TypeOK, runVars, userVars, resumeVars, history

LEMMA TypeStep ==
  ASSUME TypeOK, Control, [Next]_vars
  PROVE  TypeOK'
  <1> USE DEF vars, runVars, reviewVars, userVars, resumeVars, history
  <1>1. CASE RefuseRun
    BY <1>1 DEF RefuseRun, TypeOK
  <1>2. CASE UNCHANGED vars
    BY <1>2 DEF TypeOK
  <1> QED
    BY <1>1, <1>2, CallType, RunType, UserType, AskType, ReportType DEF Next

-----------------------------------------------------------------------------
(* Control.                                                                *)

LEMMA IdsAreFor == \A k, n : For(<<k, n>>, k)
  BY DEF For, NoId

LEMMA ControlOfCalls ==
  ASSUME TypeOK, Control, NEW k \in ToolCall, CallStep(k)
  PROVE  Control'
  <1> USE DEF runVars, reviewVars, userVars, resumeVars, history
  <1>1. /\ phase = "running" /\ k \in batch
        /\ UNCHANGED <<phase, runMode, batch, was, ckpt>>
        /\ \A j \in ToolCall \ {k} : at'[j] = at[j]
    BY DEF CallStep, Bypass, CheckPermission, HandleResume, TakeReport, ReviewTimesOut, Interrupt,
           InterruptFails, Invoke, AskQuestion, Enters, Judge, Moves, Control, Unsettled, TypeOK
  <1>2. at'[k] = "review" => at[k] = "review" \/ runMode = "edit_automatically"
    BY <1>1, ApprovalAssumption
    DEF CallStep, Bypass, CheckPermission, HandleResume, TakeReport, ReviewTimesOut, Interrupt,
        InterruptFails, Invoke, AskQuestion, FirstCheck, Judge, Moves, Control, TypeOK, Mode
  <1> QED
    BY <1>1, <1>2 DEF Control

LEMMA ControlOfRuns ==
  ASSUME TypeOK, Control, RunStep
  PROVE  Control'
  <1> USE DEF runVars, reviewVars, userVars, resumeVars, history
  <1>1. CASE StartRun
    BY <1>1 DEF StartRun, Control, Unsettled
  <1>2. CASE RunFresh
    BY <1>2 DEF RunFresh, Control, Unsettled
  <1>3. CASE ResumeRun
    BY <1>3 DEF ResumeRun, TypeOK, Control, Unsettled
  <1>4. CASE StepDone
    BY <1>4 DEF StepDone, TypeOK, Control, Unsettled
  <1>5. ASSUME Over, Ends, UNCHANGED <<at, ckpt>>
        PROVE  Control'
    BY <1>5 DEF Over, Ends, Control, Settled, Interrupted, Unsettled
  <1>6. CASE FailRun
    BY <1>6 DEF FailRun, Over, Ends, Control, Settled, Interrupted, Unsettled
  <1>7. CASE SaveCheckpoint
    BY <1>7, IdsAreFor DEF SaveCheckpoint, Over, Control, Settled, Interrupted, Unsettled
  <1>8. ASSUME phase = "saved", Ends, UNCHANGED <<at, ckpt>>
        PROVE  Control'
    BY <1>8 DEF Ends, Control, Unsettled
  <1> QED
    BY <1>1, <1>2, <1>3, <1>4, <1>5, <1>6, <1>7, <1>8
    DEF RunStep, FinishRun, PublishQuestion, PublishPermission, PublishNothing

LEMMA ControlStep ==
  ASSUME TypeOK, Control, [Next]_vars
  PROVE  Control'
  <1> USE DEF vars, runVars, reviewVars, userVars, resumeVars, history
  <1>1. ASSUME NEW calls \in SUBSET ToolCall, AskForTools(calls)
        PROVE  Control'
    BY <1>1 DEF AskForTools, TypeOK, Control, Unsettled
  <1>2. ASSUME UNCHANGED <<phase, runMode, batch, at, ckpt, was>>
        PROVE  Control'
    BY <1>2 DEF Control
  <1>3. ASSUME UserStep \/ RefuseRun \/ (\E k \in Tool : ReviewStep(k))
               \/ (\E answer \in answers : ResumeAgent(answer)) \/ UNCHANGED vars
        PROVE  UNCHANGED <<phase, runMode, batch, at, ckpt, was>>
    BY <1>3 DEF UserStep, AnswerStep, AnswerPermission, AnswerQuestion, SendMessage, RefuseRun,
                ReviewStep, Report, ResumeAgent
  <1> QED
    BY <1>1, <1>2, <1>3, ControlOfCalls, ControlOfRuns DEF Next

-----------------------------------------------------------------------------
(* Records.                                                                *)

LEMMA RecordsOfCalls ==
  ASSUME TypeOK, Control, Records, NEW k \in ToolCall, CallStep(k)
  PROVE  Records'
  <1> USE DEF runVars, reviewVars, userVars, resumeVars, history
  <1>1. /\ UNCHANGED <<was, batch, ckpt, via>>
        /\ \A j \in ToolCall \ {k} : UNCHANGED <<at[j], rec[j], shown[j]>>
    BY DEF CallStep, Bypass, CheckPermission, HandleResume, TakeReport, ReviewTimesOut, Interrupt,
           InterruptFails, Invoke, AskQuestion, Enters, Judge, Moves, TypeOK
  <1>2. \A j \in ToolCall \ {k} : RecordOf(j) => RecordOf(j)'
    BY <1>1 DEF RecordOf
  <1>3. RecordOf(k)
    BY DEF Records
  <1>4. RecordOf(k)'
    <2>1. CASE CheckPermission(k)
      BY <2>1, <1>3 DEF CheckPermission, FirstCheck, Enters, Moves, RecordOf, TypeOK
    <2>2. CASE TakeReport(k) \/ ReviewTimesOut(k)
      BY <2>2, <1>3 DEF TakeReport, ReviewTimesOut, Judge, Moves, RecordOf, TypeOK
    <2>3. CASE Interrupt(k)
      BY <2>3, <1>3, ToolsAreCalls DEF Interrupt, Moves, RecordOf, TypeOK, NoRecord
    <2>4. CASE AskQuestion(k)
      BY <2>4, <1>3, ToolsAreCalls DEF AskQuestion, Enters, Moves, RecordOf, TypeOK
    <2>5. CASE Bypass(k) \/ HandleResume(k) \/ InterruptFails(k) \/ Invoke(k)
      BY <2>5, <1>3 DEF Bypass, HandleResume, InterruptFails, Invoke, Enters, Moves, RecordOf, TypeOK
    <2> QED
      BY <2>1, <2>2, <2>3, <2>4, <2>5 DEF CallStep
  <1> QED
    BY <1>2, <1>4 DEF Records

LEMMA RecordsOfRuns ==
  ASSUME TypeOK, Control, Records, RunStep
  PROVE  Records'
  <1> USE DEF runVars, reviewVars, userVars, resumeVars, history
  <1> SUFFICES ASSUME NEW k \in ToolCall PROVE RecordOf(k)'
    BY DEF Records
  <1>0. RecordOf(k)
    BY DEF Records
  <1>1. CASE StartRun \/ RunFresh
    BY <1>0, <1>1 DEF StartRun, RunFresh, RecordOf
  <1>2. CASE ResumeRun
    BY <1>0, <1>2 DEF ResumeRun, RecordOf, Control, Unsettled, For, TypeOK
  <1>3. CASE StepDone
    BY <1>0, <1>3 DEF StepDone, RecordOf
  <1>4. CASE FinishRun
    BY <1>0, <1>4 DEF FinishRun, Over, Ends, RecordOf, Control, Unsettled
  <1>5. CASE FailRun
    BY <1>0, <1>5 DEF FailRun, Over, Ends, RecordOf, Control, Unsettled
  <1>6. CASE SaveCheckpoint
    BY <1>0, <1>6 DEF SaveCheckpoint, RecordOf, Interrupted
  <1>7. ASSUME NEW q \in Question, PublishQuestion(q)
        PROVE  RecordOf(k)'
    <2>1. CASE k = q
      BY <1>0, <1>7, <2>1, IdsAreFor, QuestionsAreCalls
      DEF PublishQuestion, Ends, RecordOf, Control, Unsettled, TypeOK, NoRecord
    <2>2. CASE k # q
      BY <1>0, <1>7, <2>2 DEF PublishQuestion, Ends, RecordOf, Control, Unsettled, TypeOK
    <2> QED
      BY <2>1, <2>2
  <1>8. ASSUME NEW first \in Tool, NEW second \in Tool, PublishPermission(first, second)
        PROVE  RecordOf(k)'
    <2>1. CASE Untagged(k)
      BY <1>0, <1>8, <2>1 DEF PublishPermission, Untagged, Ends, RecordOf, Control, Unsettled, TypeOK, For
    <2>2. CASE ~Untagged(k)
      BY <1>0, <1>8, <2>2 DEF PublishPermission, Untagged, Ends, RecordOf, Control, Unsettled, TypeOK
    <2> QED
      BY <2>1, <2>2
  <1>9. CASE PublishNothing
    BY <1>0, <1>9 DEF PublishNothing, Ends, RecordOf, Control, Unsettled
  <1> QED
    BY <1>1, <1>2, <1>3, <1>4, <1>5, <1>6, <1>7, <1>8, <1>9 DEF RunStep

LEMMA RecordsStep ==
  ASSUME TypeOK, Control, Records, [Next]_vars
  PROVE  Records'
  <1> USE DEF vars, runVars, reviewVars, userVars, resumeVars, history
  <1>1. ASSUME NEW k \in Tool, NEW d \in Decision, NEW id \in shown[k], AnswerPermission(k, d, id),
               NEW j \in ToolCall
        PROVE  RecordOf(j)'
    BY <1>1, ToolsAreCalls DEF Records, AnswerPermission, RecordOf, TypeOK, Decision, Approve
  <1>2. ASSUME NEW k \in Question, NEW id \in shown[k], AnswerQuestion(k, id), NEW j \in ToolCall
        PROVE  RecordOf(j)'
    BY <1>2, QuestionsAreCalls DEF Records, AnswerQuestion, RecordOf, TypeOK
  <1>3. ASSUME NEW calls \in SUBSET ToolCall, AskForTools(calls), NEW j \in ToolCall
        PROVE  RecordOf(j)'
    BY <1>3 DEF Records, AskForTools, RecordOf, Control, Unsettled
  <1>4. ASSUME UNCHANGED <<at, was, batch, ckpt, rec, shown, via>>
        PROVE  Records'
    BY <1>4 DEF Records, RecordOf
  <1>5. ASSUME SendMessage \/ RefuseRun \/ (\E k \in Tool : ReviewStep(k))
               \/ (\E answer \in answers : ResumeAgent(answer)) \/ UNCHANGED vars
        PROVE  UNCHANGED <<at, was, batch, ckpt, rec, shown, via>>
    BY <1>5 DEF SendMessage, RefuseRun, ReviewStep, Report, ResumeAgent
  <1>6. CASE AnswerStep
    BY <1>1, <1>2, <1>6 DEF Records, AnswerStep
  <1>7. CASE \E calls \in SUBSET ToolCall : AskForTools(calls)
    BY <1>3, <1>7 DEF Records
  <1> QED
    BY <1>4, <1>5, <1>6, <1>7, RecordsOfCalls, RecordsOfRuns DEF Next, UserStep

-----------------------------------------------------------------------------
(* What is never undone.                                                   *)

Persists(k) ==
  /\ rec[k].status = "answered" => rec'[k] = rec[k] /\ (k \in Tool => via'[k] = via[k])
  /\ rec[k].tag # NoId => rec'[k].tag = rec[k].tag

\* A decided record stays as it is, and an identifier once in a record too.
LEMMA RecordsPersist ==
  ASSUME TypeOK, Control, Records, [Next]_vars, NEW k \in ToolCall
  PROVE  Persists(k)
  <1> USE DEF vars, runVars, reviewVars, userVars, resumeVars, history
  <1>0. RecordOf(k)
    BY DEF Records
  <1>1. ASSUME NEW j \in ToolCall, CallStep(j)
        PROVE  Persists(k)
    <2>1. CASE Interrupt(j)
      BY <1>0, <1>1, <2>1 DEF Interrupt, RecordOf, Persists, TypeOK
    <2>2. CASE ~Interrupt(j)
      BY <1>1, <2>2 DEF CallStep, Bypass, CheckPermission, HandleResume, TakeReport,
         ReviewTimesOut, InterruptFails, Invoke, AskQuestion, Persists
    <2> QED
      BY <2>1, <2>2
  <1>2. ASSUME NEW q \in Question, PublishQuestion(q)
        PROVE  Persists(k)
    BY <1>0, <1>2 DEF PublishQuestion, RecordOf, Persists, TypeOK
  <1>3. ASSUME NEW first \in Tool, NEW second \in Tool, PublishPermission(first, second)
        PROVE  Persists(k)
    BY <1>3 DEF PublishPermission, Untagged, Persists, TypeOK
  <1>4. ASSUME NEW j \in Tool, NEW d \in Decision, NEW id \in shown[j], AnswerPermission(j, d, id)
        PROVE  Persists(k)
    BY <1>4 DEF AnswerPermission, Persists, TypeOK
  <1>5. ASSUME NEW j \in Question, NEW id \in shown[j], AnswerQuestion(j, id)
        PROVE  Persists(k)
    BY <1>5 DEF AnswerQuestion, Persists, TypeOK
  <1>6. CASE UNCHANGED <<rec, via>>
    BY <1>6 DEF Persists
  <1>7. CASE StartRun \/ RunFresh \/ ResumeRun \/ StepDone \/ FinishRun \/ FailRun
             \/ SaveCheckpoint \/ PublishNothing \/ SendMessage \/ RefuseRun
             \/ (\E j \in Tool : ReviewStep(j)) \/ UNCHANGED vars
             \/ (\E calls \in SUBSET ToolCall : AskForTools(calls))
             \/ (\E answer \in answers : ResumeAgent(answer))
    BY <1>7, <1>6 DEF StartRun, RunFresh, ResumeRun, StepDone, FinishRun, FailRun, SaveCheckpoint,
       PublishNothing, SendMessage, RefuseRun, ReviewStep, Report, AskForTools, ResumeAgent
  <1> QED
    BY <1>1, <1>2, <1>3, <1>4, <1>5, <1>7 DEF Next, RunStep, UserStep, AnswerStep

\* So do the rows of the whitelist and the reports.
LEMMA WhitelistGrows ==
  ASSUME [Next]_vars
  PROVE  whitelist \subseteq whitelist'
  <1> USE DEF vars, runVars, reviewVars, userVars, resumeVars, history
  <1>1. ASSUME NEW j \in ToolCall, CallStep(j)
        PROVE  whitelist \subseteq whitelist'
    BY <1>1 DEF CallStep, Bypass, CheckPermission, HandleResume, TakeReport, ReviewTimesOut, Interrupt,
           InterruptFails, Invoke, AskQuestion
  <1>2. CASE RunStep
    BY <1>2 DEF RunStep, StartRun, RunFresh, ResumeRun, StepDone, FinishRun, FailRun, SaveCheckpoint,
           PublishQuestion, PublishPermission, PublishNothing
  <1>3. CASE UserStep \/ RefuseRun \/ (\E k \in Tool : ReviewStep(k)) \/ UNCHANGED vars
             \/ (\E calls \in SUBSET ToolCall : AskForTools(calls))
             \/ (\E answer \in answers : ResumeAgent(answer))
    BY <1>3 DEF UserStep, AnswerStep, AnswerPermission, AnswerQuestion, SendMessage, RefuseRun,
                ReviewStep, Report, AskForTools, ResumeAgent
  <1> QED
    BY <1>1, <1>2, <1>3 DEF Next

LEMMA LowStays ==
  ASSUME TypeOK, [Next]_vars, low
  PROVE  low'
  <1> USE DEF vars, runVars, reviewVars, userVars, resumeVars, history
  <1>1. CASE UNCHANGED low
    BY <1>1
  <1>2. ASSUME NEW k \in ToolCall, TakeReport(k)
        PROVE  low'
    BY <1>2, Zenon DEF TakeReport
  <1>3. CASE RunStep
    BY <1>3, <1>1 DEF RunStep, StartRun, RunFresh, ResumeRun, StepDone, FinishRun, FailRun,
           SaveCheckpoint, PublishQuestion, PublishPermission, PublishNothing
  <1>4. ASSUME NEW j \in ToolCall, CallStep(j)
        PROVE  low'
    BY <1>4, <1>2, <1>1 DEF CallStep, Bypass, CheckPermission, HandleResume, ReviewTimesOut,
           Interrupt, InterruptFails, Invoke, AskQuestion
  <1>5. CASE UserStep \/ RefuseRun \/ (\E k \in Tool : ReviewStep(k)) \/ UNCHANGED vars
             \/ (\E calls \in SUBSET ToolCall : AskForTools(calls))
             \/ (\E answer \in answers : ResumeAgent(answer))
    BY <1>5, <1>1 DEF UserStep, AnswerStep, AnswerPermission, AnswerQuestion, SendMessage, RefuseRun,
                ReviewStep, Report, AskForTools, ResumeAgent
  <1> QED
    BY <1>3, <1>4, <1>5 DEF Next

\* The records answered for a call's interrupt stay so, with their decisions.
LEMMA AnsweringGrows ==
  ASSUME TypeOK, Control, Records, [Next]_vars, NEW k \in Tool
  PROVE  /\ \A j \in Answering(k) : j \in Answering(k)' /\ rec'[j] = rec[j]
         /\ Single(k)' => Single(k)
         /\ \A ds : Decided(k, ds) => Decided(k, ds)'
  <1>1. ASSUME NEW j \in Answering(k)
        PROVE  via'[j] = via[j] /\ rec'[j] = rec[j]
    <2>1. j \in Tool /\ j \in ToolCall /\ via[j] # NoId
      BY ToolsAreCalls DEF Answering
    <2>2. rec[j].status = "answered"
      BY <2>1 DEF Records, RecordOf
    <2> QED
      BY <2>1, <2>2, RecordsPersist DEF Persists
  <1>2. \A j \in Answering(k) : j \in Answering(k)' /\ rec'[j] = rec[j]
    BY <1>1 DEF Answering
  <1> QED
    BY <1>2 DEF Single, Decided

\* Only an interrupt makes the record of a guarded call.
LEMMA RecordMade ==
  ASSUME TypeOK, Control, Records, [Next]_vars, NEW k \in Tool
  PROVE  /\ rec'[k].status = "none" => rec[k].status = "none"
         /\ rec[k].status = "none" => Interrupt(k) \/ rec'[k] = rec[k]
         /\ rec'[k].status = "pending" => Interrupt(k) \/ rec[k].status = "pending"
  <1> USE DEF vars, runVars, reviewVars, userVars, resumeVars, history
  <1> DEFINE Goal == /\ rec'[k].status = "none" => rec[k].status = "none"
                     /\ rec[k].status = "none" => Interrupt(k) \/ rec'[k] = rec[k]
                     /\ rec'[k].status = "pending" => Interrupt(k) \/ rec[k].status = "pending"
  <1>1. ASSUME NEW j \in ToolCall, CallStep(j)
        PROVE  Goal
    <2>1. CASE Interrupt(j)
      BY <2>1, ToolsAreCalls DEF Interrupt, NoRecord, TypeOK
    <2>2. CASE UNCHANGED rec
      BY <2>2
    <2> QED
      BY <1>1, <2>1, <2>2 DEF CallStep, Bypass, CheckPermission, HandleResume, TakeReport,
         ReviewTimesOut, InterruptFails, Invoke, AskQuestion
  <1>2. ASSUME NEW q \in Question, PublishQuestion(q)
        PROVE  Goal
    BY <1>2, ToolsAreCalls DEF PublishQuestion, TypeOK
  <1>3. ASSUME NEW first \in Tool, NEW second \in Tool, PublishPermission(first, second)
        PROVE  Goal
    BY <1>3, ToolsAreCalls DEF PublishPermission, Untagged, TypeOK
  <1>4. ASSUME NEW j \in Tool, NEW d \in Decision, NEW id \in shown[j], AnswerPermission(j, d, id)
        PROVE  Goal
    BY <1>4, ToolsAreCalls DEF AnswerPermission, TypeOK
  <1>5. ASSUME NEW j \in Question, NEW id \in shown[j], AnswerQuestion(j, id)
        PROVE  Goal
    BY <1>5, ToolsAreCalls DEF AnswerQuestion, TypeOK
  <1>6. CASE UNCHANGED rec
    BY <1>6
  <1>7. CASE StartRun \/ RunFresh \/ ResumeRun \/ StepDone \/ FinishRun \/ FailRun
             \/ SaveCheckpoint \/ PublishNothing \/ SendMessage \/ RefuseRun
             \/ (\E j \in Tool : ReviewStep(j)) \/ UNCHANGED vars
             \/ (\E calls \in SUBSET ToolCall : AskForTools(calls))
             \/ (\E answer \in answers : ResumeAgent(answer))
    BY <1>7, <1>6 DEF StartRun, RunFresh, ResumeRun, StepDone, FinishRun, FailRun, SaveCheckpoint,
       PublishNothing, SendMessage, RefuseRun, ReviewStep, Report, AskForTools, ResumeAgent
  <1>8. Goal
    BY <1>1, <1>2, <1>3, <1>4, <1>5, <1>7 DEF Next, RunStep, UserStep, AnswerStep
  <1> QED
    BY <1>8

-----------------------------------------------------------------------------
(* Identifiers of records.                                                 *)

LEMMA TaggedStep ==
  ASSUME TypeOK, Control, Records, Tagged, [Next]_vars
  PROVE  Tagged'
  <1> USE DEF vars, runVars, reviewVars, userVars, resumeVars, history
  <1>1. ASSUME NEW k \in Tool, rec[k].status # "none"
        PROVE  rec'[k].status # "none"
    BY <1>1, RecordMade
  <1>2. ASSUME NEW j \in Tool, NEW k \in Tool, For(rec'[j].tag, k)
        PROVE  For(rec[j].tag, k) \/ rec[k].status # "none"
    <2>1. ASSUME NEW i \in ToolCall, CallStep(i)
          PROVE  For(rec[j].tag, k)
      <3>1. CASE Interrupt(i)
        BY <1>2, <3>1, ToolsAreCalls DEF Interrupt, NoRecord, For, TypeOK
      <3>2. CASE UNCHANGED rec
        BY <1>2, <3>2
      <3> QED
        BY <2>1, <3>1, <3>2 DEF CallStep, Bypass, CheckPermission, HandleResume, TakeReport,
           ReviewTimesOut, InterruptFails, Invoke, AskQuestion
    <2>2. ASSUME NEW q \in Question, PublishQuestion(q)
          PROVE  For(rec[j].tag, k)
      BY <1>2, <2>2, ToolsAreCalls DEF PublishQuestion, TypeOK
    <2>3. ASSUME NEW first \in Tool, NEW second \in Tool, PublishPermission(first, second)
          PROVE  For(rec[j].tag, k) \/ rec[k].status # "none"
      <3>1. at[second] = "asked" /\ second \in batch /\ rec[second].status # "none"
        BY <2>3, ToolsAreCalls DEF PublishPermission, Records, RecordOf
      <3>2. rec'[j].tag = rec[j].tag \/ rec'[j].tag = <<second, run>>
        BY <2>3, ToolsAreCalls DEF PublishPermission, TypeOK
      <3> QED
        BY <1>2, <3>1, <3>2 DEF For
    <2>4. ASSUME NEW i \in Tool, NEW d \in Decision, NEW id \in shown[i], AnswerPermission(i, d, id)
          PROVE  For(rec[j].tag, k)
      BY <1>2, <2>4, ToolsAreCalls DEF AnswerPermission, TypeOK
    <2>5. ASSUME NEW i \in Question, NEW id \in shown[i], AnswerQuestion(i, id)
          PROVE  For(rec[j].tag, k)
      BY <1>2, <2>5, ToolsAreCalls DEF AnswerQuestion, TypeOK
    <2>6. CASE StartRun \/ RunFresh \/ ResumeRun \/ StepDone \/ FinishRun \/ FailRun
               \/ SaveCheckpoint \/ PublishNothing \/ SendMessage \/ RefuseRun
               \/ (\E i \in Tool : ReviewStep(i)) \/ UNCHANGED vars
               \/ (\E calls \in SUBSET ToolCall : AskForTools(calls))
               \/ (\E answer \in answers : ResumeAgent(answer))
      BY <1>2, <2>6 DEF StartRun, RunFresh, ResumeRun, StepDone, FinishRun, FailRun,
         SaveCheckpoint, PublishNothing, SendMessage, RefuseRun, ReviewStep, Report, AskForTools,
         ResumeAgent
    <2> QED
      BY <2>1, <2>2, <2>3, <2>4, <2>5, <2>6 DEF Next, RunStep, UserStep, AnswerStep
  <1> QED
    BY <1>1, <1>2 DEF Tagged

-----------------------------------------------------------------------------
(* Answers.                                                                *)

LEMMA FromRecordStays ==
  ASSUME TypeOK, Control, Records, [Next]_vars, NEW a, FromRecord(a)
  PROVE  a = NoAnswer \/ a.id = NoId \/
         \E j \in ToolCall : /\ rec'[j].status = "answered"
                             /\ rec'[j].decision = a.decision
                             /\ IF j \in Tool THEN via'[j] = a.id ELSE rec'[j].tag = a.id
  BY RecordsPersist DEF FromRecord, Persists

\* An answer for a guarded call was passed on for the call's interrupt.
LEMMA AnswerIsItsOwn ==
  ASSUME TypeOK, Records, NEW k \in Tool, NEW a, a # NoAnswer, FromRecord(a), For(a.id, k)
  PROVE  \E j \in Answering(k) : rec[j].decision = a.decision /\ rec[j].tag = a.id
  <1>1. PICK j \in ToolCall : /\ rec[j].status = "answered"
                              /\ rec[j].decision = a.decision
                              /\ IF j \in Tool THEN via[j] = a.id ELSE rec[j].tag = a.id
    BY DEF FromRecord, For
  <1>2. j \in Tool
    <2> SUFFICES ASSUME j \in Question, j \notin Tool PROVE FALSE
      BY DEF ToolCall
    <2>1. For(a.id, j)
      BY <1>1 DEF Records, RecordOf
    <2> QED
      BY <2>1, ToolsAreCalls DEF For
  <1>3. j \in Answering(k) /\ rec[j].tag = a.id
    BY <1>1, <1>2 DEF Answering, For, Records, RecordOf
  <1> QED
    BY <1>1, <1>3

LEMMA AnswersStep ==
  ASSUME TypeOK, Control, Records, Answers, [Next]_vars
  PROVE  Answers'
  <1> USE DEF vars, runVars, reviewVars, userVars, resumeVars, history
  <1> DEFINE Backed(a) == a = NoAnswer \/ a.id = NoId \/
                          \E j \in ToolCall : /\ rec'[j].status = "answered"
                                              /\ rec'[j].decision = a.decision
                                              /\ IF j \in Tool THEN via'[j] = a.id
                                                               ELSE rec'[j].tag = a.id
  <1>1. \A a : FromRecord(a) => Backed(a)
    BY FromRecordStays
  <1>2. \/ answers' \subseteq answers
        \/ \E a : answers' = answers \cup {a} /\ Backed(a)
    <2>1. ASSUME NEW k \in Tool, NEW d \in Decision, NEW id \in shown[k], AnswerPermission(k, d, id),
                 answers' # answers
          PROVE  answers' = answers \cup {[id |-> id, decision |-> d]}
                 /\ Backed([id |-> id, decision |-> d])
      <3>1. answers' = answers \cup {[id |-> id, decision |-> d]} /\ via'[k] = id
        BY <2>1 DEF AnswerPermission, TypeOK
      <3>2. rec'[k].status = "answered" /\ rec'[k].decision = d
        BY <2>1, ToolsAreCalls DEF AnswerPermission, TypeOK
      <3> QED
        BY <3>1, <3>2, ToolsAreCalls
    <2>2. ASSUME NEW k \in Question, NEW id \in shown[k], AnswerQuestion(k, id), answers' # answers
          PROVE  answers' = answers \cup {[id |-> id, decision |-> "text"]}
                 /\ Backed([id |-> id, decision |-> "text"])
      <3>1. id = NoId \/ id = rec[k].tag
        BY <2>2, QuestionsAreCalls DEF AnswerQuestion, Records, RecordOf
      <3>2. rec'[k].status = "answered" /\ rec'[k].decision = "text" /\ rec'[k].tag = rec[k].tag
        BY <2>2, QuestionsAreCalls DEF AnswerQuestion, TypeOK
      <3> QED
        BY <2>2, <3>1, <3>2, QuestionsAreCalls DEF AnswerQuestion
    <2>3. CASE AnswerStep
      BY <2>1, <2>2, <2>3 DEF AnswerStep
    <2>4. CASE RunStep \/ RefuseRun \/ SendMessage \/ UNCHANGED vars
               \/ (\E k \in ToolCall : CallStep(k))
               \/ (\E k \in Tool : ReviewStep(k))
               \/ (\E calls \in SUBSET ToolCall : AskForTools(calls))
               \/ (\E answer \in answers : ResumeAgent(answer))
      BY <2>4 DEF RunStep, StartRun, RunFresh, ResumeRun, StepDone, FinishRun, FailRun,
         SaveCheckpoint, PublishQuestion, PublishPermission, PublishNothing, RefuseRun, SendMessage,
         CallStep, Bypass, CheckPermission, HandleResume, TakeReport, ReviewTimesOut, Interrupt,
         InterruptFails, Invoke, AskQuestion, ReviewStep, Report, AskForTools, ResumeAgent
    <2> QED
      BY <2>3, <2>4 DEF Next, UserStep
  <1>3. /\ params' \in {params, NoAnswer} \cup answers
        /\ target' \in {target, params, NoAnswer}
    <2>1. CASE RunStep
      BY <2>1 DEF RunStep, StartRun, RunFresh, ResumeRun, StepDone, FinishRun, FailRun,
         SaveCheckpoint, PublishQuestion, PublishPermission, PublishNothing, Ends, Over, Control
    <2>2. CASE UserStep \/ RefuseRun \/ UNCHANGED vars
               \/ (\E k \in ToolCall : CallStep(k))
               \/ (\E k \in Tool : ReviewStep(k))
               \/ (\E calls \in SUBSET ToolCall : AskForTools(calls))
               \/ (\E answer \in answers : ResumeAgent(answer))
      BY <2>2 DEF UserStep, AnswerStep, AnswerPermission, AnswerQuestion, RefuseRun, SendMessage,
         CallStep, Bypass, CheckPermission, HandleResume, TakeReport, ReviewTimesOut, Interrupt,
         InterruptFails, Invoke, AskQuestion, ReviewStep, Report, AskForTools, ResumeAgent
    <2> QED
      BY <2>1, <2>2 DEF Next
  <1>4. \A a \in answers' : Backed(a)
    BY <1>1, <1>2 DEF Answers
  <1>5. Backed(params') /\ Backed(target')
    BY <1>1, <1>3 DEF Answers
  <1> QED
    BY <1>4, <1>5 DEF Answers, FromRecord

-----------------------------------------------------------------------------
(* Remembered operations.                                                  *)

LEMMA RememberedStep ==
  ASSUME TypeOK, Control, Records, Answers, RememberedByUser, [Next]_vars
  PROVE  RememberedByUser'
  <1> USE DEF vars, runVars, reviewVars, userVars, resumeVars, history
  <1> DEFINE Remembered(k) == rec[k].decision = "approved_remembered"
                           \/ Decided(k, {"approved_remembered"})
  <1>1. \A k \in Tool : Remembered(k) => Remembered(k)'
    BY RecordsPersist, AnsweringGrows, ToolsAreCalls DEF Persists, Records, RecordOf
  <1>2. \/ whitelist' = whitelist
        \/ \E k \in Tool : whitelist' \subseteq whitelist \cup {OpOf[k]} /\ Remembered(k)'
    <2>1. ASSUME NEW k \in Tool, HandleResume(k), whitelist' # whitelist
          PROVE  whitelist' \subseteq whitelist \cup {OpOf[k]} /\ Remembered(k)
      <3>1. Addressed(k) /\ target.decision = "approved_remembered"
            /\ whitelist' = whitelist \cup {OpOf[k]} /\ was[k] # NoId
        BY <2>1 DEF HandleResume
      <3>2. For(target.id, k) /\ target # NoAnswer /\ FromRecord(target)
        BY <3>1, ToolsAreCalls DEF Addressed, Control, Answers
      <3>3. \E j \in Answering(k) : rec[j].decision = "approved_remembered"
        BY <3>1, <3>2, AnswerIsItsOwn
      <3> QED
        BY <3>1, <3>3 DEF Decided
    <2>2. ASSUME NEW k \in Tool, NEW d \in Decision, NEW id \in shown[k], AnswerPermission(k, d, id)
          PROVE  \/ whitelist' = whitelist
                 \/ whitelist' = whitelist \cup {OpOf[k]} /\ rec'[k].decision = "approved_remembered"
      BY <2>2, ToolsAreCalls DEF AnswerPermission, TypeOK
    <2>3. ASSUME NEW k \in ToolCall, CallStep(k), whitelist' # whitelist
          PROVE  k \in Tool /\ HandleResume(k)
      BY <2>3 DEF CallStep, Bypass, CheckPermission, HandleResume, TakeReport, ReviewTimesOut,
         Interrupt, InterruptFails, Invoke, AskQuestion
    <2>4. CASE RunStep \/ RefuseRun \/ SendMessage \/ UNCHANGED vars
               \/ (\E k \in Question : \E id \in shown[k] : AnswerQuestion(k, id))
               \/ (\E k \in Tool : ReviewStep(k))
               \/ (\E calls \in SUBSET ToolCall : AskForTools(calls))
               \/ (\E answer \in answers : ResumeAgent(answer))
      BY <2>4 DEF RunStep, StartRun, RunFresh, ResumeRun, StepDone, FinishRun, FailRun,
         SaveCheckpoint, PublishQuestion, PublishPermission, PublishNothing, RefuseRun, SendMessage,
         AnswerQuestion, ReviewStep, Report, AskForTools, ResumeAgent
    <2> QED
      BY <1>1, <2>1, <2>2, <2>3, <2>4 DEF Next, UserStep, AnswerStep
  <1> QED
    BY <1>1, <1>2 DEF RememberedByUser

-----------------------------------------------------------------------------
(* Consent.                                                                *)

\* What a step may do to a guarded call.
LEMMA CallChanges ==
  ASSUME TypeOK, Control, [Next]_vars, NEW k \in Tool
  PROVE  \/ CallStep(k)
         \/ UNCHANGED <<at[k], ran[k]>>
         \/ at[k] = "new" /\ at'[k] = "called" /\ UNCHANGED <<ran[k], answers, params>>
         \/ ResumeRun /\ k \in DOMAIN ckpt /\ at'[k] = "called" /\ UNCHANGED ran[k]
         \/ at[k] \in Settled \ {"done"} /\ at'[k] = "failed" /\ UNCHANGED ran[k]
  <1> USE DEF vars, runVars, reviewVars, userVars, resumeVars, history
  <1>1. ASSUME NEW j \in ToolCall, CallStep(j), j # k
        PROVE  UNCHANGED <<at[k], ran[k]>>
    BY <1>1, ToolsAreCalls DEF CallStep, Bypass, CheckPermission, HandleResume, TakeReport,
       ReviewTimesOut, Interrupt, InterruptFails, Invoke, AskQuestion, Judge, Moves, TypeOK
  <1>2. CASE ResumeRun
    BY <1>2, ToolsAreCalls DEF ResumeRun
  <1>3. CASE FailRun
    BY <1>3, ToolsAreCalls DEF FailRun, Over
  <1>4. ASSUME NEW calls \in SUBSET ToolCall, AskForTools(calls)
        PROVE  \/ UNCHANGED <<at[k], ran[k]>>
               \/ at[k] = "new" /\ at'[k] = "called" /\ UNCHANGED <<ran[k], answers, params>>
    BY <1>4, ToolsAreCalls DEF AskForTools
  <1>5. CASE RunStep /\ ~ResumeRun /\ ~FailRun
    BY <1>5 DEF RunStep, StartRun, RunFresh, StepDone, FinishRun, SaveCheckpoint,
       PublishQuestion, PublishPermission, PublishNothing
  <1>6. CASE UserStep \/ RefuseRun \/ UNCHANGED vars \/ (\E j \in Tool : ReviewStep(j))
             \/ (\E answer \in answers : ResumeAgent(answer))
    BY <1>6 DEF UserStep, AnswerStep, AnswerPermission, AnswerQuestion, RefuseRun, SendMessage,
       ReviewStep, Report, ResumeAgent
  <1> QED
    BY <1>1, <1>2, <1>3, <1>4, <1>5, <1>6, ToolsAreCalls DEF Next

LEMMA LetThroughStays ==
  ASSUME TypeOK, Control, Records, [Next]_vars, NEW k \in Tool, NEW mode, LetThrough(k, mode),
         ~Interrupt(k)
  PROVE  LetThrough(k, mode)'
  <1>1. Decided(k, Approve) => Decided(k, Approve)'
    BY AnsweringGrows
  <1>2. Whitelisted(k) => Whitelisted(k)'
    BY WhitelistGrows DEF Whitelisted
  <1>3. rec[k].status = "none" => rec'[k] = rec[k]
    BY RecordMade
  <1> QED
    BY <1>1, <1>2, <1>3, LowStays DEF LetThrough

LEMMA LetThroughCalls ==
  ASSUME TypeOK, Control, Records, Answers, [Next]_vars, NEW k \in Tool, CallStep(k),
         OwnRight(k), at[k] # "run", at'[k] = "run"
  PROVE  LetThrough(k, runMode)'
  <1> USE DEF vars, runVars, reviewVars, userVars, resumeVars, history
  <1>0. runMode' = runMode
    BY DEF CallStep, Bypass, CheckPermission, HandleResume, TakeReport, ReviewTimesOut, Interrupt,
           InterruptFails, Invoke, AskQuestion
  <1>1. CASE Bypass(k)
    BY <1>0, <1>1 DEF Bypass, LetThrough
  <1>2. CASE CheckPermission(k)
    <2>1. rec[k].status = "none" /\ UNCHANGED <<rec, whitelist>>
      BY <1>2, ToolsAreCalls DEF CheckPermission, Enters, Records, RecordOf
    <2>2. Whitelisted(k) /\ runMode = "edit_automatically"
      BY <1>2, ApprovalAssumption, ToolsAreCalls
      DEF CheckPermission, FirstCheck, Moves, TypeOK, Mode, Enters, Control
    <2>3. Whitelisted(k)'
      BY <2>1, <2>2 DEF Whitelisted
    <2> QED
      BY <1>0, <2>1, <2>2, <2>3 DEF LetThrough
  <1>3. CASE HandleResume(k)
    <2>1. Addressed(k)
      BY <1>3 DEF HandleResume, OwnRight
    <2>2. target.decision \in Approve
      BY <1>3, <2>1, ToolsAreCalls DEF HandleResume, Moves, TypeOK
    <2>3. For(target.id, k) /\ target # NoAnswer /\ FromRecord(target)
      BY <2>1, ToolsAreCalls DEF Addressed, Control, Answers
    <2>4. Decided(k, Approve)
      BY <2>2, <2>3, AnswerIsItsOwn DEF Decided
    <2>5. Decided(k, Approve)'
      BY <2>4, AnsweringGrows
    <2> QED
      BY <2>5 DEF LetThrough
  <1>4. CASE TakeReport(k)
    <2>1. rec[k].status = "none" /\ rec' = rec /\ runMode = "edit_automatically"
      BY <1>4, ToolsAreCalls DEF TakeReport, Records, RecordOf, Control
    <2>2. Valid(Head(channel)) <= Threshold
      BY <1>4, ToolsAreCalls DEF TakeReport, Judge, Moves, TypeOK
    <2>3. low'
      BY <1>4, <2>2, Zenon DEF TakeReport
    <2> QED
      BY <1>0, <2>1, <2>3 DEF LetThrough
  <1>5. CASE ReviewTimesOut(k)
    BY <1>5, ApprovalAssumption, ToolsAreCalls DEF ReviewTimesOut, Judge, Moves, TypeOK
  <1>6. CASE Interrupt(k) \/ InterruptFails(k) \/ Invoke(k) \/ AskQuestion(k)
    BY <1>6, ToolsAreCalls DEF Interrupt, InterruptFails, Invoke, AskQuestion, Moves, TypeOK
  <1> QED
    BY <1>1, <1>2, <1>3, <1>4, <1>5, <1>6 DEF CallStep

LEMMA ConsentStep ==
  ASSUME TypeOK, Control, Records, Answers, Consent, [Next]_vars
  PROVE  Consent'
  <1> USE DEF vars, runVars, reviewVars, userVars, resumeVars, history
  <1> SUFFICES ASSUME NEW k \in Tool PROVE ConsentOf(k)'
    BY DEF Consent
  <1>1. ConsentOf(k) /\ RecordOf(k) /\ k \in ToolCall
    BY ToolsAreCalls DEF Consent, Records
  <1>2. CASE Interrupt(k)
    <2>1. ran'[k] = {} /\ at'[k] = "asked"
      BY <1>1, <1>2 DEF Interrupt, Moves, ConsentOf, RecordOf, TypeOK
    <2> QED
      BY <2>1 DEF ConsentOf
  <1>3. CASE ~Interrupt(k)
    <2>2. \A mode : LetThrough(k, mode) => LetThrough(k, mode)'
      BY <1>3, LetThroughStays
    <2>3. at[k] = "run" => UNCHANGED <<runMode, target, was>>
      <3> SUFFICES ASSUME at[k] = "run" PROVE UNCHANGED <<runMode, target, was>>
        OBVIOUS
      <3>1. phase = "running" /\ ~Over /\ batch # {}
        BY <1>1 DEF Control, Unsettled, Over, Settled, Interrupted
      <3>2. CASE RunStep
        BY <3>1, <3>2 DEF RunStep, StartRun, RunFresh, ResumeRun, StepDone, FinishRun, FailRun,
           SaveCheckpoint, PublishQuestion, PublishPermission, PublishNothing
      <3>3. ASSUME NEW j \in ToolCall, CallStep(j) PROVE UNCHANGED <<runMode, target, was>>
        BY <3>3 DEF CallStep, Bypass, CheckPermission, HandleResume, TakeReport, ReviewTimesOut,
           Interrupt, InterruptFails, Invoke, AskQuestion
      <3>4. ASSUME NEW calls \in SUBSET ToolCall, AskForTools(calls)
            PROVE  UNCHANGED <<runMode, target, was>>
        BY <3>1, <3>4 DEF AskForTools
      <3>5. CASE RefuseRun \/ UserStep \/ (\E j \in Tool : ReviewStep(j))
                 \/ (\E answer \in answers : ResumeAgent(answer)) \/ UNCHANGED vars
        BY <3>5 DEF RefuseRun, UserStep, AnswerStep, AnswerPermission, AnswerQuestion, SendMessage,
           ReviewStep, Report, ResumeAgent
      <3> QED
        BY <3>2, <3>3, <3>4, <3>5 DEF Next
    <2>4. at'[k] = "run" /\ OwnRight(k)' => LetThrough(k, runMode)'
      <3> SUFFICES ASSUME at'[k] = "run", OwnRight(k)' PROVE LetThrough(k, runMode)'
        OBVIOUS
      <3>1. CASE at[k] = "run"
        <4>1. LetThrough(k, runMode)
          BY <1>1, <2>3, <3>1 DEF ConsentOf, OwnRight, Addressed
        <4>2. PICK mode : mode = runMode
          OBVIOUS
        <4>3. LetThrough(k, mode)' /\ runMode' = mode
          BY <2>2, <2>3, <3>1, <4>1, <4>2
        <4> QED
          BY <4>3 DEF LetThrough
      <3>2. CASE at[k] # "run"
        <4>1. CallStep(k)
          BY <1>1, <3>2, CallChanges
        <4>2. UNCHANGED <<was, target>>
          BY <4>1 DEF CallStep, Bypass, CheckPermission, HandleResume, TakeReport,
             ReviewTimesOut, Interrupt, InterruptFails, Invoke, AskQuestion
        <4> QED
          BY <3>2, <4>1, <4>2, LetThroughCalls DEF OwnRight, Addressed
      <3> QED
        BY <3>1, <3>2
    <2>5. ran'[k] # ran[k] =>
            Invoke(k) /\ OwnRight(k) /\ ran'[k] = ran[k] \cup {runMode} /\ at'[k] = "done"
      <3>1. Invoke(k) /\ ran'[k] # ran[k] =>
              OwnRight(k) /\ ran'[k] = ran[k] \cup {runMode} /\ at'[k] = "done"
        BY <1>1 DEF Invoke, OwnRight, Moves, TypeOK
      <3> QED
        BY <3>1, CallChanges DEF CallStep, Bypass, CheckPermission, HandleResume, TakeReport,
           ReviewTimesOut, Interrupt, InterruptFails, AskQuestion
    <2>6. \A mode \in ran'[k] : LetThrough(k, mode)'
      <3>1. \A mode \in ran'[k] : LetThrough(k, mode)
        BY <1>1, <2>5 DEF ConsentOf, Invoke
      <3> QED
        BY <3>1, <2>2
    <2>7. ran'[k] # {} /\ rec'[k].status = "none" => at'[k] = "done"
      <3> SUFFICES ASSUME ran'[k] # {}, rec'[k].status = "none", ran'[k] = ran[k]
                   PROVE  at'[k] = "done"
        BY <2>5
      <3>1. at[k] = "done" /\ k \notin DOMAIN ckpt
        BY <1>1, RecordMade DEF ConsentOf, RecordOf
      <3> QED
        BY <3>1, CallChanges DEF CallStep, Bypass, CheckPermission, HandleResume, TakeReport,
         ReviewTimesOut, Interrupt, InterruptFails, Invoke, AskQuestion, Enters
    <2> QED
      BY <2>4, <2>6, <2>7 DEF ConsentOf
  <1> QED
    BY <1>2, <1>3

-----------------------------------------------------------------------------
(* One use of each answer.                                                 *)

\* An answer passed on for a call is the only one for it, unless two records are
\* answered for it.
LEMMA AnswerGiven ==
  ASSUME TypeOK, Control, Records, Tagged, [Next]_vars, NEW k \in Tool, Single(k)',
         NEW a \in answers' \ answers, For(a.id, k)
  PROVE  /\ Answering(k) = {} /\ rec[k].status # "none"
         /\ answers' = answers \cup {a}
         /\ UNCHANGED <<params, target, was, ran, at>>
  <1> USE DEF vars, runVars, reviewVars, userVars, resumeVars, history
  <1> DEFINE Goal == /\ Answering(k) = {} /\ rec[k].status # "none"
                     /\ answers' = answers \cup {a}
                     /\ UNCHANGED <<params, target, was, ran, at>>
  <1>1. ASSUME NEW j \in Tool, NEW d \in Decision, NEW id \in shown[j], AnswerPermission(j, d, id)
        PROVE  Goal
    <2>1. a = [id |-> id, decision |-> d] /\ answers' = answers \cup {a} /\ via'[j] = id
          /\ rec[j].status = "pending" /\ UNCHANGED <<params, target, was, ran, at>>
      BY <1>1 DEF AnswerPermission, TypeOK
    <2>2. j \in Answering(k)' /\ j \notin Answering(k) /\ For(rec[j].tag, k)
      BY <2>1, ToolsAreCalls DEF Answering, For, Records, RecordOf
    <2>3. Answering(k) = {}
      BY <2>2, AnsweringGrows DEF Single
    <2>4. rec[k].status # "none"
      BY <2>2 DEF Tagged
    <2> QED
      BY <2>1, <2>3, <2>4
  <1>2. ASSUME NEW j \in Question, NEW id \in shown[j], AnswerQuestion(j, id)
        PROVE  FALSE
    <2>1. a.id = id /\ rec[j].status = "pending"
      BY <1>2 DEF AnswerQuestion
    <2>2. rec[j].tag = a.id /\ For(rec[j].tag, j)
      BY <2>1, QuestionsAreCalls DEF Records, RecordOf, For
    <2> QED
      BY <2>2, QuestionsAreCalls DEF For
  <1>3. CASE RunStep \/ RefuseRun \/ SendMessage \/ UNCHANGED vars
             \/ (\E j \in ToolCall : CallStep(j))
             \/ (\E j \in Tool : ReviewStep(j))
             \/ (\E calls \in SUBSET ToolCall : AskForTools(calls))
             \/ (\E answer \in answers : ResumeAgent(answer))
    BY <1>3 DEF RunStep, StartRun, RunFresh, ResumeRun, StepDone, FinishRun, FailRun,
       SaveCheckpoint, PublishQuestion, PublishPermission, PublishNothing, RefuseRun, SendMessage,
       CallStep, Bypass, CheckPermission, HandleResume, TakeReport, ReviewTimesOut, Interrupt,
       InterruptFails, Invoke, AskQuestion, ReviewStep, Report, AskForTools, ResumeAgent
  <1> QED
    BY <1>1, <1>2, <1>3 DEF Next, UserStep, AnswerStep

\* resumeAgent moves an answer to the session, and the run takes it from there.
LEMMA AnswerStored ==
  ASSUME [Next]_vars, params' # params
  PROVE  params' = NoAnswer \/ (params' \in answers /\ answers' = answers \ {params'})
  <1> USE DEF vars, runVars, reviewVars, userVars, resumeVars, history
  <1>0. ASSUME RunFresh
        PROVE  params' = NoAnswer \/ params' = params
    <2>1. CASE has \/ ckptId
      BY <1>0, <2>1, Zenon DEF RunFresh
    <2>2. CASE ~(has \/ ckptId)
      BY <1>0, <2>2, Zenon DEF RunFresh
    <2> QED
      BY <2>1, <2>2
  <1>1. CASE RunStep
    BY <1>0, <1>1 DEF RunStep, StartRun, ResumeRun, StepDone, FinishRun, FailRun,
       SaveCheckpoint, PublishQuestion, PublishPermission, PublishNothing, Ends
  <1>2. CASE RefuseRun \/ UserStep \/ UNCHANGED vars
             \/ (\E j \in ToolCall : CallStep(j))
             \/ (\E j \in Tool : ReviewStep(j))
             \/ (\E calls \in SUBSET ToolCall : AskForTools(calls))
             \/ (\E answer \in answers : ResumeAgent(answer))
    BY <1>2 DEF RefuseRun, UserStep, AnswerStep, AnswerPermission, AnswerQuestion, SendMessage,
       CallStep, Bypass, CheckPermission, HandleResume, TakeReport, ReviewTimesOut, Interrupt,
       InterruptFails, Invoke, AskQuestion, ReviewStep, Report, AskForTools, ResumeAgent
  <1> QED
    BY <1>1, <1>2 DEF Next

\* What an execution in its own right was due to: no record then, or an answer
\* that is used up.
LEMMA OwnExecution ==
  ASSUME TypeOK, Control, Records, Answers, Consent, Tokens, NEW k \in Tool, Single(k),
         Invoke(k), OwnRight(k)
  PROVE  /\ ran[k] = {}
         /\ \/ rec[k].status = "none"
            \/ Answering(k) # {} /\ NotAmong(k) /\ NotStored(k)
  <1>1. at[k] = "run" /\ k \in ToolCall /\ RecordOf(k) /\ ConsentOf(k) /\ TokenOf(k)
    BY ToolsAreCalls DEF Invoke, Records, Consent, Tokens
  <1>2. CASE was[k] = NoId
    BY <1>1, <1>2 DEF RecordOf, ConsentOf
  <1>3. CASE Addressed(k)
    <2>1. ran[k] = {} /\ NotAmong(k) /\ NotStored(k)
      BY <1>1, <1>3 DEF TokenOf, Unsettled
    <2>2. For(target.id, k) /\ target # NoAnswer /\ FromRecord(target)
      BY <1>1, <1>3 DEF Addressed, Control, Answers
    <2>3. Answering(k) # {}
      BY <2>2, AnswerIsItsOwn
    <2> QED
      BY <2>1, <2>3
  <1> QED
    BY <1>2, <1>3 DEF OwnRight

\* Nobody has an answer for a call without a record, or for whose interrupt no
\* record is answered.
LEMMA NoAnswerYet ==
  ASSUME TypeOK, Records, Tagged, Answers, NEW k \in Tool,
         rec[k].status = "none" \/ Answering(k) = {}
  PROVE  NotAmong(k) /\ NotStored(k) /\ (target # NoAnswer => ~For(target.id, k))
  <1>1. ASSUME NEW a, a # NoAnswer, FromRecord(a), For(a.id, k)
        PROVE  FALSE
    <2>1. PICK j \in Answering(k) : rec[j].tag = a.id
      BY <1>1, AnswerIsItsOwn
    <2>2. j \in Tool /\ For(rec[j].tag, k)
      BY <1>1, <2>1 DEF Answering
    <2> QED
      BY <2>1, <2>2 DEF Tagged
  <1>2. NoAnswer \notin answers
    BY NoAnswerIsNone DEF TypeOK
  <1> QED
    BY <1>1, <1>2 DEF Answers, NotAmong, NotStored

\* How the answer a call is made with comes about.
LEMMA MadeWith ==
  ASSUME TypeOK, Control, [Next]_vars, NEW k \in Tool, Addressed(k)', at'[k] \in Unsettled
  PROVE  \/ Addressed(k) /\ at[k] \in Unsettled
         \/ ResumeRun /\ params # NoAnswer /\ For(params.id, k) /\ params' = NoAnswer
            /\ answers' = answers
  <1> USE DEF vars, runVars, reviewVars, userVars, resumeVars, history
  <1>0. k \in ToolCall
    BY ToolsAreCalls
  <1>1. CASE ResumeRun
    BY <1>0, <1>1 DEF ResumeRun, Addressed, Control
  <1>2. ASSUME NEW calls \in SUBSET ToolCall, AskForTools(calls)
        PROVE  FALSE
    BY <1>0, <1>2 DEF AskForTools, Addressed
  <1>3. CASE RunStep /\ ~ResumeRun
    BY <1>0, <1>3 DEF RunStep, StartRun, RunFresh, StepDone, FinishRun, FailRun, SaveCheckpoint,
       PublishQuestion, PublishPermission, PublishNothing, Ends, Addressed, Unsettled, Control
  <1>4. ASSUME NEW j \in ToolCall, CallStep(j)
        PROVE  Addressed(k) /\ at[k] \in Unsettled
    <2>1. UNCHANGED <<was, target>>
      BY <1>4 DEF CallStep, Bypass, CheckPermission, HandleResume, TakeReport,
         ReviewTimesOut, Interrupt, InterruptFails, Invoke, AskQuestion
    <2>2. at[k] \in Unsettled
      <3>1. at[j] \in Unsettled
        BY <1>4 DEF CallStep, Bypass, CheckPermission, HandleResume, TakeReport,
           ReviewTimesOut, Interrupt, InterruptFails, Invoke, AskQuestion, Enters, Unsettled
      <3>2. j # k => at'[k] = at[k]
        BY <1>0, <1>4 DEF CallStep, Bypass, CheckPermission, HandleResume, TakeReport,
           ReviewTimesOut, Interrupt, InterruptFails, Invoke, AskQuestion, Judge, Moves, TypeOK
      <3> QED
        BY <3>1, <3>2
    <2> QED
      BY <2>1, <2>2 DEF Addressed
  <1>5. CASE UserStep \/ RefuseRun \/ UNCHANGED vars \/ (\E j \in Tool : ReviewStep(j))
             \/ (\E answer \in answers : ResumeAgent(answer))
    BY <1>5 DEF UserStep, AnswerStep, AnswerPermission, AnswerQuestion, RefuseRun, SendMessage,
       ReviewStep, Report, ResumeAgent, Addressed
  <1> QED
    BY <1>1, <1>2, <1>3, <1>4, <1>5 DEF Next

\* A call's executions change by its own, in its own right.
LEMMA ExecutionsOf ==
  ASSUME TypeOK, Control, [Next]_vars, NEW k \in Tool, ran'[k] # ran[k]
  PROVE  Invoke(k) /\ OwnRight(k) /\ at'[k] = "done" /\ UNCHANGED <<rec, answers, params, via>>
  <1> USE DEF vars, runVars, reviewVars, userVars, resumeVars, history
  <1>1. CASE Invoke(k)
    BY <1>1, ToolsAreCalls DEF Invoke, OwnRight, Moves, TypeOK
  <1> QED
    BY <1>1, CallChanges DEF CallStep, Bypass, CheckPermission, HandleResume, TakeReport,
       ReviewTimesOut, Interrupt, InterruptFails, AskQuestion

LEMMA TokensStep ==
  ASSUME TypeOK, Control, Records, Tagged, Answers, Consent, Tokens, [Next]_vars
  PROVE  Tokens'
  <1> SUFFICES ASSUME NEW k \in Tool, Single(k)' PROVE TokenOf(k)'
    BY DEF Tokens
  <1>1. Single(k) /\ TokenOf(k) /\ RecordOf(k) /\ ConsentOf(k) /\ k \in ToolCall
    BY AnsweringGrows, ToolsAreCalls DEF Tokens, Records, Consent
  <1>2. CASE ran'[k] # ran[k]
    <2>1. /\ Invoke(k) /\ at'[k] = "done" /\ UNCHANGED <<rec, answers, params, via>>
          /\ rec[k].status = "none" \/ Answering(k) # {}
          /\ NotAmong(k) /\ NotStored(k)
      BY <1>1, <1>2, ExecutionsOf, OwnExecution, NoAnswerYet
    <2>2. Answering(k)' = Answering(k)
      BY <2>1 DEF Answering
    <2> QED
      BY <2>1, <2>2 DEF TokenOf, NotAmong, NotStored, Unsettled
  <1>3. CASE ran'[k] = ran[k]
    <2>1. ASSUME NEW a \in answers' \ answers, For(a.id, k)
          PROVE  /\ ran[k] = {} /\ answers' = answers \cup {a} /\ NotAmong(k)
                 /\ NotStored(k)' /\ ~Addressed(k)'
      <3>1. Answering(k) = {} /\ rec[k].status # "none" /\ answers' = answers \cup {a}
            /\ UNCHANGED <<params, target, was, ran, at>>
        BY <2>1, AnswerGiven
      <3>2. NotAmong(k) /\ NotStored(k) /\ (target # NoAnswer => ~For(target.id, k))
        BY <3>1, NoAnswerYet
      <3>3. ~Addressed(k)
        BY <1>1, <3>2 DEF Addressed, Control
      <3> QED
        BY <1>1, <3>1, <3>2, <3>3 DEF TokenOf, NotStored, Addressed
    <2>2. ASSUME params' # params, params' # NoAnswer
          PROVE  params' \in answers /\ answers' = answers \ {params'}
      BY <2>2, AnswerStored
    <2>3. \A a \in answers' : For(a.id, k) => ran[k] = {}
      BY <1>1, <2>1 DEF TokenOf
    <2>4. \A a, b \in answers' : For(a.id, k) /\ For(b.id, k) => a = b
      <3> SUFFICES ASSUME NEW a \in answers', NEW b \in answers', For(a.id, k), For(b.id, k)
                   PROVE  a = b
        OBVIOUS
      <3>1. CASE a \in answers /\ b \in answers
        BY <1>1, <3>1 DEF TokenOf
      <3>2. CASE a \notin answers
        BY <2>1, <3>2 DEF NotAmong
      <3>3. CASE b \notin answers
        BY <2>1, <3>3 DEF NotAmong
      <3> QED
        BY <3>1, <3>2, <3>3
    <2>5. params' # NoAnswer /\ For(params'.id, k) =>
            ran[k] = {} /\ \A a \in answers' : ~For(a.id, k)
      <3> SUFFICES ASSUME params' # NoAnswer, For(params'.id, k)
                   PROVE  ran[k] = {} /\ \A a \in answers' : ~For(a.id, k)
        OBVIOUS
      <3>1. CASE params' = params
        BY <1>1, <2>1, <3>1 DEF TokenOf, NotAmong, NotStored
      <3>2. CASE params' # params
        BY <1>1, <2>2, <3>2 DEF TokenOf
      <3> QED
        BY <3>1, <3>2
    <2>6. Addressed(k)' /\ at'[k] \in Unsettled =>
            ran[k] = {} /\ NotAmong(k)' /\ NotStored(k)'
      <3> SUFFICES ASSUME Addressed(k)', at'[k] \in Unsettled
                   PROVE  ran[k] = {} /\ NotAmong(k)' /\ NotStored(k)'
        OBVIOUS
      <3>1. CASE Addressed(k) /\ at[k] \in Unsettled
        <4>1. ran[k] = {} /\ NotAmong(k) /\ NotStored(k)
          BY <1>1, <3>1 DEF TokenOf
        <4>2. NotAmong(k)'
          BY <2>1, <4>1 DEF NotAmong
        <4>3. NotStored(k)'
          BY <2>2, <4>1 DEF NotAmong, NotStored
        <4> QED
          BY <4>1, <4>2, <4>3
      <3>2. CASE ResumeRun /\ params # NoAnswer /\ For(params.id, k) /\ params' = NoAnswer
                 /\ answers' = answers
        BY <1>1, <3>2 DEF TokenOf, NotAmong, NotStored
      <3> QED
        BY <3>1, <3>2, MadeWith
    <2>7. Answering(k)' = {} /\ rec'[k].status # "none" => ran[k] = {}
      <3> SUFFICES ASSUME Answering(k)' = {}, rec'[k].status # "none" PROVE ran[k] = {}
        OBVIOUS
      <3>1. Answering(k) = {}
        BY AnsweringGrows
      <3>2. CASE Interrupt(k)
        <4>1. at[k] = "ask"
          BY <3>2 DEF Interrupt
        <4> QED
          BY <1>1, <4>1 DEF ConsentOf, RecordOf
      <3>3. CASE ~Interrupt(k)
        BY <1>1, <3>1, <3>3, RecordMade DEF TokenOf
      <3> QED
        BY <3>2, <3>3
    <2> QED
      BY <1>3, <2>3, <2>4, <2>5, <2>6, <2>7 DEF TokenOf, NotAmong
  <1> QED
    BY <1>2, <1>3

-----------------------------------------------------------------------------
(* No second execution.                                                    *)

LEMMA OnceStep ==
  ASSUME TypeOK, Control, Records, Answers, Consent, Tokens, RunsOnce, [Next]_vars
  PROVE  RunsOnce'
  <1> USE DEF vars, runVars, reviewVars, userVars, resumeVars, history
  <1>1. ASSUME NEW k \in Tool, Invoke(k)
        PROVE  twice' \subseteq twice \cup {k} /\ (Single(k) => twice' = twice)
    <2>1. twice' \subseteq twice \cup {k} /\ (~OwnRight(k) \/ ran[k] = {} => twice' = twice)
      BY <1>1 DEF Invoke, OwnRight
    <2> QED
      BY <1>1, <2>1, OwnExecution
  <1>2. \/ twice' = twice
        \/ \E k \in Tool : twice' \subseteq twice \cup {k} /\ ~Single(k)
    <2>1. ASSUME NEW k \in ToolCall, CallStep(k)
          PROVE  twice' = twice \/ (k \in Tool /\ Invoke(k))
      <3>1. CASE Invoke(k)
        BY <3>1 DEF Invoke
      <3> QED
        BY <2>1, <3>1 DEF CallStep, Bypass, CheckPermission, HandleResume, TakeReport,
           ReviewTimesOut, Interrupt, InterruptFails, AskQuestion
    <2>2. CASE RunStep
      BY <2>2 DEF RunStep, StartRun, RunFresh, ResumeRun, StepDone, FinishRun, FailRun,
         SaveCheckpoint, PublishQuestion, PublishPermission, PublishNothing
    <2>3. CASE UserStep \/ RefuseRun \/ UNCHANGED vars \/ (\E k \in Tool : ReviewStep(k))
               \/ (\E calls \in SUBSET ToolCall : AskForTools(calls))
               \/ (\E answer \in answers : ResumeAgent(answer))
      BY <2>3 DEF UserStep, AnswerStep, AnswerPermission, AnswerQuestion, SendMessage, RefuseRun,
         ReviewStep, Report, AskForTools, ResumeAgent
    <2> QED
      BY <1>1, <2>1, <2>2, <2>3 DEF Next
  <1>3. \A k \in Tool : Single(k)' => Single(k)
    BY AnsweringGrows
  <1>4. twice \subseteq Tool /\ \A k \in twice : ~Single(k)
    BY DEF TypeOK, RunsOnce, Single
  <1>5. \A k \in twice' : k \in Tool /\ ~Single(k)'
    BY <1>2, <1>3, <1>4
  <1> QED
    BY <1>5 DEF RunsOnce, Single

-----------------------------------------------------------------------------
(* No call is left interrupted.                                            *)

\* Only the user decides a record.
LEMMA DecidedByUser ==
  ASSUME TypeOK, Control, Records, [Next]_vars, ~AnswerStep, NEW k \in Tool,
         rec'[k].status = "answered"
  PROVE  rec[k].status = "answered"
  <1> USE DEF vars, runVars, reviewVars, userVars, resumeVars, history
  <1>1. ASSUME NEW j \in ToolCall, Interrupt(j)
        PROVE  rec[k].status = "answered"
    BY <1>1, ToolsAreCalls DEF Interrupt, NoRecord, TypeOK
  <1>2. ASSUME NEW q \in Question, PublishQuestion(q)
        PROVE  rec[k].status = "answered"
    BY <1>2, ToolsAreCalls DEF PublishQuestion, TypeOK
  <1>3. ASSUME NEW first \in Tool, NEW second \in Tool, PublishPermission(first, second)
        PROVE  rec[k].status = "answered"
    BY <1>3, ToolsAreCalls DEF PublishPermission, Untagged, TypeOK
  <1>4. ASSUME NEW j \in ToolCall, CallStep(j)
        PROVE  rec[k].status = "answered"
    BY <1>1, <1>4 DEF CallStep, Bypass, CheckPermission, HandleResume, TakeReport,
       ReviewTimesOut, InterruptFails, Invoke, AskQuestion
  <1>5. CASE StartRun \/ RunFresh \/ ResumeRun \/ StepDone \/ FinishRun \/ FailRun
             \/ SaveCheckpoint \/ PublishNothing \/ SendMessage \/ RefuseRun
             \/ (\E j \in Tool : ReviewStep(j)) \/ UNCHANGED vars
             \/ (\E calls \in SUBSET ToolCall : AskForTools(calls))
             \/ (\E answer \in answers : ResumeAgent(answer))
    BY <1>5 DEF StartRun, RunFresh, ResumeRun, StepDone, FinishRun, FailRun, SaveCheckpoint,
       PublishNothing, SendMessage, RefuseRun, ReviewStep, Report, AskForTools, ResumeAgent
  <1> QED
    BY <1>2, <1>3, <1>4, <1>5 DEF Next, RunStep, UserStep

LEMMA MislaidStays ==
  ASSUME TypeOK, [Next]_vars, ~mislaid'
  PROVE  ~mislaid /\ \A answer \in answers : ResumeAgent(answer) => phase = "idle"
  <1> USE DEF vars, runVars, reviewVars, userVars, resumeVars, history
  <1>1. ASSUME NEW answer \in answers, ResumeAgent(answer)
        PROVE  ~mislaid /\ phase = "idle"
    BY <1>1, Zenon DEF ResumeAgent
  <1>2. CASE UNCHANGED mislaid
    BY <1>1, <1>2
  <1>3. CASE RunStep
    BY <1>2, <1>3 DEF RunStep, StartRun, RunFresh, ResumeRun, StepDone, FinishRun, FailRun,
       SaveCheckpoint, PublishQuestion, PublishPermission, PublishNothing
  <1>4. CASE \E k \in ToolCall : CallStep(k)
    BY <1>2, <1>4 DEF CallStep, Bypass, CheckPermission, HandleResume, TakeReport, ReviewTimesOut,
       Interrupt, InterruptFails, Invoke, AskQuestion
  <1>5. CASE UserStep \/ RefuseRun \/ UNCHANGED vars \/ (\E j \in Tool : ReviewStep(j))
             \/ (\E calls \in SUBSET ToolCall : AskForTools(calls))
    BY <1>2, <1>5 DEF UserStep, AnswerStep, AnswerPermission, AnswerQuestion, SendMessage, RefuseRun,
       ReviewStep, Report, AskForTools
  <1> QED
    BY <1>1, <1>3, <1>4, <1>5 DEF Next

\* An answer that is not mislaid is passed on.
LEMMA Accepted ==
  ASSUME AnswerStep, mislaid' # TRUE
  PROVE  answers' # {}
  <1>1. ASSUME NEW k \in Tool, NEW d \in Decision, NEW id \in shown[k], AnswerPermission(k, d, id)
        PROVE  answers' # {}
    BY <1>1 DEF AnswerPermission
  <1>2. ASSUME NEW k \in Question, NEW id \in shown[k], AnswerQuestion(k, id)
        PROVE  answers' # {}
    BY <1>2 DEF AnswerQuestion
  <1> QED
    BY <1>1, <1>2 DEF AnswerStep

LEMMA ResumableOfRuns ==
  ASSUME TypeOK, Control, Records, SavedAll, NEW k \in Tool, ResumableOf(k), RunStep,
         ~AnswerStep
  PROVE  ResumableOf(k)'
  <1> USE DEF runVars, reviewVars, userVars, resumeVars, history
  <1>0. /\ rec'[k].status = "answered" => rec[k].status = "answered"
        /\ k \in ToolCall
    BY DecidedByUser, ToolsAreCalls DEF Next
  <1>1. CASE StartRun
    BY <1>1 DEF StartRun, ResumableOf
  <1>2. CASE RunFresh
    BY <1>2 DEF RunFresh, ResumableOf
  <1>3. CASE ResumeRun
    BY <1>0, <1>3 DEF ResumeRun, ResumableOf
  <1>4. CASE StepDone
    BY <1>4 DEF StepDone, Over, ResumableOf
  <1>5. CASE FinishRun
    BY <1>5 DEF FinishRun, Over, Ends, ResumableOf
  <1>6. CASE FailRun
    BY <1>0, <1>6 DEF FailRun, Over, Ends, ResumableOf
  <1>7. CASE SaveCheckpoint
    BY <1>7 DEF SaveCheckpoint, Over, ResumableOf
  <1>8. ASSUME phase = "saved", Ends, UNCHANGED <<at, ckpt, flagged, answers>>
        PROVE  ResumableOf(k)'
    BY <1>0, <1>8 DEF Ends, ResumableOf, SavedAll
  <1> QED
    BY <1>1, <1>2, <1>3, <1>4, <1>5, <1>6, <1>7, <1>8
    DEF RunStep, PublishQuestion, PublishPermission, PublishNothing

LEMMA ResumableStep ==
  ASSUME TypeOK, Control, Records, Resumable, [Next]_vars
  PROVE  Resumable'
  <1> USE DEF vars, runVars, reviewVars, userVars, resumeVars, history
  <1> SUFFICES ASSUME ~mislaid' PROVE SavedAll' /\ \A k \in Tool : ResumableOf(k)'
    BY DEF Resumable
  <1>1. SavedAll /\ \A k \in Tool : ResumableOf(k) /\ k \in ToolCall
    BY MislaidStays, ToolsAreCalls DEF Resumable
  <1>2. SavedAll'
    <2>1. CASE UNCHANGED <<phase, flagged, batch, at, ckpt>>
      BY <1>1, <2>1 DEF SavedAll
    <2>2. CASE SaveCheckpoint
      BY <2>2 DEF SaveCheckpoint, Interrupted, SavedAll
    <2>3. ASSUME phase' # "saved" PROVE SavedAll'
      BY <2>3 DEF SavedAll
    <2>4. CASE RunStep
      BY <2>1, <2>2, <2>3, <2>4 DEF RunStep, StartRun, RunFresh, ResumeRun, StepDone, FinishRun,
         FailRun, PublishQuestion, PublishPermission, PublishNothing, Ends, Over
    <2>5. ASSUME NEW k \in ToolCall, CallStep(k)
          PROVE  phase' # "saved"
      BY <2>5 DEF CallStep, Bypass, CheckPermission, HandleResume, TakeReport, ReviewTimesOut,
         Interrupt, InterruptFails, Invoke, AskQuestion, Enters, Control, Unsettled
    <2>6. CASE (\E calls \in SUBSET ToolCall : AskForTools(calls))
               \/ (\E answer \in answers : ResumeAgent(answer))
      BY <2>3, <2>6, MislaidStays DEF AskForTools, ResumeAgent
    <2>7. CASE UserStep \/ RefuseRun \/ UNCHANGED vars \/ (\E j \in Tool : ReviewStep(j))
      <3>1. ASSUME NEW k \in Tool, NEW d, NEW id, AnswerPermission(k, d, id)
            PROVE  UNCHANGED <<phase, flagged, batch, at, ckpt>>
        BY <3>1 DEF AnswerPermission
      <3>2. ASSUME NEW k, NEW id, AnswerQuestion(k, id)
            PROVE  UNCHANGED <<phase, flagged, batch, at, ckpt>>
        BY <3>2 DEF AnswerQuestion
      <3>3. UserStep => UNCHANGED <<phase, flagged, batch, at, ckpt>>
        BY <3>1, <3>2 DEF UserStep, AnswerStep, SendMessage
      <3> QED
        BY <2>1, <2>7, <3>3 DEF RefuseRun, ReviewStep, Report
    <2> QED
      BY <2>3, <2>4, <2>5, <2>6, <2>7 DEF Next
  <1>3. ASSUME NEW k \in Tool
        PROVE  ResumableOf(k)'
    <2>1. CASE AnswerStep
      <3>1. UNCHANGED <<phase, batch, at, flagged, ckptId, has, ckpt>> /\ answers' # {}
        BY <2>1, Accepted DEF AnswerStep, AnswerPermission, AnswerQuestion
      <3> QED
        BY <1>1, <3>1 DEF ResumableOf
    <2>2. ASSUME ~AnswerStep
          PROVE  rec'[k].status = "answered" => rec[k].status = "answered"
      BY <2>2, DecidedByUser
    <2>3. ASSUME UNCHANGED <<phase, batch, at, flagged, ckptId, has, ckpt, answers, spawned>>,
                 ~AnswerStep
          PROVE  ResumableOf(k)'
      BY <1>1, <2>2, <2>3 DEF ResumableOf
    <2>4. CASE SendMessage /\ ~AnswerStep
      BY <1>1, <2>2, <2>4 DEF SendMessage, ResumableOf, TypeOK
    <2>5. ASSUME NEW answer \in answers, ResumeAgent(answer), ~AnswerStep
          PROVE  ResumableOf(k)'
      <3>1. phase = "idle"
        BY <2>5, MislaidStays
      <3>2. spawned' > 0 /\ UNCHANGED <<phase, at, batch, ckpt>>
        BY <2>5 DEF ResumeAgent, TypeOK
      <3>3. ckptId'
        BY <2>5, Zenon DEF ResumeAgent
      <3> QED
        BY <1>1, <3>1, <3>2, <3>3 DEF ResumableOf
    <2>6. ASSUME NEW calls \in SUBSET ToolCall, AskForTools(calls)
          PROVE  ResumableOf(k)'
      BY <1>1, <2>6 DEF AskForTools, ResumableOf
    <2>7. ASSUME NEW j \in ToolCall, CallStep(j), ~AnswerStep
          PROVE  ResumableOf(k)'
      <3>1. /\ UNCHANGED <<phase, batch, flagged, ckptId, has, ckpt, answers, spawned>>
            /\ phase = "running" /\ j \in batch
        BY <2>7 DEF CallStep, Bypass, CheckPermission, HandleResume, TakeReport, ReviewTimesOut,
           Interrupt, InterruptFails, Invoke, AskQuestion, Enters, Control, Unsettled
      <3>2. CASE Interrupt(k)
        BY <3>1, <3>2, <1>1 DEF Interrupt, ResumableOf, Control, Unsettled, NoRecord, TypeOK
      <3>3. CASE ~Interrupt(k)
        <4>1. at'[k] = "asked" => at[k] = "asked"
          BY <1>1, <2>7, <3>3, ToolsAreCalls
          DEF CallStep, Bypass, CheckPermission, HandleResume, TakeReport, ReviewTimesOut,
              Interrupt, InterruptFails, Invoke, AskQuestion, FirstCheck, Judge, Moves, TypeOK
        <4> QED
          BY <1>1, <2>2, <2>7, <3>1, <4>1 DEF ResumableOf
      <3> QED
        BY <3>2, <3>3
    <2>8. CASE RefuseRun /\ ~AnswerStep
      BY <1>1, <2>2, <2>8 DEF RefuseRun, ResumableOf
    <2>9. CASE (\E j \in Tool : ReviewStep(j)) \/ UNCHANGED vars
      BY <2>1, <2>3, <2>9 DEF ReviewStep, Report
    <2>10. CASE RunStep /\ ~AnswerStep
      BY <1>1, <2>10, ResumableOfRuns
    <2> QED
      BY <2>1, <2>4, <2>5, <2>6, <2>7, <2>8, <2>9, <2>10 DEF Next, UserStep
  <1> QED
    BY <1>2, <1>3

-----------------------------------------------------------------------------
(* The invariant and what it implies.                                      *)

LEMMA InvInit == Init => Inv
  <1> SUFFICES ASSUME Init PROVE Inv
    OBVIOUS
  <1> USE ApprovalAssumption DEF Init
  <1>1. 0 \in 0 .. MaxReports /\ 0 \in 0 .. MaxSends
    OBVIOUS
  <1>2. TypeOK
    BY <1>1 DEF TypeOK, NoRecord, Id
  <1>3. Control /\ Records
    BY ToolsAreCalls DEF Control, Records, RecordOf, NoRecord, Unsettled
  <1>4. Answers /\ Consent
    BY ToolsAreCalls DEF Answers, FromRecord, Consent, ConsentOf
  <1>5. \A k \in Tool : Answering(k) = {} /\ rec[k] = NoRecord /\ ran[k] = {}
    BY ToolsAreCalls DEF Answering
  <1>6. Tokens /\ Resumable /\ RunsOnce /\ RememberedByUser
    BY <1>5, ToolsAreCalls DEF Tokens, TokenOf, Addressed, Resumable, SavedAll, ResumableOf,
       RunsOnce, RememberedByUser, NoRecord
  <1>7. Tagged
    BY <1>5 DEF Tagged, NoRecord, For
  <1> QED
    BY <1>2, <1>3, <1>4, <1>6, <1>7 DEF Inv

LEMMA InvStep == Inv /\ [Next]_vars => Inv'
  BY TypeStep, ControlStep, RecordsStep, TaggedStep, AnswersStep, ConsentStep, TokensStep, ResumableStep,
     OnceStep, RememberedStep DEF Inv

LEMMA Invariance == Spec => []Inv
  BY InvInit, InvStep, PTL DEF Spec

\* The rows, the session's parameters and the reviewer's channel, which never
\* holds more than one report, have their types in every reachable state.
THEOREM TypesHold == Spec => []TypeOK
  BY Invariance, PTL DEF Inv

\* Whatever calls interleave with whatever answers, a guarded call executed in
\* its own right had the user's approval for its interrupt, a mode that asks
\* nobody, a remembered operation or a low report.
THEOREM RunningHasConsent == Spec => []RunsWithConsent
  <1>1. Inv => RunsWithConsent
    <2> SUFFICES ASSUME Inv, NEW k \in Tool, ran[k] # {}
                 PROVE  \/ Decided(k, Approve)
                        \/ "bypass_permissions" \in ran[k]
                        \/ "edit_automatically" \in ran[k] /\ (Whitelisted(k) \/ low)
      BY DEF RunsWithConsent
    <2>1. PICK mode \in ran[k] : LetThrough(k, mode)
      BY DEF Inv, Consent, ConsentOf
    <2> QED
      BY <2>1 DEF LetThrough
  <1> QED
    BY <1>1, Invariance, PTL

\* A call whose interrupt was answered with a denial only is executed in its own
\* right only in a mode that asks nobody.  Resumptions that are not for it do
\* execute it, which approval_unasked shows.
THEOREM DenialHolds == Spec => []DeniedIsNotRun
  <1>1. Inv => DeniedIsNotRun
    <2> SUFFICES ASSUME Inv, NEW k \in Tool, Decided(k, {"denied"}), ~Decided(k, Approve),
                        NEW mode \in ran[k]
                 PROVE  mode = "bypass_permissions"
      BY DEF DeniedIsNotRun
    <2>1. LetThrough(k, mode)
      BY DEF Inv, Consent, ConsentOf
    <2>2. PICK j \in Tool : For(via[j], k)
      BY DEF Decided, Answering, For
    <2>3. For(rec[j].tag, k)
      BY <2>2, ToolsAreCalls DEF Inv, Records, RecordOf, For
    <2>4. rec[k].status # "none"
      BY <2>3 DEF Inv, Tagged
    <2> QED
      BY <2>1, <2>4 DEF LetThrough
  <1> QED
    BY <1>1, Invariance, PTL

\* A call is executed in its own right more than once only when its interrupt
\* was answered through two records, however many messages and answers resume
\* the checkpoint.
THEOREM ExecutedOnce == Spec => []RunsOnce
  BY Invariance, PTL DEF Inv

\* Every row of project_tool_permissions is there because the user asked for it,
\* in answer to the record about that operation or to one that carried the
\* interrupt of its call.
THEOREM RememberedIsAsked == Spec => []RememberedByUser
  BY Invariance, PTL DEF Inv

\* When the runs that answers spawned have ended, a call is still interrupted
\* only while its own record is open, unless an answer came during a run, its
\* handler failed, or a checkpoint was not noted on the conversation.
THEOREM AnswersAreUsed == Spec => []WaitsForUser
  <1>1. Inv => WaitsForUser
    <2> SUFFICES ASSUME Inv, phase = "idle", spawned = 0, answers = {}, ~mislaid,
                        NEW k \in Tool, at[k] = "asked"
                 PROVE  rec[k].status = "pending"
      BY DEF WaitsForUser
    <2>1. rec[k].status # "none" /\ rec[k].status \in {"none", "pending", "answered"}
      BY ToolsAreCalls DEF Inv, Records, RecordOf, TypeOK
    <2>2. rec[k].status # "answered"
      BY DEF Inv, Resumable, ResumableOf
    <2> QED
      BY <2>1, <2>2
  <1> QED
    BY <1>1, Invariance, PTL

=============================================================================
