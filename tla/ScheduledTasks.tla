--------------------------- MODULE ScheduledTasks ---------------------------
(***************************************************************************)
(* The scheduled tasks of one conversation: rows in cron_tasks, entries of *)
(* the scheduler in memory, and the executions they start                  *)
(* (service/cron.go, eino/tools/cron_task.go).                             *)
(*                                                                         *)
(* Requests of the user and calls of the cron_task tool create and cancel  *)
(* tasks, step by step between the database and memory; the server may die *)
(* at any moment and starts again by loading the active rows, while its    *)
(* routes already serve requests (di/module.go).  The scheduler itself is  *)
(* a library: an entry has the instant of its next firing, computed when   *)
(* the scheduler starts, when an entry is added to a running scheduler and *)
(* after each firing, and every firing is a goroutine of its own.          *)
(*                                                                         *)
(* Time is a counter of seconds in which a year has Year seconds: a        *)
(* one-time schedule names a second, a minute, an hour, a day and a month, *)
(* so it comes round every year.                                           *)
(***************************************************************************)
EXTENDS Naturals, FiniteSets

CONSTANTS
  Task,        \* the rows that may be created
  Kinds,       \* kinds of schedule: "once", "every" (@every, @hourly...), "five" fields
  Canceller,   \* the calls that cancel a task
  Slot,        \* room for executions under way
  Delays,      \* the durations a one-time task may ask for
  Period,      \* the period of a recurring task
  Year,        \* the time after which a one-time schedule comes round
  MaxTime,     \* bound of the clock
  MaxStarts,   \* bound of the server's starts
  Faults       \* may database writes and sends fail?

ASSUME TaskConstants ==
  /\ Kinds \subseteq {"once", "every", "five"}
  /\ Delays \subseteq Nat
  /\ {Period, Year} \subseteq Nat \ {0}
  /\ MaxTime \in Nat /\ MaxStarts \in Nat \ {0}
  /\ Faults \in BOOLEAN

VARIABLES
  now,          \* the clock
  server,       \* "down"; "wiring" and "loading" serve requests without a scheduler; "up";
                \* "idle" serves requests, the scheduler was never started
  starts,       \* how often it was started
  open,         \* does the conversation exist?
  row,          \* row[t]: the status of t's row, "none" before it is inserted, "gone" after
  kind,         \* kind[t]: the kind of its schedule
  due,          \* due[t]: the instant a one-time schedule names
  entries,      \* the scheduler's entries
  lastId,       \* the last entry identifier given out
  taskEntries,  \* taskEntries[t]: the entry remembered for t, 0 for none
  create,       \* create[t]: the call that creates t
  cancel,       \* cancel[c]: the call c
  loaded,       \* the rows Start still has to register
  exec,         \* exec[x]: the execution in slot x
  \* The rest is history: nothing in the code reads it.
  sent,         \* sent[t]: messages sent for t
  acked,        \* tasks whose cancellation was reported to the caller
  early,        \* tasks accepted before Start had read the rows
  unmarked,     \* one-time tasks that were sent and not marked as completed
  late,         \* one-time tasks registered, or started, after their instant
  unsent,       \* tasks with an execution that could not send its message
  unscheduled   \* tasks left active without an entry: by a cancellation or a rollback that
                \* failed, or a tool without a registration function

database == <<open, row, kind, due>>
memory   == <<entries, lastId, taskEntries>>
history  == <<sent, acked, early, unmarked, late, unsent, unscheduled>>
vars == <<now, server, starts, database, memory, create, cancel, loaded, exec, history>>

Exists(t) == row[t] \notin {"none", "gone"}
Serving == server # "down"
NoTask == [at |-> "free"]
Never == MaxTime + Year + 1

Init ==
  /\ now = 0
  /\ server = "wiring" /\ starts = 1
  /\ open = TRUE
  /\ row = [t \in Task |-> "none"]
  /\ kind = [t \in Task |-> "once"]
  /\ due = [t \in Task |-> 0]
  /\ entries = {} /\ lastId = 0
  /\ taskEntries = [t \in Task |-> 0]
  /\ create = [t \in Task |-> "no"]
  /\ cancel = [c \in Canceller |-> NoTask]
  /\ loaded = {}
  /\ exec = [x \in Slot |-> NoTask]
  /\ sent = [t \in Task |-> 0]
  /\ acked = {} /\ early = {} /\ unmarked = {} /\ late = {} /\ unsent = {} /\ unscheduled = {}

-----------------------------------------------------------------------------
(* The scheduler.                                                          *)

\* The first instant after n at which t's schedule fires.
NextAfter(t, n) ==
  IF kind[t] = "every" THEN n + Period
  ELSE CHOOSE i \in (n + 1) .. (n + Year) : i % Year = due[t] % Year

IsOneTimeTask(t) == kind[t] = "once"

\* The scheduler's parser wants six fields or a descriptor.
Parses(t) == kind[t] # "five"

\* registerTask: AddJob, and the entry remembered under the task.
RegisterTask(t) ==
  /\ entries' = entries \cup
       {[id |-> lastId + 1, task |-> t, next |-> IF server = "up" THEN NextAfter(t, now) ELSE Never]}
  /\ lastId' = lastId + 1
  /\ taskEntries' = [taskEntries EXCEPT ![t] = lastId + 1]
  /\ late' = IF IsOneTimeTask(t) /\ server = "up" /\ now >= due[t] THEN late \cup {t} ELSE late

FailsToRegister(t) == ~Parses(t) /\ UNCHANGED <<memory, late>>

\* Sending a message does not take a year.
Tick ==
  /\ now < MaxTime
  /\ \A x \in Slot :
       exec[x].at # "free" /\ IsOneTimeTask(exec[x].task) => now + 1 < exec[x].fired + Year
  /\ now' = now + 1
  /\ UNCHANGED <<server, starts, database, memory, create, cancel, loaded, exec, history>>

\* An entry whose instant has come starts its job in a goroutine.
Fire(e, x) ==
  /\ server = "up"
  /\ e.next <= now
  /\ exec[x].at = "free"
  /\ exec' = [exec EXCEPT ![x] =
                [at |-> "fired", task |-> e.task, fired |-> e.next, acked |-> e.task \in acked]]
  /\ entries' = (entries \ {e}) \cup {[e EXCEPT !.next = NextAfter(e.task, now)]}
  /\ UNCHANGED <<now, server, starts, database, lastId, taskEntries, create, cancel, loaded,
                 history>>

-----------------------------------------------------------------------------
(* ExecuteTask.                                                            *)

Ends(x) == exec' = [exec EXCEPT ![x] = NoTask]
Goes(x, label) == exec' = [exec EXCEPT ![x].at = label]

\* Mutant: the row is looked up by its identifier alone.
ReadAnyTask(x) ==
  /\ exec[x].at = "fired"
  /\ IF Exists(exec[x].task) THEN Goes(x, "send") ELSE Ends(x)
  /\ UNCHANGED <<now, server, starts, database, memory, create, cancel, loaded, history>>

\* Mutant: a one-time task is completed before its message is sent.
ClaimTask(x) ==
  /\ exec[x].at = "fired"
  /\ IF row[exec[x].task] = "active"
     THEN /\ Goes(x, "send")
          /\ row' = IF IsOneTimeTask(exec[x].task)
                    THEN [row EXCEPT ![exec[x].task] = "completed"] ELSE row
     ELSE Ends(x) /\ UNCHANGED row
  /\ UNCHANGED <<now, server, starts, open, kind, due, memory, create, cancel, loaded, history>>

\* Mutant: the row is expected to be pending.
ReadPendingTask(x) ==
  /\ exec[x].at = "fired"
  /\ IF row[exec[x].task] = "pending" THEN Goes(x, "send") ELSE Ends(x)
  /\ UNCHANGED <<now, server, starts, database, memory, create, cancel, loaded, history>>

\* The row is read; only an active task goes on.
ReadTask(x) ==
  /\ exec[x].at = "fired"
  /\ IF row[exec[x].task] = "active" THEN Goes(x, "send") ELSE Ends(x)
  /\ UNCHANGED <<now, server, starts, database, memory, create, cancel, loaded, history>>

\* The conversation is read and the message sent to it.
SendMessage(x) ==
  LET t == exec[x].task
  IN  /\ exec[x].at = "send"
      /\ open
      /\ sent' = [sent EXCEPT ![t] = @ + 1]
      /\ Goes(x, IF IsOneTimeTask(t) THEN "mark" ELSE "sync")
      /\ UNCHANGED <<now, server, starts, database, memory, create, cancel, loaded, acked,
                     early, unmarked, late, unsent, unscheduled>>

\* There is no such conversation any more, or the message is not accepted.
SendFails(x) ==
  /\ exec[x].at = "send"
  /\ ~open \/ Faults
  /\ unsent' = unsent \cup {exec[x].task}
  /\ Ends(x)
  /\ UNCHANGED <<now, server, starts, database, memory, create, cancel, loaded, sent, acked,
                 early, unmarked, late, unscheduled>>

\* Mutant: the update finds no row.
MarkNothing(x) ==
  /\ exec[x].at = "mark"
  /\ Goes(x, "sync")
  /\ UNCHANGED <<now, server, starts, database, memory, create, cancel, loaded, history>>

\* Mutant: a status the column does not have.
MarkDone(x) ==
  /\ exec[x].at = "mark"
  /\ row' = IF Exists(exec[x].task) THEN [row EXCEPT ![exec[x].task] = "done"] ELSE row
  /\ Goes(x, "sync")
  /\ UNCHANGED <<now, server, starts, open, kind, due, memory, create, cancel, loaded, history>>

\* A one-time task is completed, whatever became of its row meanwhile.
MarkCompleted(x) ==
  LET t == exec[x].task
  IN  /\ exec[x].at = "mark"
      /\ row' = IF Exists(t) THEN [row EXCEPT ![t] = "completed"] ELSE row
      /\ Goes(x, "sync")
      /\ UNCHANGED <<now, server, starts, open, kind, due, memory, create, cancel, loaded, history>>

MarkFails(x) ==
  /\ Faults
  /\ exec[x].at = "mark"
  /\ unmarked' = unmarked \cup {exec[x].task}
  /\ Goes(x, "sync")
  /\ UNCHANGED <<now, server, starts, database, memory, create, cancel, loaded, sent, acked,
                 early, late, unsent, unscheduled>>

\* pushTaskSync tells the user's clients to read the list again.
PushTaskSync(x) ==
  /\ exec[x].at = "sync"
  /\ Ends(x)
  /\ UNCHANGED <<now, server, starts, database, memory, create, cancel, loaded, history>>

-----------------------------------------------------------------------------
(* Creating a task: by a request (CreateTask), by the tool, or by a tool   *)
(* built before the registration function was set.                         *)

Arrives(t, label) == create' = [create EXCEPT ![t] = label]

\* A duration becomes an instant; a cron expression of five fields passes, though
\* the scheduler wants six.
ParseSchedule(t, k, d) ==
  /\ kind' = [kind EXCEPT ![t] = k]
  /\ due' = IF k = "once" THEN [due EXCEPT ![t] = now + d] ELSE due

\* The conversation is found and the schedule parsed.
AcceptTask(t, via, k, d) ==
  /\ Serving /\ open
  /\ create[t] = "no"
  /\ via = "unwired" => server = "wiring"
  /\ ParseSchedule(t, k, d)
  /\ Arrives(t, via)
  /\ early' = IF server = "wiring" THEN early \cup {t} ELSE early
  /\ UNCHANGED <<now, server, starts, open, row, memory, cancel, loaded, exec, sent, acked,
                 unmarked, late, unsent, unscheduled>>

\* The row is inserted as active.
InsertTask(t) ==
  /\ create[t] \in {"request", "tool", "unwired"}
  /\ open
  /\ row' = [row EXCEPT ![t] = "active"]
  /\ Arrives(t, CASE create[t] = "request" -> "add" [] create[t] = "tool" -> "look"
                  [] create[t] = "unwired" -> "done")
  /\ unscheduled' = IF create[t] = "unwired" THEN unscheduled \cup {t} ELSE unscheduled
  /\ UNCHANGED <<now, server, starts, open, kind, due, memory, cancel, loaded, exec, sent, acked,
                 early, unmarked, late, unsent>>

\* The insertion fails, at the latest because the conversation is gone.
InsertFails(t) ==
  /\ create[t] \in {"request", "tool", "unwired"}
  /\ ~open \/ Faults
  /\ Arrives(t, "done")
  /\ UNCHANGED <<now, server, starts, database, memory, cancel, loaded, exec, history>>

\* RegisterTask, which the tool calls, reads the row again.
LookUpTask(t) ==
  /\ create[t] = "look"
  /\ Arrives(t, IF Exists(t) THEN "add" ELSE "rollback")
  /\ UNCHANGED <<now, server, starts, database, memory, cancel, loaded, exec, history>>

AddToScheduler(t) ==
  /\ create[t] = "add" /\ Parses(t)
  /\ RegisterTask(t)
  /\ Arrives(t, "done")
  /\ UNCHANGED <<now, server, starts, database, cancel, loaded, exec, sent, acked, early, unmarked,
                 unsent, unscheduled>>

\* The scheduler does not understand the schedule.
AddFails(t) ==
  /\ create[t] = "add" /\ ~Parses(t)
  /\ Arrives(t, "rollback")
  /\ UNCHANGED <<now, server, starts, database, memory, cancel, loaded, exec, history>>

\* The row of a task that could not be registered is cancelled; nobody looks
\* whether that worked.
RollBack(t) ==
  /\ create[t] = "rollback"
  /\ \/ /\ row' = IF Exists(t) THEN [row EXCEPT ![t] = "cancelled"] ELSE row
        /\ UNCHANGED unscheduled
     \/ Faults /\ unscheduled' = unscheduled \cup {t} /\ UNCHANGED row
  /\ Arrives(t, "rejected")
  /\ UNCHANGED <<now, server, starts, open, kind, due, memory, cancel, loaded, exec, sent, acked,
                 early, unmarked, late, unsent>>

-----------------------------------------------------------------------------
(* Cancelling a task, and deleting its conversation.                       *)

\* CancelTask finds the conversation and the row and removes the entry it
\* remembers.
RemoveTask(c, t) ==
  /\ Serving /\ open /\ Exists(t)
  /\ cancel[c].at = "free"
  /\ cancel' = [cancel EXCEPT ![c] = [at |-> "update", task |-> t]]
  /\ entries' = {e \in entries : e.id # taskEntries[t]}
  /\ taskEntries' = [taskEntries EXCEPT ![t] = 0]
  /\ UNCHANGED <<now, server, starts, database, lastId, create, loaded, exec, history>>

Answered == [at |-> "done"]

\* Then it writes the row, if that still exists, and answers.
UpdateStatus(c) ==
  LET t == cancel[c].task
  IN  /\ cancel[c].at = "update"
      /\ row' = IF Exists(t) THEN [row EXCEPT ![t] = "cancelled"] ELSE row
      /\ acked' = acked \cup {t}
      /\ cancel' = [cancel EXCEPT ![c] = Answered]
      /\ UNCHANGED <<now, server, starts, open, kind, due, memory, create, loaded, exec, sent,
                     early, unmarked, late, unsent, unscheduled>>

UpdateFails(c) ==
  /\ Faults
  /\ cancel[c].at = "update"
  /\ unscheduled' = unscheduled \cup {cancel[c].task}
  /\ cancel' = [cancel EXCEPT ![c] = Answered]
  /\ UNCHANGED <<now, server, starts, database, memory, create, loaded, exec, sent, acked,
                 early, unmarked, late, unsent>>

\* The tool writes the row and leaves the entry where it is.
CancelByTool(c, t) ==
  /\ Serving /\ Exists(t)
  /\ cancel[c].at = "free"
  /\ row' = [row EXCEPT ![t] = "cancelled"]
  /\ acked' = acked \cup {t}
  /\ cancel' = [cancel EXCEPT ![c] = Answered]
  /\ UNCHANGED <<now, server, starts, open, kind, due, memory, create, loaded, exec, sent, early,
                 unmarked, late, unsent, unscheduled>>

\* The foreign key takes the rows along; their entries stay.
DeleteConversation ==
  /\ Serving /\ open
  /\ open' = FALSE
  /\ row' = [t \in Task |-> IF Exists(t) THEN "gone" ELSE row[t]]
  /\ UNCHANGED <<now, server, starts, kind, due, memory, create, cancel, loaded, exec, history>>

-----------------------------------------------------------------------------
(* The server.                                                             *)

\* Mutant: Start finds the pending rows.
LoadPending ==
  /\ server = "wiring"
  /\ server' = "loading"
  /\ loaded' = {t \in Task : row[t] = "pending"}
  /\ UNCHANGED <<now, starts, database, memory, create, cancel, exec, history>>

\* Start finds the active rows...
LoadTasks ==
  /\ server = "wiring"
  /\ server' = "loading"
  /\ loaded' = {t \in Task : row[t] = "active"}
  /\ UNCHANGED <<now, starts, database, memory, create, cancel, exec, history>>

\* ...or does not, and the server runs on without a scheduler.
LoadFails ==
  /\ Faults
  /\ server = "wiring"
  /\ server' = "idle"
  /\ UNCHANGED <<now, starts, database, memory, create, cancel, loaded, exec, history>>

\* ...registers each, in no particular order...
RegisterLoaded(t) ==
  /\ t \in loaded
  /\ loaded' = loaded \ {t}
  /\ \/ Parses(t) /\ RegisterTask(t)
     \/ FailsToRegister(t)
  /\ UNCHANGED <<now, server, starts, database, create, cancel, exec, sent, acked, early, unmarked,
                 unsent, unscheduled>>

\* ...and starts the scheduler, which computes when each entry fires next.
StartScheduler ==
  /\ server = "loading" /\ loaded = {}
  /\ server' = "up"
  /\ entries' = {[e EXCEPT !.next = NextAfter(e.task, now)] : e \in entries}
  /\ late' = late \cup {t \in Task : IsOneTimeTask(t) /\ now >= due[t]
                                     /\ \E e \in entries : e.task = t}
  /\ UNCHANGED <<now, starts, database, lastId, taskEntries, create, cancel, loaded, exec,
                 sent, acked, early, unmarked, unsent, unscheduled>>

\* What was in memory and under way is gone; the rows stay.
Crash ==
  /\ Serving
  /\ server' = "down"
  /\ entries' = {} /\ taskEntries' = [t \in Task |-> 0] /\ lastId' = 0
  /\ loaded' = {}
  /\ create' = [t \in Task |-> IF create[t] = "no" THEN "no" ELSE "done"]
  /\ cancel' = [c \in Canceller |-> IF cancel[c].at = "free" THEN cancel[c] ELSE Answered]
  /\ exec' = [x \in Slot |-> NoTask]
  /\ unmarked' = unmarked \cup {exec[x].task : x \in {y \in Slot : exec[y].at = "mark"}}
  /\ UNCHANGED <<now, starts, database, sent, acked, early, late, unsent, unscheduled>>

Restart ==
  /\ server = "down" /\ starts < MaxStarts
  /\ server' = "wiring"
  /\ starts' = starts + 1
  /\ UNCHANGED <<now, database, memory, create, cancel, loaded, exec, history>>

-----------------------------------------------------------------------------

Execution(x) == ReadTask(x) \/ SendMessage(x) \/ SendFails(x) \/ MarkCompleted(x)
                \/ MarkFails(x) \/ PushTaskSync(x)

Creation(t) == InsertTask(t) \/ InsertFails(t) \/ LookUpTask(t) \/ AddToScheduler(t)
               \/ AddFails(t) \/ RollBack(t)

Cancellation(c) ==
  \/ \E t \in Task : RemoveTask(c, t) \/ CancelByTool(c, t)
  \/ UpdateStatus(c) \/ UpdateFails(c)

Start == LoadTasks \/ LoadFails \/ (\E t \in Task : RegisterLoaded(t)) \/ StartScheduler

Fires(t) == \E e \in entries, x \in Slot : e.task = t /\ Fire(e, x)

Next ==
  \/ Tick
  \/ \E t \in Task : Fires(t)
  \/ \E x \in Slot : Execution(x)
  \/ \E t \in Task, via \in {"request", "tool", "unwired"}, k \in Kinds, d \in Delays :
       AcceptTask(t, via, k, d)
  \/ \E t \in Task : Creation(t)
  \/ \E c \in Canceller : Cancellation(c)
  \/ DeleteConversation
  \/ Start \/ Crash \/ Restart

Spec == Init /\ [][Next]_vars

(* Time passes, the scheduler's loop fires what is due, goroutines run.    *)
Fairness ==
  /\ WF_vars(Tick)
  /\ \A t \in Task : WF_vars(Fires(t))
  /\ \A x \in Slot : WF_vars(Execution(x))
  /\ \A c \in Canceller : WF_vars(UpdateStatus(c) \/ UpdateFails(c))

FairSpec == Spec /\ Fairness

-----------------------------------------------------------------------------
(* Properties.                                                             *)

Status == {"none", "active", "cancelled", "completed", "gone"}
Entry == [id : Nat, task : Task, next : Nat]
Running == [at : {"fired", "send", "mark", "sync"}, task : Task, fired : Nat, acked : BOOLEAN]

\* Every variable holds a value of its kind.
TypeOK ==
  /\ now \in 0 .. MaxTime
  /\ server \in {"down", "wiring", "loading", "up", "idle"}
  /\ starts \in 1 .. MaxStarts
  /\ open \in BOOLEAN
  /\ row \in [Task -> Status]
  /\ kind \in [Task -> {"once", "every", "five"}]
  /\ due \in [Task -> Nat]
  /\ entries \subseteq Entry
  /\ lastId \in Nat
  /\ taskEntries \in [Task -> Nat]
  /\ create \in [Task -> {"no", "request", "tool", "unwired", "look", "add", "rollback",
                          "rejected", "done"}]
  /\ cancel \in [Canceller -> {NoTask, Answered} \cup [at : {"update"}, task : Task]]
  /\ loaded \subseteq Task
  /\ exec \in [Slot -> {NoTask} \cup Running]
  /\ sent \in [Task -> Nat]
  /\ {acked, early, unmarked, late, unsent, unscheduled} \subseteq SUBSET Task

ExecutionsOf(t) == {x \in Slot : exec[x].at # "free" /\ exec[x].task = t}
EntriesOf(t) == {e \in entries : e.task = t}

\* A one-time task sends its message once.  The exceptions are a row that was
\* not marked after the message, and a task created while Start was still to
\* read the rows: its creation and Start may both register it.
OneTimeSentOnce ==
  \A t \in Task : IsOneTimeTask(t) => sent[t] <= 1 \/ t \in early \cup unmarked

\* Once a cancellation was acknowledged the task is never active again, and
\* nothing that fires later sends its message, although the tool leaves the
\* entry in the scheduler and Start may register the row it had read before.
CancelHolds ==
  \A t \in acked :
    /\ row[t] # "active"
    /\ \A x \in ExecutionsOf(t) : exec[x].acked => exec[x].at = "fired"

\* The scheduler knows every active task whose creation has ended.
ActiveIsScheduled ==
  server = "up" =>
    \A t \in Task :
      row[t] = "active" /\ create[t] = "done" =>
        \/ EntriesOf(t) # {}
        \/ \E c \in Canceller : cancel[c].at = "update" /\ cancel[c].task = t
        \/ ~Parses(t) \/ t \in unscheduled

\* A one-time task whose instant has passed and that sent nothing is on its
\* way, or about to fire, or was registered too late, or lost its entry, or could
\* not send: and a completed one was sent.  (A schedule of more than a year names
\* an instant before its own, and fires early.)
UnsentIsExplained ==
  \A t \in Task :
    IsOneTimeTask(t) /\ sent[t] = 0 =>
      /\ row[t] # "completed"
      /\ row[t] = "active" /\ create[t] = "done" /\ server = "up" /\ due[t] < now =>
           \/ ExecutionsOf(t) # {}
           \/ \E e \in EntriesOf(t) : e.next <= due[t]
           \/ \E c \in Canceller : cancel[c].at = "update" /\ cancel[c].task = t
           \/ t \in late \cup unsent \cup unscheduled

\* A one-time task that waits for its instant is sent, unless the server
\* stops, the task is cancelled, or the message cannot be sent.
DueIsSent ==
  \A t \in Task :
    (/\ IsOneTimeTask(t) /\ server = "up" /\ due[t] <= MaxTime
     /\ \E e \in EntriesOf(t) : e.next = due[t])
    ~> (sent[t] > 0 \/ row[t] # "active" \/ server # "up" \/ t \in unsent \cup unscheduled)

=============================================================================
