------------------------ MODULE ScheduledTasksProofs ------------------------
(***************************************************************************)
(* Proofs about scheduled tasks, for any rows, cancelling calls and        *)
(* executions, any year and any number of crashes.                         *)
(***************************************************************************)
EXTENDS ScheduledTasks, Integers, TLAPS

-----------------------------------------------------------------------------
(* The inductive invariant.                                                *)

\* A creation that has not inserted its row, or not registered it.
Uninserted   == {"no", "request", "tool", "unwired"}
Unregistered == Uninserted \cup {"look", "add"}

\* The scheduler holds what Start or a creation registered in this life.
Lives ==
  /\ loaded # {} => server = "loading"
  /\ server # "up" => \A x \in Slot : exec[x].at = "free"
  /\ \A t \in Task : create[t] \in Uninserted => row[t] = "none"
  /\ \A t \in Task : create[t] = "no" => IsOneTimeTask(t)
  /\ \A e \in entries : e.id > 0 /\ e.id <= lastId
  /\ \A t \in Task : taskEntries[t] <= lastId
  /\ \A e \in entries, t \in Task : e.id = taskEntries[t] => e.task = t

\* A cancelled task had a row, which is not active any more.
Cancels ==
  /\ \A c \in Canceller : cancel[c].at = "update" => create[cancel[c].task] \notin Uninserted
  /\ \A t \in acked : create[t] \notin Uninserted /\ row[t] # "active"
  /\ \A x \in Slot : exec[x].at # "free" /\ exec[x].acked =>
       exec[x].task \in acked /\ exec[x].at = "fired"

\* Start and the scheduler together know the active tasks.
KnownOrLost(t) ==
  row[t] = "active" /\ create[t] = "done" =>
    \/ EntriesOf(t) # {} \/ t \in loaded
    \/ \E c \in Canceller : cancel[c].at = "update" /\ cancel[c].task = t
    \/ ~Parses(t) \/ t \in unscheduled

Known == server \in {"loading", "up"} => \A t \in Task : KnownOrLost(t)

\* A task that was not accepted before Start read the rows is registered by
\* its creation or by Start, and has one entry.
Single(t) ==
  t \notin early =>
    /\ server \in {"down", "wiring"} => create[t] \in {"no", "done"} /\ EntriesOf(t) = {}
    /\ \A d, e \in EntriesOf(t) : d = e
    /\ t \in loaded => EntriesOf(t) = {} /\ create[t] = "done"
    /\ EntriesOf(t) # {} => create[t] \notin Unregistered
    /\ ExecutionsOf(t) # {} => create[t] \notin Unregistered

\* Its entry fires at the instant the schedule names, once a year, and while
\* it is executed the next firing is to come.
Timed(t) ==
  t \notin early /\ IsOneTimeTask(t) =>
    /\ server = "up" => \A e \in EntriesOf(t) : e.next % Year = due[t] % Year
    /\ \A x \in ExecutionsOf(t) :
         /\ exec[x].fired % Year = due[t] % Year
         /\ \A e \in EntriesOf(t) : e.next > now /\ e.next >= exec[x].fired + Year
    /\ \A x, y \in ExecutionsOf(t) : x = y

\* The row of a task that was sent is marked, or about to be.
Sends(t) ==
  t \notin early \cup unmarked /\ IsOneTimeTask(t) =>
    /\ sent[t] <= 1
    /\ sent[t] = 1 =>
         \/ \E x \in ExecutionsOf(t) : exec[x].at = "mark"
         \/ row[t] # "active" /\ create[t] \notin Uninserted
    /\ \A x \in ExecutionsOf(t) : exec[x].at = "send" => sent[t] = 0

OnceOf(t) == Single(t) /\ Timed(t) /\ Sends(t)
Once == \A t \in Task : OnceOf(t)

Inv == TypeOK /\ Lives /\ Cancels /\ Known /\ Once

-----------------------------------------------------------------------------
(* The instants a schedule names.                                          *)

LEMMA YearIsPositive == Year \in Nat /\ Year > 0 /\ Period \in Nat /\ Period > 0
  BY TaskConstants

LEMMA Division ==
  ASSUME NEW a \in Int, NEW y \in Int, y > 0
  PROVE  /\ a \div y \in Int /\ a % y \in 0 .. (y - 1)
         /\ (a \div y) * y + (a % y) = a
  BY Z3T(30)

LEMMA Remainder ==
  ASSUME NEW a \in Int, NEW y \in Nat \ {0}, NEW q \in Int, NEW r \in 0 .. (y - 1), a = q * y + r
  PROVE  a % y = r
  OBVIOUS

\* Two instants of the same schedule are a year apart.
LEMMA AYearApart ==
  ASSUME NEW a \in Nat, NEW b \in Nat, NEW y \in Nat \ {0}, a % y = b % y, a > b
  PROVE  a >= b + y
  <1> DEFINE q == a \div y   p == b \div y   r == a % y
  <1>1. q \in Int /\ r \in 0 .. (y - 1) /\ a = q * y + r
    BY Division
  <1>2. p \in Int /\ b = p * y + r
    BY Division
  <1> HIDE DEF q, p, r
  <1>3. q > p
    <2> SUFFICES ASSUME q <= p PROVE FALSE
      BY <1>1, <1>2
    <2>1. (p - q) * y >= 0
      BY <1>1, <1>2
    <2>2. (p - q) * y = p * y - q * y
      BY <1>1, <1>2
    <2> QED
      BY <1>1, <1>2, <2>1, <2>2
  <1>4. (q - p - 1) * y >= 0
    BY <1>1, <1>2, <1>3
  <1>5. (q - p - 1) * y = q * y - p * y - y
    BY <1>1, <1>2
  <1>6. q * y \in Int /\ p * y \in Int
    BY <1>1, <1>2
  <1> QED
    BY <1>1, <1>2, <1>4, <1>5, <1>6

\* The schedule comes round within the year.
LEMMA ComesRound ==
  ASSUME NEW n \in Nat, NEW d \in Nat, NEW y \in Nat \ {0}
  PROVE  \E i \in (n + 1) .. (n + y) : i % y = d % y
  <1> DEFINE q == (n + 1) \div y   s == (n + 1) % y   r == d % y
  <1>1. q \in Int /\ s \in 0 .. (y - 1) /\ n + 1 = q * y + s
    BY Division
  <1>2. r \in 0 .. (y - 1) /\ r = d % y
    BY Division
  <1> HIDE DEF q, s, r
  <1>3. ASSUME NEW a \in Int, NEW p \in Int, a = p * y + r PROVE a % y = d % y
    BY <1>2, <1>3, Remainder
  <1>4. q * y \in Int /\ (q + 1) * y = q * y + y
    BY <1>1
  <1>5. CASE r >= s
    <2> DEFINE i == q * y + r
    <2>1. i \in (n + 1) .. (n + y)
      BY <1>1, <1>2, <1>4, <1>5
    <2>2. i = q * y + r /\ i \in Int
      BY <2>1
    <2> HIDE DEF i
    <2>3. i % y = d % y
      BY <1>1, <1>3, <2>2
    <2> QED
      BY <2>1, <2>3
  <1>6. CASE r < s
    <2> DEFINE i == (q + 1) * y + r
    <2>1. i \in (n + 1) .. (n + y)
      BY <1>1, <1>2, <1>4, <1>6
    <2>2. q + 1 \in Int /\ i \in Int
      BY <1>1, <2>1
    <2>3. i % y = d % y
      <3> DEFINE p == q + 1
      <3>1. i = p * y + r /\ p \in Int
        BY <2>2
      <3> HIDE DEF i, p
      <3> QED
        BY <1>3, <2>2, <3>1
    <2> QED
      BY <2>1, <2>3
  <1> QED
    BY <1>1, <1>2, <1>5, <1>6

LEMMA NextComes ==
  ASSUME NEW t \in Task, NEW n \in Nat, due[t] \in Nat
  PROVE  /\ NextAfter(t, n) \in Nat /\ NextAfter(t, n) > n
         /\ IsOneTimeTask(t) => NextAfter(t, n) % Year = due[t] % Year
  <1>1. CASE kind[t] = "every"
    BY <1>1, YearIsPositive DEF NextAfter, IsOneTimeTask
  <1>2. CASE kind[t] # "every"
    <2>1. \A d \in Nat : \E i \in (n + 1) .. (n + Year) : i % Year = d % Year
      <3>1. Year \in Nat \ {0}
        BY YearIsPositive
      <3> QED
        BY <3>1, ComesRound, Zenon
    <2>2. /\ NextAfter(t, n) \in (n + 1) .. (n + Year)
          /\ NextAfter(t, n) % Year = due[t] % Year
      BY <1>2, <2>1 DEF NextAfter
    <2> QED
      BY <2>2, YearIsPositive
  <1> QED
    BY <1>1, <1>2

-----------------------------------------------------------------------------
(* Types.                                                                  *)

USE DEF database, memory, history

\* What an execution and a cancelling call are made of.
LEMMA Shapes ==
  ASSUME TypeOK
  PROVE  /\ \A x \in Slot : exec[x].at # "free" => exec[x] \in Running
         /\ \A x \in Slot : exec[x].at = "free" => exec[x] = NoTask
         /\ \A c \in Canceller : cancel[c].at = "update" =>
              cancel[c] = [at |-> "update", task |-> cancel[c].task] /\ cancel[c].task \in Task
  BY DEF TypeOK, NoTask, Answered, Running

\* An execution that goes on is one still.
LEMMA GoesTyped ==
  ASSUME TypeOK, NEW x \in Slot, exec[x].at # "free",
         NEW l \in {"send", "mark", "sync"}, Goes(x, l)
  PROVE  exec' \in [Slot -> {NoTask} \cup Running]
  <1>1. exec[x] \in Running
    BY Shapes
  <1>2. [exec[x] EXCEPT !.at = l] \in Running
    BY <1>1 DEF Running
  <1> QED
    BY <1>2 DEF Goes, TypeOK

LEMMA EndsTyped ==
  ASSUME TypeOK, NEW x \in Slot, Ends(x)
  PROVE  exec' \in [Slot -> {NoTask} \cup Running]
  BY DEF Ends, TypeOK

\* A registration adds an entry of its task.
LEMMA RegisterTyped ==
  ASSUME TypeOK, NEW t \in Task, RegisterTask(t)
  PROVE  /\ entries' \subseteq Entry /\ lastId' \in Nat /\ taskEntries' \in [Task -> Nat]
         /\ late' \subseteq Task
  <1>1. NextAfter(t, now) \in Nat /\ Never \in Nat
    BY NextComes, YearIsPositive, TaskConstants DEF TypeOK, Never
  <1>2. [id |-> lastId + 1, task |-> t, next |-> IF server = "up" THEN NextAfter(t, now) ELSE Never]
          \in Entry
    BY <1>1 DEF TypeOK, Entry
  <1>3. entries' \subseteq Entry
    BY <1>2 DEF RegisterTask, TypeOK
  <1> QED
    BY <1>3 DEF RegisterTask, TypeOK

LEMMA TypeInit == Init => TypeOK
  BY TaskConstants DEF Init, TypeOK, Status, NoTask

LEMMA TypeStep == TypeOK /\ [Next]_vars => TypeOK'
  <1> SUFFICES ASSUME TypeOK, [Next]_vars PROVE TypeOK'
    OBVIOUS
  <1>1. CASE Tick
    BY <1>1, TaskConstants DEF Tick, TypeOK
  <1>2. ASSUME NEW e \in entries, NEW x \in Slot, Fire(e, x) PROVE TypeOK'
    <2>1. e \in Entry /\ NextAfter(e.task, now) \in Nat
      BY NextComes DEF TypeOK, Entry
    <2>2. [e EXCEPT !.next = NextAfter(e.task, now)] \in Entry
      BY <2>1 DEF Entry
    <2>3. entries' \subseteq Entry
      BY <1>2, <2>2 DEF Fire, TypeOK
    <2>4. [at |-> "fired", task |-> e.task, fired |-> e.next, acked |-> e.task \in acked] \in Running
      <3>1. e.task \in Task /\ e.next \in Nat /\ (e.task \in acked) \in BOOLEAN
        BY <2>1 DEF Entry
      <3> QED
        BY <3>1, Zenon DEF Running
    <2>5. exec' \in [Slot -> {NoTask} \cup Running]
      <3> DEFINE r == [at |-> "fired", task |-> e.task, fired |-> e.next,
                       acked |-> e.task \in acked]
      <3>1. exec' = [exec EXCEPT ![x] = r] /\ r \in Running
        BY <1>2, <2>4, Zenon DEF Fire
      <3> HIDE DEF r
      <3> QED
        BY <3>1 DEF TypeOK
    <2>6. UNCHANGED <<now, server, starts, database, lastId, taskEntries, create, cancel, loaded,
                      history>>
      BY <1>2, Zenon DEF Fire
    <2> QED
      BY <2>3, <2>5, <2>6 DEF TypeOK
  <1>3. ASSUME NEW x \in Slot, Execution(x) PROVE TypeOK'
    <2>1. CASE ReadTask(x)
      <3>1. exec' \in [Slot -> {NoTask} \cup Running]
        BY <2>1, GoesTyped, EndsTyped DEF ReadTask
      <3> QED
        BY <2>1, <3>1 DEF ReadTask, TypeOK
    <2>2. CASE SendMessage(x)
      <3>1. exec' \in [Slot -> {NoTask} \cup Running]
        BY <2>2, GoesTyped DEF SendMessage
      <3>2. sent' \in [Task -> Nat]
        BY <2>2, Shapes DEF SendMessage, TypeOK, Running
      <3> QED
        BY <2>2, <3>1, <3>2 DEF SendMessage, TypeOK
    <2>3. CASE SendFails(x)
      BY <2>3, EndsTyped, Shapes DEF SendFails, TypeOK, Running
    <2>4. CASE MarkCompleted(x)
      <3>1. exec' \in [Slot -> {NoTask} \cup Running]
        BY <2>4, GoesTyped DEF MarkCompleted
      <3> QED
        BY <2>4, <3>1 DEF MarkCompleted, TypeOK, Status
    <2>5. CASE MarkFails(x)
      <3>1. exec' \in [Slot -> {NoTask} \cup Running]
        BY <2>5, GoesTyped DEF MarkFails
      <3> QED
        BY <2>5, <3>1, Shapes DEF MarkFails, TypeOK, Running
    <2>6. CASE PushTaskSync(x)
      BY <2>6, EndsTyped DEF PushTaskSync, TypeOK
    <2> QED
      BY <1>3, <2>1, <2>2, <2>3, <2>4, <2>5, <2>6 DEF Execution
  <1>4. ASSUME NEW t \in Task, NEW via \in {"request", "tool", "unwired"}, NEW k \in Kinds,
               NEW d \in Delays, AcceptTask(t, via, k, d)
        PROVE  TypeOK'
    <2>1. now + d \in Nat /\ k \in {"once", "every", "five"}
      BY TaskConstants DEF TypeOK
    <2>2. due' \in [Task -> Nat] /\ kind' \in [Task -> {"once", "every", "five"}]
      BY <1>4, <2>1 DEF AcceptTask, ParseSchedule, TypeOK
    <2> QED
      BY <1>4, <2>2 DEF AcceptTask, Arrives, TypeOK
  <1>5. ASSUME NEW t \in Task, Creation(t) PROVE TypeOK'
    <2>1. CASE InsertTask(t)
      <3>1. create' \in [Task -> {"no", "request", "tool", "unwired", "look", "add", "rollback",
                                  "rejected", "done"}]
        BY <2>1 DEF InsertTask, Arrives, TypeOK
      <3> QED
        BY <2>1, <3>1 DEF InsertTask, TypeOK, Status
    <2>2. CASE InsertFails(t) \/ LookUpTask(t) \/ AddFails(t)
      BY <2>2 DEF InsertFails, LookUpTask, AddFails, Arrives, TypeOK
    <2>3. CASE AddToScheduler(t)
      BY <2>3, RegisterTyped DEF AddToScheduler, Arrives, TypeOK
    <2>4. CASE RollBack(t)
      BY <2>4 DEF RollBack, Arrives, TypeOK, Status
    <2> QED
      BY <1>5, <2>1, <2>2, <2>3, <2>4 DEF Creation
  <1>6. ASSUME NEW c \in Canceller, NEW t \in Task, RemoveTask(c, t) PROVE TypeOK'
    BY <1>6 DEF RemoveTask, TypeOK
  <1>7. ASSUME NEW c \in Canceller, NEW t \in Task, CancelByTool(c, t) PROVE TypeOK'
    BY <1>7 DEF CancelByTool, TypeOK, Status
  <1>8. ASSUME NEW c \in Canceller, UpdateStatus(c) \/ UpdateFails(c) PROVE TypeOK'
    BY <1>8, Shapes DEF UpdateStatus, UpdateFails, TypeOK, Status
  <1>9. CASE DeleteConversation
    BY <1>9 DEF DeleteConversation, TypeOK, Status
  <1>10. CASE LoadTasks \/ LoadFails \/ Restart
    BY <1>10, TaskConstants DEF LoadTasks, LoadFails, Restart, TypeOK
  <1>11. ASSUME NEW t \in Task, RegisterLoaded(t) PROVE TypeOK'
    BY <1>11, RegisterTyped DEF RegisterLoaded, FailsToRegister, TypeOK
  <1>12. CASE StartScheduler
    <2>1. entries' \subseteq Entry
      <3>1. ASSUME NEW e \in entries PROVE [e EXCEPT !.next = NextAfter(e.task, now)] \in Entry
        BY NextComes DEF TypeOK, Entry
      <3> QED
        BY <1>12, <3>1 DEF StartScheduler
    <2> QED
      BY <1>12, <2>1 DEF StartScheduler, TypeOK
  <1>13. CASE Crash
    <2>1. cancel' \in [Canceller -> {NoTask, Answered} \cup [at : {"update"}, task : Task]]
      BY <1>13 DEF Crash, TypeOK
    <2>2. create' \in [Task -> {"no", "request", "tool", "unwired", "look", "add", "rollback",
                                  "rejected", "done"}]
      BY <1>13 DEF Crash, TypeOK
    <2>3. unmarked' \subseteq Task
      BY <1>13, Shapes DEF Crash, TypeOK, Running
    <2> QED
      BY <1>13, <2>1, <2>2, <2>3 DEF Crash, TypeOK
  <1>14. CASE UNCHANGED vars
    BY <1>14 DEF vars, TypeOK
  <1> QED
    BY <1>1, <1>2, <1>3, <1>4, <1>5, <1>6, <1>7, <1>8, <1>9, <1>10, <1>11, <1>12, <1>13, <1>14
    DEF Next, Fires, Cancellation, Start

-----------------------------------------------------------------------------
(* Lives, Cancels.                                                         *)

\* What creations, cancellations and the start of the server do to the entries.
LEMMA RegisterAdds ==
  ASSUME TypeOK, NEW t \in Task, RegisterTask(t)
  PROVE  \E f : /\ entries' = entries \cup {f} /\ f \in Entry
                /\ f.id = lastId + 1 /\ f.task = t
                /\ f.next = IF server = "up" THEN NextAfter(t, now) ELSE Never
                /\ lastId' = lastId + 1
                /\ taskEntries' = [taskEntries EXCEPT ![t] = f.id]
  <1> DEFINE f == [id |-> lastId + 1, task |-> t,
                   next |-> IF server = "up" THEN NextAfter(t, now) ELSE Never]
  <1>1. entries' = entries \cup {f}
    BY DEF RegisterTask
  <1>2. f \in Entry
    BY <1>1, RegisterTyped
  <1>3. f.id = lastId + 1 /\ f.task = t
        /\ f.next = IF server = "up" THEN NextAfter(t, now) ELSE Never
    OBVIOUS
  <1>4. lastId' = lastId + 1 /\ taskEntries' = [taskEntries EXCEPT ![t] = f.id]
    BY DEF RegisterTask
  <1> HIDE DEF f
  <1> QED
    BY <1>1, <1>2, <1>3, <1>4

\* An entry that fired keeps its identifier and its task.
LEMMA FireReplaces ==
  ASSUME TypeOK, NEW e \in entries, NEW x \in Slot, Fire(e, x)
  PROVE  \E f : /\ entries' = (entries \ {e}) \cup {f} /\ f \in Entry
                /\ f.id = e.id /\ f.task = e.task /\ f.next = NextAfter(e.task, now)
  <1> DEFINE f == [e EXCEPT !.next = NextAfter(e.task, now)]
  <1>1. entries' = (entries \ {e}) \cup {f}
    BY DEF Fire
  <1>2. e \in Entry /\ NextAfter(e.task, now) \in Nat
    BY NextComes DEF TypeOK, Entry
  <1>3. f \in Entry /\ f.id = e.id /\ f.task = e.task /\ f.next = NextAfter(e.task, now)
    BY <1>2 DEF Entry
  <1> HIDE DEF f
  <1> QED
    BY <1>1, <1>3

\* How the actions of an execution change it, and the others not.
LEMMA GoesKeeps ==
  ASSUME TypeOK, NEW x \in Slot, exec[x].at # "free", NEW l \in {"send", "mark", "sync"}, Goes(x, l)
  PROVE  /\ exec'[x].at = l /\ exec'[x].task = exec[x].task /\ exec'[x].fired = exec[x].fired
         /\ exec'[x].acked = exec[x].acked
         /\ \A y \in Slot : y # x => exec'[y] = exec[y]
  <1>1. exec[x] \in Running
    BY Shapes
  <1>2. exec'[x] = [exec[x] EXCEPT !.at = l]
    BY DEF Goes, TypeOK
  <1>3. exec'[x].at = l /\ exec'[x].task = exec[x].task /\ exec'[x].fired = exec[x].fired
        /\ exec'[x].acked = exec[x].acked
    BY <1>1, <1>2 DEF Running
  <1>4. \A y \in Slot : y # x => exec'[y] = exec[y]
    BY DEF Goes, TypeOK
  <1> QED
    BY <1>3, <1>4

LEMMA EndsFrees ==
  ASSUME TypeOK, NEW x \in Slot, Ends(x)
  PROVE  exec'[x].at = "free" /\ \A y \in Slot : y # x => exec'[y] = exec[y]
  BY DEF Ends, TypeOK, NoTask

LEMMA FireBegins ==
  ASSUME TypeOK, NEW e \in entries, NEW x \in Slot, Fire(e, x)
  PROVE  /\ exec'[x].at = "fired" /\ exec'[x].task = e.task /\ exec'[x].fired = e.next
         /\ exec'[x].acked => e.task \in acked
         /\ \A y \in Slot : y # x => exec'[y] = exec[y]
  <1> DEFINE r == [at |-> "fired", task |-> e.task, fired |-> e.next, acked |-> e.task \in acked]
  <1>1. exec' = [exec EXCEPT ![x] = r]
    BY Zenon DEF Fire
  <1>2. r.at = "fired" /\ r.task = e.task /\ r.fired = e.next
    BY Zenon
  <1>3. r.acked => e.task \in acked
    BY Zenon
  <1> HIDE DEF r
  <1>4. exec'[x] = r /\ \A y \in Slot : y # x => exec'[y] = exec[y]
    BY <1>1 DEF TypeOK
  <1> QED
    BY <1>2, <1>3, <1>4, Zenon

LEMMA LivesInit == Init => Lives
  BY DEF Init, Lives, NoTask, IsOneTimeTask

LEMMA LivesStep == TypeOK /\ Lives /\ [Next]_vars => Lives'
  <1> SUFFICES ASSUME TypeOK, Lives, [Next]_vars PROVE Lives'
    OBVIOUS
  <1> USE DEF Uninserted, Exists, IsOneTimeTask
  <1>1. CASE Tick
    BY <1>1 DEF Tick, Lives
  <1>2. ASSUME NEW e \in entries, NEW x \in Slot, Fire(e, x) PROVE Lives'
    <2>1. PICK f : /\ entries' = (entries \ {e}) \cup {f}
                   /\ f.id = e.id /\ f.task = e.task
      BY <1>2, FireReplaces
    <2>2. UNCHANGED <<server, row, kind, lastId, taskEntries, create, loaded>> /\ server = "up"
      BY <1>2, Zenon DEF Fire
    <2> QED
      BY <2>1, <2>2 DEF Lives
  <1>3. ASSUME NEW x \in Slot, Execution(x) PROVE Lives'
    <2>1. CASE ReadTask(x)
      BY <2>1 DEF ReadTask, Goes, Ends, NoTask, Lives
    <2>2. CASE SendMessage(x)
      BY <2>2 DEF SendMessage, Goes, Lives
    <2>3. CASE SendFails(x) \/ MarkFails(x) \/ PushTaskSync(x)
      BY <2>3 DEF SendFails, MarkFails, PushTaskSync, Goes, Ends, NoTask, Lives
    <2>4. CASE MarkCompleted(x)
      BY <2>4 DEF MarkCompleted, Goes, Lives, TypeOK
    <2> QED
      BY <1>3, <2>1, <2>2, <2>3, <2>4 DEF Execution
  <1>4. ASSUME NEW t \in Task, NEW via \in {"request", "tool", "unwired"}, NEW k \in Kinds,
               NEW d \in Delays, AcceptTask(t, via, k, d)
        PROVE  Lives'
    BY <1>4 DEF AcceptTask, ParseSchedule, Arrives, Lives, TypeOK
  <1>5. ASSUME NEW t \in Task, Creation(t) PROVE Lives'
    <2>1. CASE InsertTask(t)
      BY <2>1 DEF InsertTask, Arrives, Lives, TypeOK
    <2>2. CASE InsertFails(t) \/ LookUpTask(t) \/ AddFails(t)
      BY <2>2 DEF InsertFails, LookUpTask, AddFails, Arrives, Lives, TypeOK
    <2>3. CASE AddToScheduler(t)
      <3>1. PICK f : /\ entries' = entries \cup {f} /\ f.id = lastId + 1 /\ f.task = t
                     /\ lastId' = lastId + 1
                     /\ taskEntries' = [taskEntries EXCEPT ![t] = f.id]
        BY <2>3, RegisterAdds DEF AddToScheduler
      <3>2. /\ UNCHANGED <<server, row, kind, loaded, exec>>
            /\ \A u \in Task : u # t => create'[u] = create[u]
            /\ create'[t] = "done"
        BY <2>3 DEF AddToScheduler, Arrives, TypeOK
      <3>3. \A u \in Task : /\ create'[u] \in Uninserted => row'[u] = "none"
                           /\ create'[u] = "no" => IsOneTimeTask(u)'
        BY <3>2 DEF Lives
      <3>4. /\ \A e \in entries' : e.id > 0 /\ e.id <= lastId'
            /\ \A u \in Task : taskEntries'[u] <= lastId'
            /\ \A e \in entries', u \in Task : e.id = taskEntries'[u] => e.task = u
        BY <3>1 DEF Lives, TypeOK, Entry
      <3> QED
        BY <3>2, <3>3, <3>4 DEF Lives
    <2>4. CASE RollBack(t)
      BY <2>4 DEF RollBack, Arrives, Lives, TypeOK
    <2> QED
      BY <1>5, <2>1, <2>2, <2>3, <2>4 DEF Creation
  <1>6. ASSUME NEW c \in Canceller, NEW t \in Task, RemoveTask(c, t) PROVE Lives'
    BY <1>6 DEF RemoveTask, Lives, TypeOK, Entry
  <1>7. ASSUME NEW c \in Canceller, NEW t \in Task, CancelByTool(c, t) PROVE Lives'
    BY <1>7 DEF CancelByTool, Lives, TypeOK
  <1>8. ASSUME NEW c \in Canceller, UpdateStatus(c) \/ UpdateFails(c) PROVE Lives'
    BY <1>8 DEF UpdateStatus, UpdateFails, Lives, TypeOK
  <1>9. CASE DeleteConversation
    BY <1>9 DEF DeleteConversation, Lives
  <1>10. CASE LoadTasks \/ LoadFails \/ Restart
    BY <1>10 DEF LoadTasks, LoadFails, Restart, Lives
  <1>11. ASSUME NEW t \in Task, RegisterLoaded(t) PROVE Lives'
    <2>1. CASE RegisterTask(t)
      <3>1. PICK f : /\ entries' = entries \cup {f} /\ f.id = lastId + 1 /\ f.task = t
                     /\ lastId' = lastId + 1
                     /\ taskEntries' = [taskEntries EXCEPT ![t] = f.id]
        BY <2>1, RegisterAdds
      <3>2. UNCHANGED <<server, row, kind, create, exec>> /\ loaded' \subseteq loaded
        BY <1>11 DEF RegisterLoaded
      <3> QED
        BY <3>1, <3>2 DEF Lives, TypeOK, Entry
    <2>2. CASE FailsToRegister(t)
      BY <1>11, <2>2 DEF RegisterLoaded, FailsToRegister, Lives
    <2> QED
      BY <1>11, <2>1, <2>2 DEF RegisterLoaded
  <1>12. CASE StartScheduler
    <2>1. \A f \in entries' : \E e \in entries : f.id = e.id /\ f.task = e.task
      <3>1. \A e \in entries : [e EXCEPT !.next = NextAfter(e.task, now)].id = e.id
                               /\ [e EXCEPT !.next = NextAfter(e.task, now)].task = e.task
        BY DEF TypeOK, Entry
      <3> QED
        BY <1>12, <3>1 DEF StartScheduler
    <2> QED
      BY <1>12, <2>1 DEF StartScheduler, Lives
  <1>13. CASE Crash
    BY <1>13 DEF Crash, NoTask, Lives, TypeOK
  <1>14. CASE UNCHANGED vars
    BY <1>14 DEF vars, Lives
  <1> QED
    BY <1>1, <1>2, <1>3, <1>4, <1>5, <1>6, <1>7, <1>8, <1>9, <1>10, <1>11, <1>12, <1>13, <1>14
    DEF Next, Fires, Cancellation, Start

\* The row a cancellation found had been inserted.
LEMMA ExistsInserted ==
  ASSUME Lives, NEW t \in Task, Exists(t)
  PROVE  create[t] \notin Uninserted
  BY DEF Lives, Exists

LEMMA CancelsInit == Init => Cancels
  BY DEF Init, Cancels, NoTask

LEMMA CancelsStep == TypeOK /\ Lives /\ Cancels /\ [Next]_vars => Cancels'
  <1> SUFFICES ASSUME TypeOK, Lives, Cancels, [Next]_vars PROVE Cancels'
    OBVIOUS
  <1> USE DEF Uninserted, Exists
  <1>1. CASE Tick
    BY <1>1 DEF Tick, Cancels
  <1>2. ASSUME NEW e \in entries, NEW x \in Slot, Fire(e, x) PROVE Cancels'
    <2>1. UNCHANGED <<row, create, cancel, acked>>
      BY <1>2, Zenon DEF Fire
    <2> QED
      BY <1>2, <2>1, FireBegins DEF Cancels
  <1>3. ASSUME NEW x \in Slot, Execution(x) PROVE Cancels'
    <2>1. CASE ReadTask(x)
      <3>1. UNCHANGED <<row, create, cancel, acked>> /\ exec[x].at = "fired"
            /\ (Ends(x) \/ (Goes(x, "send") /\ row[exec[x].task] = "active"))
        BY <2>1 DEF ReadTask
      <3> QED
        BY <3>1, GoesKeeps, EndsFrees DEF Cancels
    <2>2. CASE SendMessage(x)
      <3>1. exec[x].at = "send" /\ UNCHANGED <<row, create, cancel, acked>>
            /\ \E l \in {"mark", "sync"} : Goes(x, l)
        BY <2>2 DEF SendMessage
      <3> QED
        BY <3>1, GoesKeeps DEF Cancels
    <2>3. CASE SendFails(x) \/ MarkFails(x) \/ PushTaskSync(x)
      <3>1. UNCHANGED <<row, create, cancel, acked>>
            /\ (Ends(x) \/ (exec[x].at = "mark" /\ Goes(x, "sync")))
        BY <2>3 DEF SendFails, MarkFails, PushTaskSync
      <3> QED
        BY <3>1, GoesKeeps, EndsFrees DEF Cancels
    <2>4. CASE MarkCompleted(x)
      <3>1. UNCHANGED <<create, cancel, acked>> /\ exec[x].at = "mark" /\ Goes(x, "sync")
            /\ \A t \in Task : row[t] # "active" => row'[t] # "active"
        BY <2>4 DEF MarkCompleted, TypeOK
      <3> QED
        BY <3>1, GoesKeeps DEF Cancels, TypeOK
    <2> QED
      BY <1>3, <2>1, <2>2, <2>3, <2>4 DEF Execution
  <1>4. ASSUME NEW t \in Task, NEW via \in {"request", "tool", "unwired"}, NEW k \in Kinds,
               NEW d \in Delays, AcceptTask(t, via, k, d)
        PROVE  Cancels'
    BY <1>4, Shapes DEF AcceptTask, Arrives, Cancels, TypeOK
  <1>5. ASSUME NEW t \in Task, Creation(t) PROVE Cancels'
    <2>1. CASE InsertTask(t)
      BY <2>1, Shapes DEF InsertTask, Arrives, Cancels, TypeOK
    <2>2. CASE InsertFails(t) \/ LookUpTask(t) \/ AddFails(t)
      BY <2>2, Shapes DEF InsertFails, LookUpTask, AddFails, Arrives, Cancels, TypeOK
    <2>3. CASE AddToScheduler(t)
      BY <2>3, Shapes DEF AddToScheduler, Arrives, Cancels, TypeOK
    <2>4. CASE RollBack(t)
      BY <2>4, Shapes DEF RollBack, Arrives, Cancels, TypeOK
    <2> QED
      BY <1>5, <2>1, <2>2, <2>3, <2>4 DEF Creation
  <1>6. ASSUME NEW c \in Canceller, NEW t \in Task, RemoveTask(c, t) PROVE Cancels'
    BY <1>6, ExistsInserted DEF RemoveTask, Cancels, TypeOK
  <1>7. ASSUME NEW c \in Canceller, NEW t \in Task, CancelByTool(c, t) PROVE Cancels'
    BY <1>7, ExistsInserted DEF CancelByTool, Answered, Cancels, TypeOK
  <1>8. ASSUME NEW c \in Canceller, UpdateStatus(c) \/ UpdateFails(c) PROVE Cancels'
    BY <1>8, Shapes DEF UpdateStatus, UpdateFails, Answered, Cancels, TypeOK
  <1>9. CASE DeleteConversation
    BY <1>9, Zenon DEF DeleteConversation, Cancels, TypeOK
  <1>10. CASE LoadTasks \/ LoadFails \/ Restart
    BY <1>10 DEF LoadTasks, LoadFails, Restart, Cancels
  <1>11. ASSUME NEW t \in Task, RegisterLoaded(t) PROVE Cancels'
    BY <1>11 DEF RegisterLoaded, Cancels
  <1>12. CASE StartScheduler
    BY <1>12 DEF StartScheduler, Cancels
  <1>13. CASE Crash
    BY <1>13 DEF Crash, NoTask, Answered, Cancels, TypeOK
  <1>14. CASE UNCHANGED vars
    BY <1>14 DEF vars, Cancels
  <1> QED
    BY <1>1, <1>2, <1>3, <1>4, <1>5, <1>6, <1>7, <1>8, <1>9, <1>10, <1>11, <1>12, <1>13, <1>14
    DEF Next, Fires, Cancellation, Start

-----------------------------------------------------------------------------
(* Known: no step loses an active task.                                    *)

Pending(t) == \E c \in Canceller : cancel[c].at = "update" /\ cancel[c].task = t

\* It is enough that a step loses neither entry, nor row to register, nor call.
LEMMA KnownKept ==
  ASSUME NEW t \in Task, KnownOrLost(t),
         row'[t] = "active" /\ create'[t] = "done" => row[t] = "active" /\ create[t] = "done",
         EntriesOf(t) # {} => EntriesOf(t)' # {},
         t \in loaded => t \in loaded' \/ EntriesOf(t)' # {} \/ ~Parses(t),
         Pending(t) => Pending(t)' \/ t \in unscheduled',
         kind'[t] = kind[t], t \in unscheduled => t \in unscheduled'
  PROVE  KnownOrLost(t)'
  BY DEF KnownOrLost, Pending, Parses

LEMMA KnownInit == Init => Known
  BY DEF Init, Known

LEMMA KnownStep == TypeOK /\ Lives /\ Known /\ [Next]_vars => Known'
  <1> SUFFICES ASSUME TypeOK, Lives, Known, [Next]_vars PROVE Known'
    OBVIOUS
  <1> USE DEF Exists
  <1>0. ASSUME server' \in {"loading", "up"} => server \in {"loading", "up"},
               \A t \in Task : KnownOrLost(t) => KnownOrLost(t)'
        PROVE  Known'
    BY <1>0 DEF Known
  <1>1. CASE Tick
    BY <1>0, <1>1 DEF Tick, KnownOrLost, EntriesOf, Parses
  <1>2. ASSUME NEW e \in entries, NEW x \in Slot, Fire(e, x) PROVE Known'
    <2>1. PICK f : /\ entries' = (entries \ {e}) \cup {f} /\ f.task = e.task
      BY <1>2, FireReplaces
    <2>2. UNCHANGED <<server, row, kind, create, cancel, loaded, unscheduled>>
      BY <1>2, Zenon DEF Fire
    <2>3. \A t \in Task : EntriesOf(t) # {} => EntriesOf(t)' # {}
      BY <2>1 DEF EntriesOf
    <2> QED
      BY <1>0, <2>2, <2>3, KnownKept DEF Pending
  <1>3. ASSUME NEW x \in Slot, Execution(x) PROVE Known'
    <2>1. CASE ReadTask(x) \/ SendMessage(x) \/ SendFails(x) \/ MarkFails(x) \/ PushTaskSync(x)
      <3>1. UNCHANGED <<server, database, memory, create, cancel, loaded, unscheduled>>
        BY <2>1 DEF ReadTask, SendMessage, SendFails, MarkFails, PushTaskSync
      <3> QED
        BY <1>0, <3>1, KnownKept DEF EntriesOf, Pending
    <2>2. CASE MarkCompleted(x)
      <3>1. /\ UNCHANGED <<server, kind, memory, create, cancel, loaded, unscheduled>>
            /\ \A t \in Task : row'[t] = "active" => row[t] = "active"
        BY <2>2 DEF MarkCompleted, TypeOK
      <3> QED
        BY <1>0, <3>1, KnownKept DEF EntriesOf, Pending
    <2> QED
      BY <1>3, <2>1, <2>2 DEF Execution
  <1>4. ASSUME NEW t \in Task, NEW via \in {"request", "tool", "unwired"}, NEW k \in Kinds,
               NEW d \in Delays, AcceptTask(t, via, k, d)
        PROVE  Known'
    <2>1. UNCHANGED <<server, row, memory, cancel, loaded, unscheduled>>
          /\ create'[t] # "done"
          /\ \A u \in Task : u # t => kind'[u] = kind[u] /\ create'[u] = create[u]
      BY <1>4 DEF AcceptTask, ParseSchedule, Arrives, TypeOK
    <2>2. \A u \in Task : u # t => (KnownOrLost(u) => KnownOrLost(u)')
      BY <2>1, KnownKept DEF EntriesOf, Pending
    <2>3. KnownOrLost(t)'
      BY <2>1 DEF KnownOrLost
    <2> QED
      BY <1>0, <2>1, <2>2, <2>3
  <1>5. ASSUME NEW t \in Task, Creation(t) PROVE Known'
    <2>1. CASE InsertTask(t)
      <3>1. /\ UNCHANGED <<server, kind, memory, cancel, loaded>>
            /\ unscheduled \subseteq unscheduled'
            /\ \A u \in Task : u # t => row'[u] = row[u] /\ create'[u] = create[u]
            /\ create'[t] = "done" => t \in unscheduled'
        BY <2>1 DEF InsertTask, Arrives, TypeOK
      <3>2. \A u \in Task : u # t => (KnownOrLost(u) => KnownOrLost(u)')
        BY <3>1, KnownKept DEF EntriesOf, Pending
      <3>3. KnownOrLost(t)'
        BY <3>1 DEF KnownOrLost
      <3> QED
        BY <1>0, <3>1, <3>2, <3>3
    <2>2. CASE InsertFails(t) \/ LookUpTask(t) \/ AddFails(t)
      <3>1. /\ UNCHANGED <<server, row, kind, memory, cancel, loaded, unscheduled>>
            /\ \A u \in Task : u # t => create'[u] = create[u]
            /\ create'[t] = "done" => row[t] # "active"
        BY <2>2 DEF InsertFails, LookUpTask, AddFails, Arrives, TypeOK, Lives, Uninserted
      <3>2. \A u \in Task : KnownOrLost(u) => KnownOrLost(u)'
        BY <3>1, KnownKept DEF EntriesOf, Pending
      <3> QED
        BY <1>0, <3>1, <3>2
    <2>3. CASE AddToScheduler(t)
      <3>1. PICK f : entries' = entries \cup {f} /\ f.task = t
        BY <2>3, RegisterAdds DEF AddToScheduler
      <3>2. /\ UNCHANGED <<server, row, kind, cancel, loaded, unscheduled>>
            /\ \A u \in Task : u # t => create'[u] = create[u]
        BY <2>3 DEF AddToScheduler, Arrives, TypeOK
      <3>3. EntriesOf(t)' # {} /\ \A u \in Task : EntriesOf(u) # {} => EntriesOf(u)' # {}
        BY <3>1 DEF EntriesOf
      <3>4. \A u \in Task : u # t => (KnownOrLost(u) => KnownOrLost(u)')
        BY <3>2, <3>3, KnownKept DEF Pending
      <3>5. KnownOrLost(t)'
        BY <3>3 DEF KnownOrLost
      <3> QED
        BY <1>0, <3>2, <3>4, <3>5
    <2>4. CASE RollBack(t)
      <3>1. /\ UNCHANGED <<server, kind, memory, cancel, loaded>>
            /\ unscheduled \subseteq unscheduled'
            /\ \A u \in Task : u # t => row'[u] = row[u] /\ create'[u] = create[u]
            /\ create'[t] # "done"
        BY <2>4 DEF RollBack, Arrives, TypeOK
      <3>2. \A u \in Task : KnownOrLost(u) => KnownOrLost(u)'
        BY <3>1, KnownKept DEF EntriesOf, Pending
      <3> QED
        BY <1>0, <3>1, <3>2
    <2> QED
      BY <1>5, <2>1, <2>2, <2>3, <2>4 DEF Creation
  <1>6. ASSUME NEW c \in Canceller, NEW t \in Task, RemoveTask(c, t) PROVE Known'
    <2>1. /\ UNCHANGED <<server, row, kind, create, loaded, unscheduled>>
          /\ cancel'[c].at = "update" /\ cancel'[c].task = t /\ cancel[c].at = "free"
          /\ \A b \in Canceller : b # c => cancel'[b] = cancel[b]
          /\ \A e \in entries : e.task # t => e \in entries'
      BY <1>6 DEF RemoveTask, TypeOK, Lives
    <2>2. \A u \in Task : Pending(u) => Pending(u)'
      BY <2>1 DEF Pending
    <2>3. Pending(t)'
      BY <2>1 DEF Pending
    <2>4. \A u \in Task : u # t => (KnownOrLost(u) => KnownOrLost(u)')
      BY <2>1, <2>2, KnownKept DEF EntriesOf
    <2>5. KnownOrLost(t)'
      BY <2>3 DEF KnownOrLost, Pending
    <2> QED
      BY <1>0, <2>1, <2>4, <2>5
  <1>7. ASSUME NEW c \in Canceller, NEW t \in Task, CancelByTool(c, t) PROVE Known'
    <2>1. /\ UNCHANGED <<server, kind, memory, create, loaded, unscheduled>>
          /\ \A u \in Task : row'[u] = "active" => row[u] = "active"
          /\ cancel[c].at # "update"
          /\ \A b \in Canceller : b # c => cancel'[b] = cancel[b]
      BY <1>7 DEF CancelByTool, TypeOK
    <2>2. \A u \in Task : Pending(u) => Pending(u)'
      BY <2>1 DEF Pending
    <2> QED
      BY <1>0, <2>1, <2>2, KnownKept DEF EntriesOf
  <1>8. ASSUME NEW c \in Canceller, UpdateStatus(c) PROVE Known'
    <2>t. PICK t \in Task : t = cancel[c].task
      BY <1>8, Shapes DEF UpdateStatus
    <2>1. /\ UNCHANGED <<server, kind, memory, create, loaded, unscheduled>>
          /\ \A u \in Task : row'[u] = "active" => row[u] = "active" /\ u # t
          /\ \A b \in Canceller : b # c => cancel'[b] = cancel[b]
      BY <1>8, <2>t DEF UpdateStatus, TypeOK
    <2>2. \A u \in Task : u # t => (Pending(u) => Pending(u)')
      BY <2>1, <2>t DEF Pending
    <2>3. \A u \in Task : u # t => (KnownOrLost(u) => KnownOrLost(u)')
      BY <2>1, <2>2, KnownKept DEF EntriesOf
    <2>4. KnownOrLost(t)'
      BY <2>1 DEF KnownOrLost
    <2> QED
      BY <1>0, <2>1, <2>3, <2>4
  <1>9. ASSUME NEW c \in Canceller, UpdateFails(c) PROVE Known'
    <2>1. /\ UNCHANGED <<server, database, memory, create, loaded>>
          /\ unscheduled' = unscheduled \cup {cancel[c].task}
          /\ \A b \in Canceller : b # c => cancel'[b] = cancel[b]
      BY <1>9 DEF UpdateFails, TypeOK
    <2>2. \A u \in Task : Pending(u) => Pending(u)' \/ u \in unscheduled'
      BY <2>1 DEF Pending
    <2> QED
      BY <1>0, <2>1, <2>2, KnownKept DEF EntriesOf
  <1>10. CASE DeleteConversation
    <2>1. /\ UNCHANGED <<server, kind, memory, create, cancel, loaded, unscheduled>>
          /\ \A t \in Task : row'[t] = "active" => row[t] = "active"
      BY <1>10 DEF DeleteConversation
    <2> QED
      BY <1>0, <2>1, KnownKept DEF EntriesOf, Pending
  <1>11. CASE LoadTasks
    BY <1>11 DEF LoadTasks, Known, KnownOrLost
  <1>12. CASE LoadFails \/ Restart \/ Crash
    BY <1>12 DEF LoadFails, Restart, Crash, Known
  <1>13. ASSUME NEW t \in Task, RegisterLoaded(t) PROVE Known'
    <2>1. UNCHANGED <<server, database, create, cancel, unscheduled>> /\ loaded' = loaded \ {t}
      BY <1>13 DEF RegisterLoaded
    <2>2. CASE RegisterTask(t)
      <3>1. PICK f : entries' = entries \cup {f} /\ f.task = t
        BY <2>2, RegisterAdds
      <3>2. EntriesOf(t)' # {} /\ \A u \in Task : EntriesOf(u) # {} => EntriesOf(u)' # {}
        BY <3>1 DEF EntriesOf
      <3> QED
        BY <1>0, <2>1, <3>2, KnownKept DEF Pending
    <2>3. CASE FailsToRegister(t)
      <3>1. UNCHANGED entries /\ ~Parses(t)
        BY <2>3 DEF FailsToRegister
      <3> QED
        BY <1>0, <2>1, <3>1, KnownKept DEF Pending, EntriesOf
    <2> QED
      BY <1>13, <2>2, <2>3 DEF RegisterLoaded
  <1>14. CASE StartScheduler
    <2>1. \A e \in entries : \E f \in entries' : f.task = e.task
      <3>1. \A e \in entries : [e EXCEPT !.next = NextAfter(e.task, now)].task = e.task
        BY DEF TypeOK, Entry
      <3> QED
        BY <1>14, <3>1 DEF StartScheduler
    <2>2. \A t \in Task : EntriesOf(t) # {} => EntriesOf(t)' # {}
      BY <2>1 DEF EntriesOf
    <2>3. UNCHANGED <<row, kind, create, cancel, loaded, unscheduled>> /\ server = "loading"
      BY <1>14 DEF StartScheduler
    <2> QED
      BY <1>0, <2>2, <2>3, KnownKept DEF Pending
  <1>15. CASE UNCHANGED vars
    BY <1>0, <1>15 DEF vars, KnownOrLost, EntriesOf, Parses
  <1> QED
    BY <1>1, <1>2, <1>3, <1>4, <1>5, <1>6, <1>7, <1>8, <1>9, <1>10, <1>11, <1>12, <1>13, <1>14,
       <1>15
    DEF Next, Fires, Cancellation, Start

-----------------------------------------------------------------------------
(* Once: one entry, one execution, one message.                            *)

LEMMA GoesExecutions ==
  ASSUME TypeOK, NEW x \in Slot, exec[x].at # "free", NEW l \in {"send", "mark", "sync"}, Goes(x, l)
  PROVE  \A t \in Task : ExecutionsOf(t)' = ExecutionsOf(t)
  BY GoesKeeps DEF ExecutionsOf

LEMMA EndsExecutions ==
  ASSUME TypeOK, NEW x \in Slot, Ends(x)
  PROVE  \A t \in Task : ExecutionsOf(t)' = ExecutionsOf(t) \ {x}
  BY EndsFrees DEF ExecutionsOf

\* A step that adds neither entry nor execution of t, and ends none that is to
\* mark the row, keeps its promises.
LEMMA OnceKept ==
  ASSUME NEW t \in Task, OnceOf(t),
         server' = server, now' = now,
         EntriesOf(t)' \subseteq EntriesOf(t), t \in loaded' => t \in loaded,
         ExecutionsOf(t)' \subseteq ExecutionsOf(t),
         \A x \in ExecutionsOf(t)' : exec'[x] = exec[x],
         \A x \in ExecutionsOf(t) : exec[x].at = "mark" => x \in ExecutionsOf(t)',
         create'[t] = create[t], row'[t] = "active" => row[t] = "active",
         kind'[t] = kind[t], due'[t] = due[t], sent'[t] = sent[t],
         t \in early => t \in early', t \in unmarked => t \in unmarked'
  PROVE  OnceOf(t)'
  <1>1. Single(t)'
    BY DEF OnceOf, Single
  <1>2. Timed(t)'
    BY DEF OnceOf, Timed, IsOneTimeTask
  <1>3. Sends(t)'
    BY DEF OnceOf, Sends, IsOneTimeTask
  <1> QED
    BY <1>1, <1>2, <1>3 DEF OnceOf

\* An execution that goes on stays the only one.
LEMMA OnceGoes ==
  ASSUME TypeOK, NEW x \in Slot, exec[x].at # "free", NEW l \in {"send", "mark", "sync"}, Goes(x, l),
         UNCHANGED <<server, now, entries, loaded, create, kind, due, early>>
  PROVE  /\ \A t \in Task : OnceOf(t) => Single(t)' /\ Timed(t)'
         /\ \A t \in Task :
              (/\ OnceOf(t) /\ t # exec[x].task
               /\ sent'[t] = sent[t] /\ (row'[t] = "active" => row[t] = "active")
               /\ t \in unmarked => t \in unmarked')
              => OnceOf(t)'
  <1>1. ASSUME NEW t \in Task, OnceOf(t) PROVE Single(t)' /\ Timed(t)'
    <2>1. Single(t)'
      BY <1>1, GoesExecutions DEF OnceOf, Single, EntriesOf
    <2>2. \A y \in ExecutionsOf(t) : exec'[y].fired = exec[y].fired
      BY GoesKeeps DEF ExecutionsOf
    <2>3. Timed(t)'
      BY <1>1, <2>2, GoesExecutions DEF OnceOf, Timed, EntriesOf, IsOneTimeTask
    <2> QED
      BY <2>1, <2>3
  <1>2. ASSUME NEW t \in Task, OnceOf(t), t # exec[x].task,
               sent'[t] = sent[t], row'[t] = "active" => row[t] = "active",
               t \in unmarked => t \in unmarked'
        PROVE  OnceOf(t)'
    <2>1. x \notin ExecutionsOf(t)
      BY <1>2 DEF ExecutionsOf
    <2>2. \A y \in ExecutionsOf(t)' : exec'[y] = exec[y]
      BY <2>1, GoesExecutions, GoesKeeps DEF ExecutionsOf
    <2> QED
      BY <1>2, <2>2, GoesExecutions, OnceKept DEF EntriesOf
  <1> QED
    BY <1>1, <1>2

\* A task has its first entry.
LEMMA OnceRegistered ==
  ASSUME TypeOK, NEW t \in Task, OnceOf(t), RegisterTask(t),
         t \notin early => /\ EntriesOf(t) = {} /\ ExecutionsOf(t) = {}
                           /\ server \notin {"down", "wiring"},
         server' = server, t \notin loaded', create'[t] = "done",
         create[t] \notin Uninserted \/ sent[t] = 0,
         UNCHANGED <<now, row, kind, due, exec, sent, early, unmarked>>
  PROVE  OnceOf(t)'
  <1>1. PICK f : /\ entries' = entries \cup {f} /\ f.task = t
                 /\ f.next = IF server = "up" THEN NextAfter(t, now) ELSE Never
    BY RegisterAdds
  <1>2. t \notin early => EntriesOf(t)' = {f} /\ ExecutionsOf(t)' = {}
    BY <1>1 DEF EntriesOf, ExecutionsOf
  <1>3. Single(t)'
    BY <1>2 DEF OnceOf, Single, Unregistered, Uninserted
  <1>4. Timed(t)'
    <2>1. server = "up" /\ IsOneTimeTask(t) => f.next % Year = due[t] % Year
      BY <1>1, NextComes DEF TypeOK
    <2> QED
      BY <1>2, <2>1 DEF OnceOf, Timed, IsOneTimeTask
  <1>5. Sends(t)'
    BY DEF OnceOf, Sends, IsOneTimeTask, ExecutionsOf, Uninserted, TypeOK
  <1> QED
    BY <1>3, <1>4, <1>5 DEF OnceOf

LEMMA OnceInit == Init => Once
  <1> SUFFICES ASSUME Init, NEW t \in Task PROVE OnceOf(t)
    BY DEF Once
  <1>1. EntriesOf(t) = {} /\ ExecutionsOf(t) = {} /\ create[t] = "no" /\ sent[t] = 0 /\ loaded = {}
    BY DEF Init, EntriesOf, ExecutionsOf, NoTask
  <1>2. Single(t)
    BY <1>1 DEF Single
  <1>3. Timed(t)
    BY <1>1 DEF Timed
  <1>4. Sends(t)
    BY <1>1 DEF Sends
  <1> QED
    BY <1>2, <1>3, <1>4 DEF OnceOf

\* What an execution does.
LEMMA OnceExecution ==
  ASSUME TypeOK, NEW u \in Task, OnceOf(u), NEW x \in Slot, Execution(x)
  PROVE  OnceOf(u)'
  <1> USE DEF Exists
  <1>1. CASE Ends(x) /\ exec[x].at # "mark"
    <2>1. UNCHANGED <<now, server, database, memory, create, loaded, sent, early, unmarked>>
      BY <1>1, Execution(x), EndsFrees, GoesKeeps
      DEF Execution, ReadTask, SendMessage, SendFails, MarkCompleted, MarkFails, PushTaskSync
    <2>2. /\ ExecutionsOf(u)' \subseteq ExecutionsOf(u)
          /\ \A y \in ExecutionsOf(u)' : exec'[y] = exec[y]
          /\ \A y \in ExecutionsOf(u) : exec[y].at = "mark" => y \in ExecutionsOf(u)'
      BY <1>1, EndsFrees, EndsExecutions DEF ExecutionsOf
    <2> QED
      BY <2>1, <2>2, OnceKept DEF EntriesOf
  <1>2. ASSUME ReadTask(x), ~Ends(x) PROVE OnceOf(u)'
    <2>1. /\ exec[x].at = "fired" /\ Goes(x, "send") /\ row[exec[x].task] = "active"
          /\ UNCHANGED <<now, server, database, memory, create, loaded, sent, early, unmarked>>
      BY <1>2 DEF ReadTask
    <2>2. ASSUME u = exec[x].task PROVE Sends(u)'
      <3>1. SUFFICES ASSUME u \notin early \cup unmarked, IsOneTimeTask(u) PROVE Sends(u)'
        BY <2>1 DEF Sends, IsOneTimeTask
      <3>2. \A y \in ExecutionsOf(u) : y = x
        BY <2>1, <2>2, <3>1 DEF ExecutionsOf, OnceOf, Timed
      <3>3. sent[u] = 0
        BY <2>1, <2>2, <3>1, <3>2 DEF ExecutionsOf, OnceOf, Sends, TypeOK
      <3> QED
        BY <2>1, <3>3 DEF Sends
    <2> QED
      BY <2>1, <2>2, OnceGoes DEF OnceOf
  <1>3. ASSUME SendMessage(x) PROVE OnceOf(u)'
    <2>1. PICK l \in {"mark", "sync"} :
            /\ Goes(x, l) /\ (IsOneTimeTask(exec[x].task) => l = "mark")
            /\ exec[x].at = "send" /\ sent' = [sent EXCEPT ![exec[x].task] = @ + 1]
            /\ UNCHANGED <<now, server, database, memory, create, loaded, early, unmarked>>
      BY <1>3 DEF SendMessage
    <2>2. ASSUME u = exec[x].task PROVE Sends(u)'
      <3>1. SUFFICES ASSUME u \notin early \cup unmarked, IsOneTimeTask(u) PROVE Sends(u)'
        BY <2>1 DEF Sends, IsOneTimeTask
      <3>2. \A y \in ExecutionsOf(u) : y = x
        BY <2>1, <2>2, <3>1 DEF ExecutionsOf, OnceOf, Timed
      <3>3. x \in ExecutionsOf(u) /\ sent[u] = 0 /\ sent'[u] = 1
        BY <2>1, <2>2, <3>1 DEF ExecutionsOf, OnceOf, Sends, TypeOK
      <3>4. exec'[x].at = "mark" /\ ExecutionsOf(u)' = ExecutionsOf(u)
        BY <2>1, <2>2, <3>1, GoesKeeps, GoesExecutions
      <3> QED
        BY <3>2, <3>3, <3>4 DEF Sends
    <2>3. u # exec[x].task => sent'[u] = sent[u]
      BY <2>1 DEF TypeOK
    <2> QED
      BY <2>1, <2>2, <2>3, OnceGoes DEF OnceOf
  <1>4. ASSUME MarkCompleted(x) PROVE OnceOf(u)'
    <2>1. /\ exec[x].at = "mark" /\ Goes(x, "sync") /\ row'[exec[x].task] # "active"
          /\ \A t \in Task : row'[t] = "active" => row[t] = "active"
          /\ UNCHANGED <<now, server, kind, due, memory, create, loaded, sent, early, unmarked>>
      BY <1>4, Shapes DEF MarkCompleted, TypeOK, Running
    <2>2. ASSUME u = exec[x].task PROVE Sends(u)'
      <3>1. SUFFICES ASSUME u \notin early \cup unmarked, IsOneTimeTask(u) PROVE Sends(u)'
        BY <2>1 DEF Sends, IsOneTimeTask
      <3>2. x \in ExecutionsOf(u) /\ \A y \in ExecutionsOf(u) : y = x
        BY <2>1, <2>2, <3>1 DEF ExecutionsOf, OnceOf, Timed
      <3>3. create[u] \notin Uninserted
        BY <3>1, <3>2 DEF OnceOf, Single, Unregistered
      <3>4. exec'[x].at = "sync" /\ ExecutionsOf(u)' = ExecutionsOf(u)
        BY <2>1, GoesKeeps, GoesExecutions
      <3> QED
        BY <2>1, <2>2, <3>1, <3>2, <3>3, <3>4 DEF Sends, OnceOf
    <2> QED
      BY <2>1, <2>2, OnceGoes DEF OnceOf
  <1>5. ASSUME MarkFails(x) PROVE OnceOf(u)'
    <2>1. /\ exec[x].at = "mark" /\ Goes(x, "sync") /\ unmarked' = unmarked \cup {exec[x].task}
          /\ UNCHANGED <<now, server, database, memory, create, loaded, sent, early>>
      BY <1>5 DEF MarkFails
    <2>2. u = exec[x].task => Sends(u)'
      BY <2>1 DEF Sends
    <2> QED
      BY <2>1, <2>2, OnceGoes DEF OnceOf
  <1>6. CASE SendFails(x) \/ PushTaskSync(x)
    BY <1>1, <1>6 DEF SendFails, PushTaskSync
  <1> QED
    BY <1>1, <1>2, <1>3, <1>4, <1>5, <1>6 DEF Execution, ReadTask

LEMMA OnceStep == TypeOK /\ Lives /\ Once /\ [Next]_vars => Once'
  <1> SUFFICES ASSUME TypeOK, Lives, Once, [Next]_vars, NEW u \in Task PROVE OnceOf(u)'
    BY DEF Once
  <1>0. OnceOf(u)
    BY DEF Once
  <1> USE DEF Exists
  <1>1. CASE Tick
    <2>1. /\ now' = now + 1 /\ now \in Nat
          /\ \A x \in ExecutionsOf(u) : IsOneTimeTask(u) => now + 1 < exec[x].fired + Year
          /\ UNCHANGED <<server, database, memory, create, loaded, exec, sent, early, unmarked>>
      BY <1>1 DEF Tick, ExecutionsOf, TypeOK
    <2>2. Single(u)' /\ Sends(u)'
      BY <1>0, <2>1 DEF OnceOf, Single, Sends, EntriesOf, ExecutionsOf, IsOneTimeTask
    <2>3. Timed(u)'
      <3>1. ASSUME u \notin early, IsOneTimeTask(u), NEW x \in ExecutionsOf(u), NEW e \in EntriesOf(u)
            PROVE  e.next > now + 1
        <4>1. e.next >= exec[x].fired + Year /\ e.next \in Nat /\ exec[x].fired \in Nat
          BY <1>0, <3>1, Shapes DEF OnceOf, Timed, ExecutionsOf, EntriesOf, Running, TypeOK, Entry
        <4>2. now + 1 < exec[x].fired + Year
          BY <2>1, <3>1
        <4> QED
          BY <2>1, <4>1, <4>2, YearIsPositive
      <3> QED
        BY <1>0, <2>1, <3>1 DEF OnceOf, Timed, EntriesOf, ExecutionsOf, IsOneTimeTask
    <2> QED
      BY <2>2, <2>3 DEF OnceOf
  <1>2. ASSUME NEW e \in entries, NEW x \in Slot, Fire(e, x) PROVE OnceOf(u)'
    <2>1. PICK f : /\ entries' = (entries \ {e}) \cup {f} /\ f \in Entry
                   /\ f.task = e.task /\ f.next = NextAfter(e.task, now)
      BY <1>2, FireReplaces
    <2>2. /\ UNCHANGED <<now, server, row, kind, due, create, loaded, sent, early, unmarked>>
          /\ server = "up" /\ e.next <= now /\ exec[x].at = "free"
      BY <1>2, Zenon DEF Fire
    <2>3. CASE u # e.task
      <3>1. EntriesOf(u)' = EntriesOf(u)
        BY <2>1, <2>3 DEF EntriesOf
      <3>2. /\ ExecutionsOf(u)' = ExecutionsOf(u)
            /\ \A y \in ExecutionsOf(u) : exec'[y] = exec[y]
        BY <1>2, <2>2, <2>3, FireBegins DEF ExecutionsOf
      <3> QED
        BY <1>0, <2>2, <3>1, <3>2, OnceKept
    <2>4. CASE u = e.task
      <3>1. /\ e \in EntriesOf(u) /\ f \in EntriesOf(u)' /\ EntriesOf(u)' \subseteq EntriesOf(u) \cup {f}
            /\ e.next \in Nat /\ now \in Nat
        BY <2>1, <2>4 DEF EntriesOf, TypeOK, Entry
      <3>2. /\ x \in ExecutionsOf(u)' /\ ExecutionsOf(u)' = ExecutionsOf(u) \cup {x}
            /\ exec'[x].at = "fired" /\ exec'[x].fired = e.next
        BY <1>2, <2>2, <2>4, FireBegins DEF ExecutionsOf
      <3>3. u \notin early => EntriesOf(u)' = {f}
        <4>1. u \notin early => EntriesOf(u) = {e}
          BY <1>0, <3>1 DEF OnceOf, Single
        <4> QED
          BY <2>1, <2>4, <3>1, <4>1 DEF EntriesOf
      <3>4. Single(u)'
        BY <1>0, <2>2, <3>1, <3>3 DEF OnceOf, Single, Lives
      <3>5. u \notin early /\ IsOneTimeTask(u) => ExecutionsOf(u)' = {x}
        <4>1. u \notin early /\ IsOneTimeTask(u) => \A y \in ExecutionsOf(u) : e.next > now
          BY <1>0, <3>1 DEF OnceOf, Timed
        <4> QED
          BY <2>2, <3>1, <3>2, <4>1
      <3>6. Timed(u)'
        <4>1. SUFFICES ASSUME u \notin early, IsOneTimeTask(u) PROVE Timed(u)'
          BY <2>2 DEF Timed, IsOneTimeTask
        <4>2. e.next % Year = due[u] % Year
          BY <1>0, <2>2, <3>1, <4>1 DEF OnceOf, Timed
        <4>3. f.next \in Nat /\ f.next > now /\ f.next % Year = due[u] % Year
          BY <2>1, <2>4, <4>1, NextComes DEF TypeOK
        <4>4. f.next >= e.next + Year
          <5>1. f.next > e.next /\ f.next % Year = e.next % Year /\ Year \in Nat \ {0}
            BY <2>2, <3>1, <4>2, <4>3, YearIsPositive
          <5> QED
            BY <3>1, <4>3, <5>1, AYearApart
        <4>5. EntriesOf(u)' = {f} /\ ExecutionsOf(u)' = {x}
          BY <3>3, <3>5, <4>1
        <4> QED
          BY <2>2, <3>2, <4>2, <4>3, <4>4, <4>5 DEF Timed
      <3>7. Sends(u)'
        <4>1. SUFFICES ASSUME u \notin early \cup unmarked, IsOneTimeTask(u) PROVE Sends(u)'
          BY <2>2 DEF Sends, IsOneTimeTask
        <4>2. ExecutionsOf(u) = {}
          BY <2>2, <3>2, <3>5, <4>1 DEF ExecutionsOf
        <4> QED
          BY <1>0, <2>2, <3>2, <3>5, <4>1, <4>2 DEF OnceOf, Sends
      <3> QED
        BY <3>4, <3>6, <3>7 DEF OnceOf
    <2> QED
      BY <2>3, <2>4
  <1>3. ASSUME NEW x \in Slot, Execution(x) PROVE OnceOf(u)'
    BY <1>0, <1>3, OnceExecution
  <1>4. ASSUME NEW t \in Task, NEW via \in {"request", "tool", "unwired"}, NEW k \in Kinds,
               NEW d \in Delays, AcceptTask(t, via, k, d)
        PROVE  OnceOf(u)'
    <2>1. /\ UNCHANGED <<now, server, row, memory, loaded, exec, sent, unmarked>>
          /\ \A v \in Task : v # t =>
               kind'[v] = kind[v] /\ due'[v] = due[v] /\ create'[v] = create[v]
          /\ early \subseteq early'
      BY <1>4 DEF AcceptTask, ParseSchedule, Arrives, TypeOK
    <2>2. CASE u # t
      BY <1>0, <2>1, <2>2, OnceKept DEF EntriesOf, ExecutionsOf
    <2>3. CASE u = t
      <3>1. /\ create[u] = "no" /\ create'[u] \in {"request", "tool", "unwired"}
            /\ u \notin early' => u \notin early /\ server \notin {"down", "wiring"}
        BY <1>4, <2>3 DEF AcceptTask, Arrives, Serving, TypeOK
      <3>2. u \notin early => /\ EntriesOf(u)' = {} /\ ExecutionsOf(u)' = {} /\ u \notin loaded
                              /\ (u \notin unmarked => sent[u] = 0)
        <4>1. u \notin early => EntriesOf(u) = {} /\ ExecutionsOf(u) = {} /\ u \notin loaded
          BY <1>0, <3>1 DEF OnceOf, Single, Unregistered, Uninserted
        <4>2. u \notin early \cup unmarked => sent[u] = 0
          BY <1>0, <3>1, <4>1 DEF OnceOf, Sends, Lives, Uninserted, TypeOK
        <4> QED
          BY <2>1, <4>1, <4>2 DEF EntriesOf, ExecutionsOf
      <3>3. Single(u)'
        BY <2>1, <3>1, <3>2 DEF Single
      <3>4. Timed(u)'
        BY <2>1, <3>1, <3>2 DEF Timed
      <3>5. Sends(u)'
        BY <2>1, <3>1, <3>2 DEF Sends
      <3> QED
        BY <3>3, <3>4, <3>5 DEF OnceOf
    <2> QED
      BY <2>2, <2>3
  <1>5. ASSUME NEW t \in Task, Creation(t) PROVE OnceOf(u)'
    <2>1. CASE AddToScheduler(t)
      <3>1. /\ UNCHANGED <<now, server, row, kind, due, loaded, exec, sent, early, unmarked>>
            /\ RegisterTask(t) /\ create[t] = "add" /\ create'[t] = "done"
            /\ \A v \in Task : v # t => create'[v] = create[v]
        BY <2>1 DEF AddToScheduler, Arrives, TypeOK
      <3>2. CASE u = t
        <4>1. u \notin early => /\ EntriesOf(u) = {} /\ ExecutionsOf(u) = {}
                                /\ server \notin {"down", "wiring"}
          BY <1>0, <3>1, <3>2 DEF OnceOf, Single, Unregistered, Uninserted
        <4>2. u \notin early => u \notin loaded
          BY <1>0, <3>1, <3>2 DEF OnceOf, Single
        <4>3. CASE u \notin early
          BY <1>0, <3>1, <3>2, <4>1, <4>2, <4>3, OnceRegistered DEF Uninserted
        <4>4. CASE u \in early
          BY <1>0, <3>1, <4>4 DEF OnceOf, Single, Timed, Sends
        <4> QED
          BY <4>3, <4>4
      <3>3. CASE u # t
        <4>1. EntriesOf(u)' = EntriesOf(u)
          BY <3>1, <3>3, RegisterAdds DEF EntriesOf
        <4> QED
          BY <1>0, <3>1, <3>3, <4>1, OnceKept DEF ExecutionsOf
      <3> QED
        BY <3>2, <3>3
    <2>2. ASSUME ~AddToScheduler(t) PROVE OnceOf(u)'
      <3>1. /\ UNCHANGED <<now, server, kind, due, memory, loaded, exec, sent, early, unmarked>>
            /\ \A v \in Task : v # t => create'[v] = create[v] /\ row'[v] = row[v]
            /\ create[t] \in {"request", "tool", "unwired", "look", "add", "rollback"}
            /\ create'[t] \notin {"no", "request", "tool", "unwired"}
            /\ create'[t] \in {"look", "add"} => create[t] \in {"request", "tool", "look"}
            /\ create[t] = "add" => create'[t] = "rollback"
            /\ create[t] \notin {"request", "tool", "unwired"} =>
                 (row'[t] = "active" => row[t] = "active")
        BY <1>5, <2>2
        DEF Creation, InsertTask, InsertFails, LookUpTask, AddFails, RollBack, Arrives, TypeOK
      <3>2. CASE u # t
        BY <1>0, <3>1, <3>2, OnceKept DEF EntriesOf, ExecutionsOf
      <3>3. CASE u = t
        <4>1. EntriesOf(u)' = EntriesOf(u) /\ ExecutionsOf(u)' = ExecutionsOf(u)
          BY <3>1 DEF EntriesOf, ExecutionsOf
        <4>2. Single(u)'
          BY <1>0, <3>1, <3>3, <4>1 DEF OnceOf, Single, Unregistered, Uninserted
        <4>3. Timed(u)'
          BY <1>0, <3>1, <4>1 DEF OnceOf, Timed, IsOneTimeTask
        <4>4. Sends(u)'
          <5>1. SUFFICES ASSUME u \notin early \cup unmarked, IsOneTimeTask(u) PROVE Sends(u)'
            BY <3>1 DEF Sends, IsOneTimeTask
          <5>2. CASE create[u] \in Uninserted
            <6>1. ExecutionsOf(u) = {}
              BY <1>0, <5>1, <5>2 DEF OnceOf, Single, Unregistered
            <6>2. sent[u] = 0
              BY <1>0, <5>1, <5>2, <6>1 DEF OnceOf, Sends, TypeOK
            <6> QED
              BY <3>1, <4>1, <6>1, <6>2 DEF Sends
          <5>3. CASE create[u] \notin Uninserted
            BY <1>0, <3>1, <3>3, <4>1, <5>1, <5>3 DEF OnceOf, Sends, Uninserted
          <5> QED
            BY <5>2, <5>3
        <4> QED
          BY <4>2, <4>3, <4>4 DEF OnceOf
      <3> QED
        BY <3>2, <3>3
    <2> QED
      BY <2>1, <2>2
  <1>6. ASSUME NEW c \in Canceller, Cancellation(c) PROVE OnceOf(u)'
    <2>1. /\ UNCHANGED <<now, server, kind, due, create, loaded, exec, sent, early, unmarked>>
          /\ entries' \subseteq entries
          /\ \A t \in Task : row'[t] = "active" => row[t] = "active"
      BY <1>6 DEF Cancellation, RemoveTask, CancelByTool, UpdateStatus, UpdateFails, TypeOK
    <2> QED
      BY <1>0, <2>1, OnceKept DEF EntriesOf, ExecutionsOf
  <1>7. CASE DeleteConversation
    <2>1. /\ UNCHANGED <<now, server, kind, due, memory, create, loaded, exec, sent, early, unmarked>>
          /\ \A t \in Task : row'[t] = "active" => row[t] = "active"
      BY <1>7 DEF DeleteConversation
    <2> QED
      BY <1>0, <2>1, OnceKept DEF EntriesOf, ExecutionsOf
  <1>8. CASE LoadTasks \/ LoadFails \/ Restart
    <2>1. /\ UNCHANGED <<now, database, memory, create, exec, sent, early, unmarked>>
          /\ server \in {"down", "wiring"} /\ server' \in {"wiring", "loading", "idle"}
          /\ u \in loaded' => u \in loaded \/ row[u] = "active"
      BY <1>8 DEF LoadTasks, LoadFails, Restart
    <2>2. EntriesOf(u)' = EntriesOf(u) /\ ExecutionsOf(u)' = ExecutionsOf(u) /\ loaded = {}
      BY <2>1 DEF EntriesOf, ExecutionsOf, Lives
    <2>3. row[u] = "active" => create[u] # "no"
      BY DEF Lives, Uninserted
    <2>4. Single(u)'
      BY <1>0, <2>1, <2>2, <2>3 DEF OnceOf, Single
    <2>5. Timed(u)'
      BY <1>0, <2>1, <2>2 DEF OnceOf, Timed, IsOneTimeTask
    <2>6. Sends(u)'
      BY <1>0, <2>1, <2>2 DEF OnceOf, Sends, IsOneTimeTask
    <2> QED
      BY <2>4, <2>5, <2>6 DEF OnceOf
  <1>9. ASSUME NEW t \in Task, RegisterLoaded(t) PROVE OnceOf(u)'
    <2>1. /\ UNCHANGED <<now, server, database, create, exec, sent, early, unmarked>>
          /\ t \in loaded /\ loaded' = loaded \ {t} /\ server = "loading"
          /\ RegisterTask(t) \/ UNCHANGED memory
      BY <1>9 DEF RegisterLoaded, FailsToRegister, Lives
    <2>2. CASE u # t \/ UNCHANGED memory
      <3>1. EntriesOf(u)' = EntriesOf(u)
        BY <2>1, <2>2, RegisterAdds DEF EntriesOf
      <3> QED
        BY <1>0, <2>1, <3>1, OnceKept DEF ExecutionsOf
    <2>3. CASE u = t /\ RegisterTask(t)
      <3>1. CASE u \in early
        BY <1>0, <2>1, <3>1 DEF OnceOf, Single, Timed, Sends
      <3>2. CASE u \notin early
        <4>1. EntriesOf(u) = {} /\ ExecutionsOf(u) = {} /\ create[u] = "done"
          BY <1>0, <2>1, <2>3, <3>2 DEF OnceOf, Single, Lives, ExecutionsOf
        <4> QED
          BY <1>0, <2>1, <2>3, <4>1, OnceRegistered DEF Uninserted
      <3> QED
        BY <3>1, <3>2
    <2> QED
      BY <2>1, <2>2, <2>3
  <1>10. CASE StartScheduler
    <2>1. /\ UNCHANGED <<now, database, create, loaded, exec, sent, early, unmarked>>
          /\ server = "loading" /\ server' = "up" /\ loaded = {}
          /\ entries' = {[e EXCEPT !.next = NextAfter(e.task, now)] : e \in entries}
      BY <1>10 DEF StartScheduler
    <2>2. \A e \in entries : [e EXCEPT !.next = NextAfter(e.task, now)].task = e.task
                             /\ [e EXCEPT !.next = NextAfter(e.task, now)].next = NextAfter(e.task, now)
      BY DEF TypeOK, Entry
    <2>3. ExecutionsOf(u)' = {} /\ ExecutionsOf(u) = {}
      BY <2>1 DEF ExecutionsOf, Lives
    <2>4. EntriesOf(u)' = {[e EXCEPT !.next = NextAfter(e.task, now)] : e \in EntriesOf(u)}
      BY <2>1, <2>2 DEF EntriesOf
    <2>5. Single(u)'
      BY <1>0, <2>1, <2>3, <2>4 DEF OnceOf, Single
    <2>6. Timed(u)'
      <3>1. ASSUME IsOneTimeTask(u), NEW f \in EntriesOf(u)' PROVE f.next % Year = due[u] % Year
        <4>1. f.next = NextAfter(u, now)
          BY <2>2, <2>4 DEF EntriesOf
        <4> QED
          BY <3>1, <4>1, NextComes DEF TypeOK
      <3> QED
        BY <2>1, <2>3, <3>1 DEF Timed, IsOneTimeTask
    <2>7. Sends(u)'
      BY <1>0, <2>1, <2>3 DEF OnceOf, Sends, IsOneTimeTask
    <2> QED
      BY <2>5, <2>6, <2>7 DEF OnceOf
  <1>11. CASE Crash
    <2>1. /\ UNCHANGED <<now, database, sent, early>>
          /\ server' = "down" /\ entries' = {} /\ loaded' = {}
          /\ create'[u] = IF create[u] = "no" THEN "no" ELSE "done"
          /\ unmarked' = unmarked \cup {exec[x].task : x \in {y \in Slot : exec[y].at = "mark"}}
      BY <1>11 DEF Crash
    <2>2. EntriesOf(u)' = {} /\ ExecutionsOf(u)' = {}
      BY <1>11, <2>1 DEF Crash, EntriesOf, ExecutionsOf, NoTask
    <2>3. Single(u)'
      BY <2>1, <2>2 DEF Single
    <2>4. Timed(u)'
      BY <2>2 DEF Timed
    <2>5. Sends(u)'
      <3>1. SUFFICES ASSUME u \notin early, u \notin unmarked', IsOneTimeTask(u) PROVE Sends(u)'
        BY <2>1 DEF Sends, IsOneTimeTask
      <3>2. u \notin unmarked /\ \A x \in ExecutionsOf(u) : exec[x].at # "mark"
        BY <2>1, <3>1 DEF ExecutionsOf
      <3>3. sent[u] <= 1 /\ (sent[u] = 1 => row[u] # "active" /\ create[u] \notin Uninserted)
        BY <1>0, <3>1, <3>2 DEF OnceOf, Sends
      <3> QED
        BY <2>1, <2>2, <3>3 DEF Sends, Uninserted
    <2> QED
      BY <2>3, <2>4, <2>5 DEF OnceOf
  <1>12. CASE UNCHANGED vars
    BY <1>0, <1>12, OnceKept DEF vars, EntriesOf, ExecutionsOf
  <1> QED
    BY <1>1, <1>2, <1>3, <1>4, <1>5, <1>6, <1>7, <1>8, <1>9, <1>10, <1>11, <1>12
    DEF Next, Fires, Start

-----------------------------------------------------------------------------
(* Why a one-time task was not sent.                                       *)

\* Its entry fires at its instant, or before.
InTime(t) == \E e \in EntriesOf(t) : e.next <= due[t]

\* An execution that sent its message did; so did that of a completed row.
SentOf ==
  /\ \A x \in Slot : exec[x].at \in {"mark", "sync"} => sent[exec[x].task] >= 1
  /\ \A t \in Task : row[t] = "completed" => sent[t] >= 1

\* An active task in a running scheduler was sent, or is on its way.
OnWay(t) ==
  IsOneTimeTask(t) /\ server = "up" /\ row[t] = "active" /\ create[t] = "done" /\ sent[t] = 0 =>
    \/ ExecutionsOf(t) # {} \/ InTime(t) \/ Pending(t)
    \/ t \in late \cup unsent \cup unscheduled

OnTheirWay == \A t \in Task : OnWay(t)

SendInv == Inv /\ SentOf /\ OnTheirWay

\* The first firing after an instant before the schedule's own is not after it.
LEMMA FiresInTime ==
  ASSUME TypeOK, NEW t \in Task, IsOneTimeTask(t), now < due[t]
  PROVE  NextAfter(t, now) <= due[t]
  <1>1. now \in Nat /\ due[t] \in Nat /\ Year \in Nat \ {0}
    BY YearIsPositive, TaskConstants DEF TypeOK
  <1>2. \E i \in (now + 1) .. (now + Year) : i % Year = due[t] % Year
    BY <1>1, ComesRound, Zenon
  <1>3. /\ NextAfter(t, now) \in (now + 1) .. (now + Year)
        /\ NextAfter(t, now) % Year = due[t] % Year
    BY <1>2 DEF NextAfter, IsOneTimeTask
  <1>4. ASSUME NextAfter(t, now) > due[t] PROVE FALSE
    <2>1. NextAfter(t, now) >= due[t] + Year
      BY <1>1, <1>3, <1>4, AYearApart
    <2> QED
      BY <1>1, <1>3, <2>1
  <1> QED
    BY <1>1, <1>3, <1>4

LEMMA SentInit == Init => SentOf /\ OnTheirWay
  BY DEF Init, SentOf, OnTheirWay, OnWay, NoTask

\* A message is never taken back.
LEMMA SentGrows ==
  ASSUME TypeOK, [Next]_vars, NEW t \in Task, sent[t] >= 1
  PROVE  sent'[t] >= 1
  <1>1. CASE \E x \in Slot : SendMessage(x)
    BY <1>1 DEF SendMessage, TypeOK
  <1>2. CASE ~\E x \in Slot : SendMessage(x)
    <2>1. ASSUME NEW e \in entries, NEW x \in Slot, Fire(e, x) PROVE sent' = sent
      BY <2>1, Zenon DEF Fire
    <2>2. ASSUME NEW x \in Slot, Execution(x) PROVE sent' = sent
      BY <1>2, <2>2 DEF Execution, ReadTask, SendFails, MarkCompleted, MarkFails, PushTaskSync
    <2>3. ASSUME NEW u \in Task, Creation(u) PROVE sent' = sent
      BY <2>3 DEF Creation, InsertTask, InsertFails, LookUpTask, AddToScheduler, AddFails, RollBack
    <2>4. ASSUME NEW c \in Canceller, Cancellation(c) PROVE sent' = sent
      BY <2>4 DEF Cancellation, RemoveTask, CancelByTool, UpdateStatus, UpdateFails
    <2>5. ASSUME Tick \/ DeleteConversation \/ Start \/ Crash \/ Restart \/ UNCHANGED vars
          PROVE  sent' = sent
      BY <2>5 DEF Tick, DeleteConversation, Start, LoadTasks, LoadFails, RegisterLoaded,
                  StartScheduler, Crash, Restart, vars
    <2>6. ASSUME NEW u \in Task, NEW via \in {"request", "tool", "unwired"}, NEW k \in Kinds,
                 NEW d \in Delays, AcceptTask(u, via, k, d)
          PROVE  sent' = sent
      BY <2>6 DEF AcceptTask
    <2>7. sent' = sent
      BY <2>1, <2>2, <2>3, <2>4, <2>5, <2>6 DEF Next, Fires
    <2> QED
      BY <2>7
  <1> QED
    BY <1>1, <1>2

LEMMA SentStep == TypeOK /\ SentOf /\ [Next]_vars => SentOf'
  <1> SUFFICES ASSUME TypeOK, SentOf, [Next]_vars PROVE SentOf'
    OBVIOUS
  <1>0. ASSUME \A x \in Slot : exec'[x].at \in {"mark", "sync"} =>
                 exec[x].at \in {"mark", "sync"} /\ exec'[x].task = exec[x].task,
               \A t \in Task : row'[t] = "completed" => row[t] = "completed"
        PROVE  SentOf'
    <2>1. \A x \in Slot : exec[x].at # "free" => exec[x].task \in Task
      BY Shapes DEF Running
    <2> QED
      BY <1>0, <2>1, SentGrows DEF SentOf
  <1>1. ASSUME NEW e \in entries, NEW x \in Slot, Fire(e, x) PROVE SentOf'
    <2>1. UNCHANGED row
      BY <1>1, Zenon DEF Fire
    <2> QED
      BY <1>0, <1>1, <2>1, FireBegins
  <1>2. ASSUME NEW x \in Slot, Execution(x) PROVE SentOf'
    <2>1. CASE ReadTask(x)
      BY <1>0, <2>1, GoesKeeps, EndsFrees DEF ReadTask
    <2>2. CASE SendMessage(x)
      <3>1. /\ exec[x].at = "send" /\ UNCHANGED row /\ sent' = [sent EXCEPT ![exec[x].task] = @ + 1]
            /\ \E l \in {"mark", "sync"} : Goes(x, l)
        BY <2>2 DEF SendMessage
      <3>2. exec'[x].task = exec[x].task /\ \A y \in Slot : y # x => exec'[y] = exec[y]
        BY <3>1, GoesKeeps
      <3>3. exec[x].task \in Task /\ \A y \in Slot : exec[y].at # "free" => exec[y].task \in Task
        BY <3>1, Shapes DEF Running
      <3>4. sent'[exec[x].task] >= 1
        BY <3>1, <3>3 DEF TypeOK
      <3> QED
        BY <3>1, <3>2, <3>3, <3>4, SentGrows DEF SentOf
    <2>3. CASE SendFails(x) \/ PushTaskSync(x)
      BY <1>0, <2>3, EndsFrees DEF SendFails, PushTaskSync
    <2>4. CASE MarkFails(x)
      BY <1>0, <2>4, GoesKeeps DEF MarkFails
    <2>5. CASE MarkCompleted(x)
      <3>1. /\ exec[x].at = "mark" /\ Goes(x, "sync") /\ sent' = sent
            /\ \A t \in Task : t # exec[x].task => row'[t] = row[t]
        BY <2>5 DEF MarkCompleted, TypeOK
      <3>2. exec'[x].task = exec[x].task /\ \A y \in Slot : y # x => exec'[y] = exec[y]
        BY <3>1, GoesKeeps
      <3> QED
        BY <3>1, <3>2 DEF SentOf
    <2> QED
      BY <1>2, <2>1, <2>2, <2>3, <2>4, <2>5 DEF Execution
  <1>3. ASSUME NEW t \in Task, NEW via \in {"request", "tool", "unwired"}, NEW k \in Kinds,
               NEW d \in Delays, AcceptTask(t, via, k, d)
        PROVE  SentOf'
    BY <1>0, <1>3 DEF AcceptTask
  <1>4. ASSUME NEW t \in Task, Creation(t) PROVE SentOf'
    BY <1>0, <1>4 DEF Creation, InsertTask, InsertFails, LookUpTask, AddToScheduler, AddFails,
                      RollBack, TypeOK
  <1>5. ASSUME NEW c \in Canceller, Cancellation(c) PROVE SentOf'
    BY <1>0, <1>5 DEF Cancellation, RemoveTask, CancelByTool, UpdateStatus, UpdateFails, TypeOK
  <1>6. CASE Tick \/ DeleteConversation \/ Start \/ Restart \/ UNCHANGED vars
    BY <1>0, <1>6 DEF Tick, DeleteConversation, Start, LoadTasks, LoadFails, RegisterLoaded,
                      StartScheduler, Restart, vars
  <1>7. CASE Crash
    BY <1>0, <1>7 DEF Crash, NoTask
  <1> QED
    BY <1>1, <1>2, <1>3, <1>4, <1>5, <1>6, <1>7 DEF Next, Fires

\* It is enough that a step of a running server loses neither the execution, nor
\* the entry, nor the call, nor what is said of the task.
LEMMA OnWayKept ==
  ASSUME TypeOK, [Next]_vars, NEW t \in Task, OnWay(t),
         server' = "up" => server = "up", kind'[t] = kind[t], due'[t] = due[t],
         row'[t] = "active" /\ create'[t] = "done" => row[t] = "active" /\ create[t] = "done",
         ExecutionsOf(t) # {} =>
           ExecutionsOf(t)' # {} \/ row[t] # "active" \/ sent'[t] >= 1 \/ t \in unsent',
         InTime(t) => InTime(t)' \/ ExecutionsOf(t)' # {} \/ Pending(t)',
         Pending(t) => Pending(t)' \/ t \in unscheduled',
         t \in late \cup unsent \cup unscheduled => t \in late' \cup unsent' \cup unscheduled'
  PROVE  OnWay(t)'
  <1>1. SUFFICES ASSUME IsOneTimeTask(t), server' = "up", row'[t] = "active", create'[t] = "done",
                        sent'[t] = 0
                 PROVE  \/ ExecutionsOf(t)' # {} \/ InTime(t)' \/ Pending(t)'
                        \/ t \in late' \cup unsent' \cup unscheduled'
    BY DEF OnWay, IsOneTimeTask
  <1>2. sent[t] = 0
    BY <1>1, SentGrows DEF TypeOK
  <1> QED
    BY <1>1, <1>2 DEF OnWay

\* An execution ends before it sent its message only if the task is not active, or
\* the message could not be sent.
LEMMA OnWayExecution ==
  ASSUME Inv, SentOf, [Next]_vars, NEW x \in Slot, Execution(x), NEW t \in Task, OnWay(t)
  PROVE  OnWay(t)'
  <1>1. TypeOK /\ exec[x].at # "free" /\ exec[x].task \in Task
    BY Shapes DEF Inv, Execution, ReadTask, SendMessage, SendFails, MarkCompleted, MarkFails,
                  PushTaskSync, Running
  <1>2. /\ UNCHANGED <<server, kind, due, memory, create, cancel, late, unscheduled>>
        /\ unsent \subseteq unsent'
        /\ row'[t] = "active" => row[t] = "active"
    BY <1>1 DEF Execution, ReadTask, SendMessage, SendFails, MarkCompleted, MarkFails,
                PushTaskSync, TypeOK
  <1>3. ASSUME NEW l \in {"send", "mark", "sync"}, Goes(x, l), ExecutionsOf(t) # {}
        PROVE  ExecutionsOf(t)' # {}
    BY <1>1, <1>3, GoesKeeps DEF ExecutionsOf
  <1>4. ASSUME Ends(x), ExecutionsOf(t) # {}, exec[x].task # t PROVE ExecutionsOf(t)' # {}
    BY <1>1, <1>4, EndsFrees DEF ExecutionsOf
  <1>5. ASSUME Ends(x), exec[x].task = t
        PROVE  row[t] # "active" \/ sent'[t] >= 1 \/ t \in unsent'
    <2>1. ReadTask(x) \/ SendFails(x) \/ PushTaskSync(x)
      <3>1. ASSUME NEW l \in {"send", "mark", "sync"}, Goes(x, l) PROVE FALSE
        BY <1>1, <1>5, <3>1, GoesKeeps, EndsFrees
      <3> QED
        BY <1>1, <3>1 DEF Execution, SendMessage, MarkCompleted, MarkFails
    <2>2. CASE ReadTask(x)
      <3>1. ~Goes(x, "send")
        BY <1>1, <1>5, GoesKeeps, EndsFrees
      <3> QED
        BY <1>5, <2>2, <3>1 DEF ReadTask
    <2>3. CASE SendFails(x)
      BY <1>5, <2>3 DEF SendFails
    <2>4. CASE PushTaskSync(x)
      BY <1>1, <1>5, <2>4, SentGrows DEF PushTaskSync, SentOf
    <2> QED
      BY <2>1, <2>2, <2>3, <2>4
  <1>6. Ends(x) \/ \E l \in {"send", "mark", "sync"} : Goes(x, l)
    BY DEF Execution, ReadTask, SendMessage, SendFails, MarkCompleted, MarkFails, PushTaskSync
  <1>7. ExecutionsOf(t) # {} =>
          ExecutionsOf(t)' # {} \/ row[t] # "active" \/ sent'[t] >= 1 \/ t \in unsent'
    BY <1>3, <1>4, <1>5, <1>6
  <1>8. (InTime(t) => InTime(t)') /\ (Pending(t) => Pending(t)')
    BY <1>2 DEF InTime, EntriesOf, Pending
  <1> QED
    BY <1>1, <1>2, <1>7, <1>8, OnWayKept

\* A registration gives its task an entry in time, or is late.
LEMMA OnWayRegistered ==
  ASSUME TypeOK, NEW t \in Task, RegisterTask(t), server = "up", IsOneTimeTask(t), due' = due
  PROVE  InTime(t)' \/ t \in late'
  <1>1. CASE now >= due[t]
    BY <1>1 DEF RegisterTask
  <1>2. CASE now < due[t]
    <2>1. PICK f : entries' = entries \cup {f} /\ f.task = t /\ f.next = NextAfter(t, now)
      BY RegisterAdds
    <2>2. f \in EntriesOf(t)' /\ f.next <= due[t]
      BY <1>2, <2>1, FiresInTime DEF EntriesOf
    <2> QED
      BY <2>2 DEF InTime
  <1> QED
    BY <1>1, <1>2 DEF TypeOK

LEMMA OnWayCreation ==
  ASSUME Inv, [Next]_vars, NEW u \in Task, Creation(u), NEW t \in Task, OnWay(t)
  PROVE  OnWay(t)'
  <1>1. TypeOK
    BY DEF Inv
  <1>2. /\ UNCHANGED <<now, server, kind, due, cancel, exec, sent, unsent>>
        /\ late \subseteq late' /\ unscheduled \subseteq unscheduled' /\ entries \subseteq entries'
        /\ \A v \in Task : v # u => create'[v] = create[v] /\ row'[v] = row[v]
    BY <1>1 DEF Creation, InsertTask, InsertFails, LookUpTask, AddToScheduler, AddFails, RollBack,
                RegisterTask, Arrives, TypeOK
  <1>3. /\ InTime(t) => InTime(t)'
        /\ Pending(t) => Pending(t)'
        /\ ExecutionsOf(t)' = ExecutionsOf(t)
    BY <1>2 DEF InTime, EntriesOf, Pending, ExecutionsOf
  <1>4. CASE t # u
    BY <1>1, <1>2, <1>3, <1>4, OnWayKept
  <1>5. CASE t = u
    <2>1. CASE InsertTask(u)
      BY <1>1, <1>5, <2>1 DEF InsertTask, Arrives, OnWay, TypeOK
    <2>2. CASE InsertFails(u)
      BY <1>1, <1>5, <2>2 DEF InsertFails, OnWay, Inv, Lives, Uninserted
    <2>3. CASE LookUpTask(u) \/ AddFails(u) \/ RollBack(u)
      BY <1>1, <1>5, <2>3 DEF LookUpTask, AddFails, RollBack, Arrives, OnWay, TypeOK
    <2>4. CASE AddToScheduler(u)
      <3>1. RegisterTask(u)
        BY <2>4 DEF AddToScheduler
      <3>2. server = "up" /\ IsOneTimeTask(u) => InTime(u)' \/ u \in late'
        BY <1>1, <1>2, <3>1, OnWayRegistered
      <3> QED
        BY <1>2, <1>5, <3>2 DEF OnWay, IsOneTimeTask
    <2> QED
      BY <2>1, <2>2, <2>3, <2>4 DEF Creation
  <1> QED
    BY <1>4, <1>5

\* The entry a cancellation removes is its task's, and the call is pending.
LEMMA OnWayCancellation ==
  ASSUME Inv, [Next]_vars, NEW c \in Canceller, Cancellation(c), NEW t \in Task, OnWay(t)
  PROVE  OnWay(t)'
  <1>1. TypeOK
    BY DEF Inv
  <1>2. /\ UNCHANGED <<now, server, kind, due, create, exec, sent, late, unsent>>
        /\ unscheduled \subseteq unscheduled'
        /\ row'[t] = "active" => row[t] = "active"
        /\ \A d \in Canceller : d # c => cancel'[d] = cancel[d]
    BY <1>1 DEF Cancellation, RemoveTask, CancelByTool, UpdateStatus, UpdateFails, TypeOK
  <1>3. ExecutionsOf(t)' = ExecutionsOf(t)
    BY <1>2 DEF ExecutionsOf
  <1>4. ASSUME NEW u \in Task, RemoveTask(c, u) PROVE OnWay(t)'
    <2>1. /\ cancel[c].at = "free" /\ cancel'[c] = [at |-> "update", task |-> u]
          /\ entries' = {e \in entries : e.id # taskEntries[u]}
      BY <1>1, <1>4 DEF RemoveTask, TypeOK
    <2>2. Pending(t) => Pending(t)'
      BY <1>2, <2>1 DEF Pending
    <2>3. t = u => Pending(t)'
      BY <2>1 DEF Pending
    <2>4. t # u /\ InTime(t) => InTime(t)'
      BY <1>2, <2>1 DEF InTime, EntriesOf, Inv, Lives
    <2> QED
      BY <1>1, <1>2, <1>3, <2>2, <2>3, <2>4, OnWayKept
  <1>5. ASSUME NEW u \in Task, CancelByTool(c, u) PROVE OnWay(t)'
    <2>1. UNCHANGED memory /\ cancel[c].at = "free"
      BY <1>5 DEF CancelByTool
    <2>2. (InTime(t) => InTime(t)') /\ (Pending(t) => Pending(t)')
      BY <1>2, <2>1 DEF InTime, EntriesOf, Pending
    <2> QED
      BY <1>1, <1>2, <1>3, <2>2, OnWayKept
  <1>6. CASE UpdateStatus(c) \/ UpdateFails(c)
    <2>1. UNCHANGED memory /\ cancel[c].at = "update"
      BY <1>6 DEF UpdateStatus, UpdateFails
    <2>2. InTime(t) => InTime(t)'
      BY <1>2, <2>1 DEF InTime, EntriesOf
    <2>3. CASE cancel[c].task # t
      <3>1. Pending(t) => Pending(t)'
        BY <1>2, <2>3 DEF Pending
      <3> QED
        BY <1>1, <1>2, <1>3, <2>2, <3>1, OnWayKept
    <2>4. CASE cancel[c].task = t
      <3>1. row'[t] # "active" \/ t \in unscheduled'
        BY <1>1, <1>6, <2>4 DEF UpdateStatus, UpdateFails, Exists, TypeOK
      <3> QED
        BY <3>1 DEF OnWay
    <2> QED
      BY <2>3, <2>4
  <1> QED
    BY <1>4, <1>5, <1>6 DEF Cancellation

LEMMA OnWayStep == SendInv /\ [Next]_vars => OnTheirWay'
  <1> SUFFICES ASSUME Inv, SentOf, OnTheirWay, [Next]_vars, NEW t \in Task PROVE OnWay(t)'
    BY DEF SendInv, OnTheirWay
  <1>0. OnWay(t) /\ TypeOK
    BY DEF OnTheirWay, Inv
  <1>1. ASSUME NEW e \in entries, NEW x \in Slot, Fire(e, x) PROVE OnWay(t)'
    <2>1. PICK f : entries' = (entries \ {e}) \cup {f} /\ f.task = e.task
      BY <1>0, <1>1, FireReplaces
    <2>2. /\ UNCHANGED <<server, row, kind, due, create, cancel, sent, late, unsent, unscheduled>>
          /\ exec[x].at = "free"
      BY <1>1, Zenon DEF Fire
    <2>3. /\ ExecutionsOf(t) # {} => ExecutionsOf(t)' # {}
          /\ t = e.task => ExecutionsOf(t)' # {}
      BY <1>0, <1>1, <2>2, FireBegins DEF ExecutionsOf
    <2>4. t # e.task /\ InTime(t) => InTime(t)'
      BY <2>1, <2>2 DEF InTime, EntriesOf
    <2>5. Pending(t) => Pending(t)'
      BY <2>2 DEF Pending
    <2> QED
      BY <1>0, <2>2, <2>3, <2>4, <2>5, OnWayKept
  <1>2. ASSUME NEW x \in Slot, Execution(x) PROVE OnWay(t)'
    BY <1>0, <1>2, OnWayExecution
  <1>3. ASSUME NEW u \in Task, NEW via \in {"request", "tool", "unwired"}, NEW k \in Kinds,
               NEW d \in Delays, AcceptTask(u, via, k, d)
        PROVE  OnWay(t)'
    <2>1. /\ UNCHANGED <<server, row, memory, cancel, exec, sent, late, unsent, unscheduled>>
          /\ create'[u] # "done"
          /\ t # u => kind'[t] = kind[t] /\ due'[t] = due[t] /\ create'[t] = create[t]
      BY <1>0, <1>3 DEF AcceptTask, ParseSchedule, Arrives, TypeOK
    <2>2. CASE t = u
      BY <2>1, <2>2 DEF OnWay
    <2>3. CASE t # u
      <3>1. /\ InTime(t) => InTime(t)'
            /\ Pending(t) => Pending(t)'
            /\ ExecutionsOf(t)' = ExecutionsOf(t)
        BY <2>1, <2>3 DEF InTime, EntriesOf, Pending, ExecutionsOf
      <3> QED
        BY <1>0, <2>1, <2>3, <3>1, OnWayKept
    <2> QED
      BY <2>2, <2>3
  <1>4. ASSUME NEW u \in Task, Creation(u) PROVE OnWay(t)'
    BY <1>0, <1>4, OnWayCreation
  <1>5. ASSUME NEW c \in Canceller, Cancellation(c) PROVE OnWay(t)'
    BY <1>0, <1>5, OnWayCancellation
  <1>6. CASE Tick \/ DeleteConversation \/ UNCHANGED vars
    <2>1. /\ UNCHANGED <<server, kind, due, memory, create, cancel, exec, sent, late, unsent,
                         unscheduled>>
          /\ row'[t] = "active" => row[t] = "active"
      BY <1>6 DEF Tick, DeleteConversation, vars
    <2>2. /\ InTime(t) => InTime(t)'
          /\ Pending(t) => Pending(t)'
          /\ ExecutionsOf(t)' = ExecutionsOf(t)
      BY <2>1 DEF InTime, EntriesOf, Pending, ExecutionsOf
    <2> QED
      BY <1>0, <2>1, <2>2, OnWayKept
  <1>7. CASE LoadTasks \/ LoadFails \/ Crash \/ Restart
    BY <1>7 DEF LoadTasks, LoadFails, Crash, Restart, OnWay
  <1>8. ASSUME NEW u \in Task, RegisterLoaded(u) PROVE OnWay(t)'
    BY <1>8 DEF RegisterLoaded, OnWay, Inv, Lives
  <1>9. CASE StartScheduler
    <2>1. /\ UNCHANGED <<now, row, kind, due, create, cancel, sent, unsent, unscheduled>>
          /\ server = "loading" /\ loaded = {}
          /\ entries' = {[e EXCEPT !.next = NextAfter(e.task, now)] : e \in entries}
          /\ late' = late \cup {u \in Task : IsOneTimeTask(u) /\ now >= due[u]
                                             /\ \E e \in entries : e.task = u}
      BY <1>9 DEF StartScheduler
    <2>2. SUFFICES ASSUME IsOneTimeTask(t), row[t] = "active", create[t] = "done"
                   PROVE  InTime(t)' \/ Pending(t) \/ t \in late' \/ t \in unscheduled
      BY <2>1 DEF OnWay, IsOneTimeTask, Pending
    <2>3. EntriesOf(t) # {} \/ Pending(t) \/ t \in unscheduled
      BY <2>1, <2>2 DEF Inv, Known, KnownOrLost, Pending, IsOneTimeTask, Parses
    <2>4. ASSUME NEW e \in EntriesOf(t) PROVE InTime(t)' \/ t \in late'
      <3>1. e \in entries /\ e.task = t /\ e \in Entry
        BY <1>0 DEF EntriesOf, TypeOK
      <3>2. CASE now >= due[t]
        BY <2>1, <2>2, <3>1, <3>2
      <3>3. CASE now < due[t]
        <4>1. PICK f : f \in entries' /\ f.task = t /\ f.next = NextAfter(t, now)
          <5>1. [e EXCEPT !.next = NextAfter(e.task, now)].task = t
                /\ [e EXCEPT !.next = NextAfter(e.task, now)].next = NextAfter(t, now)
            BY <3>1 DEF Entry
          <5> QED
            BY <2>1, <3>1, <5>1
        <4>2. f \in EntriesOf(t)' /\ f.next <= due'[t]
          BY <1>0, <2>1, <2>2, <3>3, <4>1, FiresInTime DEF EntriesOf
        <4> QED
          BY <4>2 DEF InTime
      <3> QED
        BY <1>0, <3>2, <3>3 DEF TypeOK
    <2> QED
      BY <2>3, <2>4
  <1> QED
    BY <1>1, <1>2, <1>3, <1>4, <1>5, <1>6, <1>7, <1>8, <1>9 DEF Next, Fires, Start

-----------------------------------------------------------------------------
(* The theorems.                                                           *)

LEMMA Invariance == Spec => []Inv
  <1>1. Init => Inv
    BY TypeInit, LivesInit, CancelsInit, KnownInit, OnceInit DEF Inv
  <1>2. Inv /\ [Next]_vars => Inv'
    <2> SUFFICES ASSUME Inv, [Next]_vars PROVE Inv'
      OBVIOUS
    <2>1. TypeOK'
      BY TypeStep DEF Inv
    <2>2. Lives'
      BY LivesStep DEF Inv
    <2>3. Cancels'
      BY CancelsStep DEF Inv
    <2>4. Known'
      BY KnownStep DEF Inv
    <2>5. Once'
      BY OnceStep DEF Inv
    <2> QED
      BY <2>1, <2>2, <2>3, <2>4, <2>5 DEF Inv
  <1> QED
    BY <1>1, <1>2, PTL DEF Spec

\* Every variable holds a value of its kind.
THEOREM TypesHold == Spec => []TypeOK
  <1>1. Inv => TypeOK
    BY DEF Inv
  <1> QED
    BY <1>1, Invariance, PTL

\* A cancellation that was acknowledged holds, although the tool leaves the entry
\* in the scheduler and Start may register a row it read before: the execution
\* reads the row again (service/cron.go, ExecuteTask).
THEOREM CancellationHolds == Spec => []CancelHolds
  <1>1. Inv => CancelHolds
    BY DEF Inv, Cancels, CancelHolds, ExecutionsOf, TypeOK
  <1> QED
    BY <1>1, Invariance, PTL

\* The scheduler of a started server knows every active task whose creation has
\* ended, whatever was created, cancelled or deleted while it started.
THEOREM ActiveTasksAreScheduled == Spec => []ActiveIsScheduled
  <1>1. Inv => ActiveIsScheduled
    <2> SUFFICES ASSUME Inv PROVE ActiveIsScheduled
      OBVIOUS
    <2>1. server = "up" => loaded = {}
      BY DEF Inv, Lives
    <2> QED
      BY <2>1 DEF Inv, Known, KnownOrLost, ActiveIsScheduled
  <1> QED
    BY <1>1, Invariance, PTL

\* A one-time task sends its message once, over any number of restarts and years,
\* unless its row was not marked or Start read the rows while it was created.
THEOREM OneTimeTasksSendOnce == Spec => []OneTimeSentOnce
  <1>1. Inv => OneTimeSentOnce
    BY DEF Inv, Once, OnceOf, Sends, OneTimeSentOnce
  <1> QED
    BY <1>1, Invariance, PTL

\* A one-time task past its instant that sent nothing is under way, about to fire,
\* being cancelled, or was registered after its instant, lost its entry, or could
\* not send: over crashes at any step, failures, and schedules of any length.  A
\* completed task was sent (service/cron.go, Start and ExecuteTask).
THEOREM UnsentTasksAreExplained == Spec => []UnsentIsExplained
  <1>1. Init => SentOf /\ OnTheirWay
    BY SentInit
  <1>2. Inv /\ SentOf /\ OnTheirWay /\ [Next]_vars => (SentOf /\ OnTheirWay)'
    BY SentStep, OnWayStep DEF SendInv, Inv
  <1>3. Inv /\ SentOf /\ OnTheirWay => UnsentIsExplained
    <2> SUFFICES ASSUME Inv, SentOf, OnTheirWay, NEW t \in Task, IsOneTimeTask(t), sent[t] = 0
                 PROVE  /\ row[t] # "completed"
                        /\ row[t] = "active" /\ create[t] = "done" /\ server = "up" =>
                             \/ ExecutionsOf(t) # {} \/ InTime(t) \/ Pending(t)
                             \/ t \in late \cup unsent \cup unscheduled
      BY DEF UnsentIsExplained, InTime, Pending
    <2>1. row[t] # "completed"
      BY DEF SentOf
    <2> QED
      BY <2>1 DEF OnTheirWay, OnWay
  <1> QED
    BY <1>1, <1>2, <1>3, Invariance, PTL DEF Spec

=============================================================================
