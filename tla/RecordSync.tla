------------------------------ MODULE RecordSync ------------------------------
(***************************************************************************)
(* The records of a user besides messages (one project, one conversation,  *)
(* its todo list and scheduled tasks, the settings), the requests that     *)
(* change them, and the browser tabs that show them.                       *)
(*                                                                         *)
(* There are two ways to change a record.  Projects, conversations and     *)
(* settings look up the row, take a number, and write the row and an       *)
(* update with that number in one transaction (service/conversation.go,    *)
(* project.go, template.go, settings.go).  The lists of a conversation are *)
(* written first; then a number is taken and a "sync" update is stored     *)
(* with it, each step giving up in silence (handler/todo.go, cron.go).     *)
(*                                                                         *)
(* A tab processes the stored updates in the order of their numbers and    *)
(* passes over those not stored yet, as UpdateStream describes.  The       *)
(* update is routed to the components that subscribe to its topic; most of *)
(* them read their list again, and the answer to that may be overtaken.    *)
(*                                                                         *)
(* A value is the request that wrote it.  A list is the requests that      *)
(* changed it, in the order of their writes.                               *)
(***************************************************************************)
EXTENDS Naturals, Sequences, FiniteSets, SequencesExt, FiniteSetsExt

CONSTANTS
  Request,  \* the requests
  Tab,      \* the browser tabs
  Other,    \* the origin of requests of other clients of the API
  Agent,    \* the origin of calls of the agent's tools
  Initial,  \* what a field holds before the first request
  Kinds,    \* the kinds of request that may arrive
  Faults    \* may a number, a write or a request for a list fail?

ASSUME RecordConstants ==
  /\ Other \notin Tab /\ Agent \notin Tab /\ Other # Agent
  /\ Initial \notin Request
  /\ Faults \in BOOLEAN

VARIABLES
  counter,  \* the last number taken
  stored,   \* the stored updates
  there,    \* do the project and the conversation exist?
  row,      \* the fields of the conversation and of the settings
  log,      \* log[l]: the requests that changed list l
  req,      \* req[q]: the request q
  before,   \* before[q]: the requests that had ended when q arrived
  page,     \* page[t]: the page tab t is on
  cursor,   \* cursor[t]: the number of the last update t processed
  heard,    \* heard[t]: the numbers of the updates t processed and acted on
  view,     \* view[t][s]: what component s of tab t shows
  fetches   \* fetches[t]: requests of t for a list, under way

database == <<there, row, log>>
tabs     == <<page, cursor, heard, view, fetches>>
vars == <<counter, stored, database, req, before, tabs>>

Lists == {"projects", "conversations", "todos", "tasks", "settings"}
Fields == {"title", "mode", "status", "theme", "locale"}

\* Every page has the theme; the rest of a page's components.
Components == [home     |-> {"projects", "theme"},
               chat     |-> {"conversations", "todos", "tasks", "theme"},
               settings |-> {"settings", "theme"}]
Component == UNION {Components[p] : p \in DOMAIN Components}
ListOf(s) == IF s = "theme" THEN "settings" ELSE s

-----------------------------------------------------------------------------
(* What the routes accept.                                                 *)

ConversationRequests == {"create", "rename", "mode", "patch", "archive", "restore", "delete"}
ConversationOps == {"create", "rename", "mode", "status", "delete"}
TodoRequests == {"addTodo", "checkTodo", "deleteTodo"}
TaskRequests == {"addTask", "cancelTask"}
ProjectRequests == {"addProject", "deleteProject"}
SettingsRequests == {"settings", "theme", "locale"}
SettingsFields == {"theme", "locale"}

ASSUME KnownKinds ==
  Kinds \subseteq ConversationRequests \cup TodoRequests \cup TaskRequests
                   \cup ProjectRequests \cup SettingsRequests

\* The operation a request starts with, and whether another follows.
FirstOp(kind) ==
  CASE kind = "patch" -> "rename"
    [] kind \in {"archive", "restore"} -> "status"
    [] OTHER -> kind
HasMore(q) == req[q].kind = "patch" /\ req[q].op = "rename"

\* Operations that look nothing up before they take a number.
NumbersFirst == {"create", "addProject"} \cup SettingsRequests
Synced == TodoRequests \cup TaskRequests

NoRequest == [kind |-> "none", op |-> "none", at |-> "no", tab |-> Other, num |-> 0,
              title |-> Initial]
Nothing == [f \in {} |-> Initial]
AsLoaded == [upto |-> 0, newest |-> 0, own |-> {}, stale |-> FALSE]

Init ==
  /\ counter = 0 /\ stored = {}
  /\ there = [project |-> TRUE, conversation |-> TRUE]
  /\ row = [f \in Fields |-> Initial]
  /\ log = [l \in Lists |-> <<>>]
  /\ req = [q \in Request |-> NoRequest]
  /\ before = [q \in Request |-> {}]
  /\ page \in [Tab -> DOMAIN Components]
  /\ cursor = [t \in Tab |-> 0]
  /\ heard = [t \in Tab |-> {}]
  /\ view = [t \in Tab |-> [s \in Component |-> AsLoaded]]
  /\ fetches = [t \in Tab |-> {}]

Ended(q) == req[q].at \in {"ok", "error"}
At(q, op, label) == req[q].op = op /\ req[q].at = label
Goes(q, label) == req' = [req EXCEPT ![q].at = label]
Fails(q) == Goes(q, "error") /\ UNCHANGED <<counter, stored, database, before, tabs>>

\* The one todo item the requests name, besides those they add.
ItemExists == there.conversation /\ \A q \in ToSet(log.todos) : req[q].op # "deleteTodo"

\* q's place among the changes of its list, 0 when it made none.
Position(q) == IF \E l \in Lists : \E i \in DOMAIN log[l] : log[l][i] = q
               THEN LET l == CHOOSE l \in Lists : q \in ToSet(log[l])
                    IN  CHOOSE i \in DOMAIN log[l] : log[l][i] = q
               ELSE 0

-----------------------------------------------------------------------------
(* A request arrives, looks up what it is about and takes a number.        *)

OnPage ==
  [home     |-> {"addProject"},
   chat     |-> {"create", "rename", "mode", "archive", "delete"} \cup Synced,
   settings |-> {"settings"}]

Offers(t) ==
  CASE t = Other -> Kinds
    [] t = Agent -> Synced
    [] OTHER -> OnPage[page[t]]

\* The tools look nothing up to add or delete an item or to cancel a task.
FirstStep(kind, t) ==
  CASE FirstOp(kind) \in NumbersFirst -> "number"
    [] kind \in {"addTodo", "deleteTodo", "cancelTask"} /\ t = Agent -> "write"
    [] OTHER -> "verify"

Begin(q) ==
  /\ req[q].at = "no"
  /\ \E kind \in Kinds, t \in Tab \cup {Other, Agent} :
       /\ kind \in Offers(t)
       /\ req' = [req EXCEPT ![q] = [NoRequest EXCEPT !.kind = kind, !.op = FirstOp(kind),
                                                      !.tab = t, !.at = FirstStep(kind, t)]]
  /\ before' = [before EXCEPT ![q] = {r \in Request : Ended(r)}]
  /\ UNCHANGED <<counter, stored, database, tabs>>

\* An unknown mode, theme or locale, or a schedule that cannot be read.
Invalid(q) ==
  /\ \/ At(q, "mode", "verify")
     \/ At(q, "addTask", "write")
     \/ \E op \in SettingsRequests : At(q, op, "number") /\ req[q].num = 0
  /\ Fails(q)

Finds(op) ==
  CASE op = "deleteProject" -> there.project
    [] op \in {"checkTodo", "deleteTodo"} -> ItemExists
    [] OTHER -> there.conversation

\* The row as it is read here is what the update of the mode or the status repeats.
Verify(q) ==
  /\ req[q].at = "verify"
  /\ IF Finds(req[q].op)
     THEN req' = [req EXCEPT ![q] = [@ EXCEPT
            !.at = IF req[q].op \in Synced THEN "write" ELSE "number", !.title = row.title]]
     ELSE Goes(q, "error")
  /\ UNCHANGED <<counter, stored, database, before, tabs>>

Number(q) ==
  /\ req[q].at = "number"
  /\ counter' = counter + 1
  /\ req' = [req EXCEPT ![q] = [@ EXCEPT !.num = counter + 1, !.at = "commit"]]
  /\ UNCHANGED <<stored, database, before, tabs>>

NumberFails(q) == Faults /\ req[q].at = "number" /\ Fails(q)

-----------------------------------------------------------------------------
(* The transactions: a row, and the update that announces it.              *)

Update(q, n, type, says) == [num |-> n, req |-> q, type |-> type, says |-> says]
Stores(q, type, says) == stored' = stored \cup {Update(q, req[q].num, type, says)}

\* An UPDATE of a row that is gone changes nothing and is no error.
WritesConversation(says) ==
  row' = IF there.conversation THEN [f \in Fields |-> IF f \in DOMAIN says THEN says[f] ELSE row[f]]
         ELSE row

CreateConversation(q) ==
  /\ At(q, "create", "commit")
  /\ IF there.project
     THEN /\ log' = [log EXCEPT !.conversations = Append(@, q)]
          /\ Stores(q, "conversation.created", Nothing)
          /\ Goes(q, "answer")
     ELSE /\ Goes(q, "error")
          /\ UNCHANGED <<stored, log>>
  /\ UNCHANGED <<counter, there, row, before, tabs>>

\* Mutant: the update repeats the title that was looked up.
RenameAnnouncesOld(q) ==
  /\ At(q, "rename", "commit")
  /\ WritesConversation([title |-> q])
  /\ Stores(q, "conversation.updated", [title |-> req[q].title])
  /\ Goes(q, "answer")
  /\ UNCHANGED <<counter, there, log, before, tabs>>

RenameConversation(q) ==
  /\ At(q, "rename", "commit")
  /\ WritesConversation([title |-> q])
  /\ Stores(q, "conversation.updated", [title |-> q])
  /\ Goes(q, "answer")
  /\ UNCHANGED <<counter, there, log, before, tabs>>

\* Mutant: the whole row is saved as it was looked up.
SaveConversation(q) ==
  /\ At(q, "mode", "commit")
  /\ WritesConversation([title |-> req[q].title, mode |-> q])
  /\ Stores(q, "conversation.updated", [title |-> req[q].title, mode |-> q])
  /\ Goes(q, "answer")
  /\ UNCHANGED <<counter, there, log, before, tabs>>

UpdateMode(q) ==
  /\ At(q, "mode", "commit")
  /\ WritesConversation([mode |-> q])
  /\ Stores(q, "conversation.updated", [title |-> req[q].title, mode |-> q])
  /\ Goes(q, "answer")
  /\ UNCHANGED <<counter, there, log, before, tabs>>

\* Mutant: both updates of an archived conversation have the same number.
ArchiveWithOneNumber(q) ==
  /\ At(q, "status", "commit")
  /\ WritesConversation([status |-> q])
  /\ stored' = stored \cup
       {Update(q, req[q].num, "conversation.updated", [title |-> req[q].title, status |-> q]),
        Update(q, req[q].num, "conversation.archived", Nothing)}
  /\ Goes(q, "answer")
  /\ UNCHANGED <<counter, there, log, before, tabs>>

\* Mutant: the number of the second update fails after the first was committed.
ArchiveInTwo(q) ==
  /\ At(q, "status", "commit")
  /\ WritesConversation([status |-> q])
  /\ Stores(q, "conversation.updated", [title |-> req[q].title, status |-> q])
  /\ Goes(q, IF req[q].kind = "archive" THEN "error" ELSE "answer")
  /\ UNCHANGED <<counter, there, log, before, tabs>>

\* An archived conversation is announced once more, under a second number
\* taken within the transaction.
UpdateStatus(q) ==
  /\ At(q, "status", "commit")
  /\ WritesConversation([status |-> q])
  /\ LET updated == Update(q, req[q].num, "conversation.updated",
                           [title |-> req[q].title, status |-> q])
     IN  IF req[q].kind = "archive"
         THEN /\ counter' = counter + 1
              /\ stored' = stored \cup
                   {updated, Update(q, counter + 1, "conversation.archived", Nothing)}
              /\ Goes(q, "push")
         ELSE /\ stored' = stored \cup {updated}
              /\ Goes(q, "answer")
              /\ UNCHANGED counter
  /\ UNCHANGED <<there, log, before, tabs>>

\* What is pushed has a third number, which no row has.
PushArchived(q) ==
  /\ At(q, "status", "push")
  /\ \/ counter' = counter + 1
     \/ Faults /\ UNCHANGED counter
  /\ Goes(q, "answer")
  /\ UNCHANGED <<stored, database, before, tabs>>

\* Deletions cascade to what belongs to the row.
DeleteConversation(q) ==
  /\ At(q, "delete", "commit")
  /\ IF there.conversation
     THEN /\ there' = [there EXCEPT !.conversation = FALSE]
          /\ log' = [log EXCEPT !.conversations = Append(@, q)]
          /\ Stores(q, "conversation.deleted", Nothing)
          /\ Goes(q, "answer")
     ELSE /\ Goes(q, "error")
          /\ UNCHANGED <<stored, there, log>>
  /\ UNCHANGED <<counter, row, before, tabs>>

CreateProjectFromTemplate(q) ==
  /\ At(q, "addProject", "commit")
  /\ log' = [log EXCEPT !.projects = Append(@, q)]
  /\ Stores(q, "project.created", Nothing)
  /\ Goes(q, "answer")
  /\ UNCHANGED <<counter, there, row, before, tabs>>

DeleteProject(q) ==
  /\ At(q, "deleteProject", "commit")
  /\ IF there.project
     THEN /\ there' = [project |-> FALSE, conversation |-> FALSE]
          /\ log' = [log EXCEPT !.projects = Append(@, q)]
          /\ Stores(q, "project.deleted", Nothing)
          /\ Goes(q, "answer")
     ELSE /\ Goes(q, "error")
          /\ UNCHANGED <<stored, there, log>>
  /\ UNCHANGED <<counter, row, before, tabs>>

\* Only the fields of the request are written, which are all of the form's; the
\* update has them all, as they are read again within the transaction.
Given(q) == IF req[q].kind = "settings" THEN SettingsFields ELSE {req[q].kind}

UpdateSettings(q) ==
  /\ req[q].op \in SettingsRequests /\ req[q].at = "commit"
  /\ row' = [f \in Fields |-> IF f \in Given(q) THEN q ELSE row[f]]
  /\ log' = [log EXCEPT !.settings = Append(@, q)]
  /\ Stores(q, "settings.changed", [f \in SettingsFields |-> row'[f]])
  /\ Goes(q, "answer")
  /\ UNCHANGED <<counter, there, before, tabs>>

Commit(q) ==
  \/ CreateConversation(q) \/ RenameConversation(q) \/ UpdateMode(q) \/ UpdateStatus(q)
  \/ DeleteConversation(q) \/ CreateProjectFromTemplate(q) \/ DeleteProject(q)
  \/ UpdateSettings(q)

\* A transaction fails as a whole; the numbers it took are lost.
CommitFails(q) ==
  /\ Faults
  /\ req[q].at = "commit"
  /\ \/ UNCHANGED counter
     \/ req[q].kind = "archive" /\ counter' = counter + 1
  /\ Goes(q, "error")
  /\ UNCHANGED <<stored, database, before, tabs>>

-----------------------------------------------------------------------------
(* The lists of the conversation: first the write, then the update.        *)

Writes(q, list) == log' = [log EXCEPT ![list] = Append(@, q)]

\* A row of a conversation that is gone violates a foreign key.
CreateTodo(q) ==
  /\ At(q, "addTodo", "write")
  /\ IF there.conversation THEN Writes(q, "todos") /\ Goes(q, "numberSync")
     ELSE Goes(q, "error") /\ UNCHANGED log
  /\ UNCHANGED <<counter, stored, there, row, before, tabs>>

UpdateTodo(q) ==
  /\ At(q, "checkTodo", "write")
  /\ IF ItemExists THEN Writes(q, "todos") ELSE UNCHANGED log
  /\ Goes(q, IF req[q].tab = Agent THEN "numberSync" ELSE "reload")
  /\ UNCHANGED <<counter, stored, there, row, before, tabs>>

\* The routes read the item again, and answer an error when it is gone or
\* cannot be read; the tool does not.
ReloadTodo(q) ==
  /\ At(q, "checkTodo", "reload")
  /\ \/ ItemExists /\ Goes(q, "numberSync")
     \/ (~ItemExists \/ Faults) /\ Goes(q, "error")
  /\ UNCHANGED <<counter, stored, database, before, tabs>>

DeleteTodo(q) ==
  /\ At(q, "deleteTodo", "write")
  /\ IF ItemExists THEN Writes(q, "todos") /\ Goes(q, "numberSync")
     ELSE Goes(q, "error") /\ UNCHANGED log
  /\ UNCHANGED <<counter, stored, there, row, before, tabs>>

\* The row of a task is inserted, then the scheduler is told.
CreateTask(q) ==
  /\ At(q, "addTask", "write")
  /\ IF there.conversation THEN Writes(q, "tasks") /\ Goes(q, "register")
     ELSE Goes(q, "error") /\ UNCHANGED log
  /\ UNCHANGED <<counter, stored, there, row, before, tabs>>

\* It refuses schedules of five fields.
RegisterTask(q) ==
  /\ At(q, "addTask", "register")
  /\ Goes(q, "numberSync") \/ Goes(q, "rollback")
  /\ UNCHANGED <<counter, stored, database, before, tabs>>

\* The row of a refused task stays, cancelled, or active when that update fails,
\* which nobody looks at.  The list has the task either way (ScheduledTasks has
\* its status), and nobody is told.
RollBackTask(q) ==
  /\ At(q, "addTask", "rollback")
  /\ Goes(q, "error")
  /\ UNCHANGED <<counter, stored, database, before, tabs>>

\* Only the tool asks whether there was a row to cancel.
CancelTask(q) ==
  /\ At(q, "cancelTask", "write")
  /\ IF there.conversation THEN Writes(q, "tasks") /\ Goes(q, "numberSync")
     ELSE Goes(q, IF req[q].tab = Agent THEN "error" ELSE "numberSync") /\ UNCHANGED log
  /\ UNCHANGED <<counter, stored, there, row, before, tabs>>

Write(q) ==
  \/ CreateTodo(q) \/ UpdateTodo(q) \/ ReloadTodo(q) \/ DeleteTodo(q)
  \/ CreateTask(q) \/ RegisterTask(q) \/ RollBackTask(q) \/ CancelTask(q)

WriteFails(q) == Faults /\ req[q].at = "write" /\ Fails(q)

NumberSync(q) ==
  /\ req[q].at = "numberSync"
  /\ counter' = counter + 1
  /\ req' = [req EXCEPT ![q] = [@ EXCEPT !.num = counter + 1, !.at = "sync"]]
  /\ UNCHANGED <<stored, database, before, tabs>>

StoreSync(q) ==
  /\ req[q].at = "sync"
  /\ Stores(q, IF req[q].op \in TaskRequests THEN "cron_task.sync" ELSE "todo.sync", Nothing)
  /\ Goes(q, "answer")
  /\ UNCHANGED <<counter, database, before, tabs>>

\* Nobody is told, and the request is answered as if they were.
SyncFails(q) ==
  /\ Faults
  /\ req[q].at \in {"numberSync", "sync"}
  /\ Goes(q, "answer")
  /\ UNCHANGED <<counter, stored, database, before, tabs>>

-----------------------------------------------------------------------------
(* Tabs: what they hear of an update.                                      *)

Keys(type) ==
  CASE type \in {"conversation.created", "conversation.updated", "conversation.deleted"} ->
         {"id", "project_id"}
    [] type \in {"conversation.archived", "todo.sync", "cron_task.sync"} -> {"conversation_id"}
    [] type \in {"project.created", "project.deleted"} -> {"id"}
    [] OTHER -> {}

\* Mutant: an update with an identifier is taken for one about a conversation.
DeriveTopicFromId(type) ==
  IF Keys(type) \cap {"id", "conversation_id"} # {} THEN "conv" ELSE "system"

DeriveTopic(type) ==
  IF "conversation_id" \in Keys(type) THEN "conv"
  ELSE IF "project_id" \in Keys(type) THEN "project"
  ELSE "system"

\* The topic and the types a component acts on.
ProjectList    == [topic |-> "system", types |-> {"project.created", "project.deleted"}]
ChatSider      == [topic |-> "project",
                   types |-> {"conversation.created", "conversation.deleted",
                              "conversation.archived"}]
TodoPanel      == [topic |-> "conv", types |-> {"todo.sync"}]
CronTaskPanel  == [topic |-> "conv", types |-> {"cron_task.sync"}]
SettingsForm   == [topic |-> "system", types |-> {"settings.changed"}]
ThemeProvider  == [topic |-> "system", types |-> {"settings.changed"}]

Subscription == [projects |-> ProjectList, conversations |-> ChatSider, todos |-> TodoPanel,
                 tasks |-> CronTaskPanel, settings |-> SettingsForm, theme |-> ThemeProvider]

Hears(s, type) == Subscription[s].topic = DeriveTopic(type) /\ type \in Subscription[s].types

\* Subscribers of the topic "system" are notified of new settings twice.
Times(type) == IF type = "settings.changed" THEN {1, 2} ELSE {1}

\* The theme is in the update; a deleted project is taken off the list; the
\* other components read their list again.
InPlace(s, type) == s = "theme" \/ type = "project.deleted"

\* What is shown is the list after `upto' changes, and the changes in `own'; it is
\* stale when the newest change shown before is not among them.
Shows(v, n) ==
  [upto |-> n, newest |-> Max({n, v.newest}), own |-> {}, stale |-> n < v.newest]
Adds(v, q) ==
  [v EXCEPT !.own = @ \cup {q}, !.newest = Max({Position(q), @})]

NotifySubscribers(t, u) ==
  LET hearing == {s \in Components[page[t]] : Hears(s, u.type)}
      reading == {s \in hearing : ~InPlace(s, u.type)}
  IN  /\ view' = [view EXCEPT ![t] = [s \in Component |->
                    IF s \notin hearing \ reading THEN @[s]
                    ELSE IF s = "theme" THEN Shows(@[s], Position(u.req))
                    ELSE Adds(@[s], u.req)]]
      /\ fetches' = [fetches EXCEPT ![t] = @ \cup
                       {[list |-> s, cause |-> u.num, copy |-> c, read |-> FALSE, upto |-> 0] :
                          s \in reading, c \in Times(u.type)}]

\* The next stored update; numbers without a row are passed over.
Process(t) ==
  /\ \E u \in stored :
       /\ u.num > cursor[t]
       /\ \A v \in stored : v.num > cursor[t] => u.num <= v.num
       /\ cursor' = [cursor EXCEPT ![t] = u.num]
       /\ heard' = [heard EXCEPT ![t] = @ \cup {u.num}]
       /\ NotifySubscribers(t, u)
  /\ UNCHANGED <<counter, stored, database, req, before, page>>

\* The server answers a request for a list, then the answer arrives.
\* Lists of a conversation that is gone are not found.
Found(list) == list \in {"todos", "tasks"} => there.conversation

ReadList(t, f) ==
  /\ f \in fetches[t] /\ ~f.read
  /\ Found(f.list)
  /\ fetches' = [fetches EXCEPT ![t] = (@ \ {f}) \cup
                   {[f EXCEPT !.read = TRUE, !.upto = Len(log[f.list])]}]
  /\ UNCHANGED <<counter, stored, database, req, before, page, cursor, heard, view>>

ReceiveList(t, f) ==
  /\ f \in fetches[t] /\ f.read
  /\ fetches' = [fetches EXCEPT ![t] = @ \ {f}]
  /\ view' = [view EXCEPT ![t][f.list] = Shows(@, f.upto)]
  /\ UNCHANGED <<counter, stored, database, req, before, page, cursor, heard>>

LoseList(t, f) ==
  /\ f \in fetches[t]
  /\ \/ Faults
     \/ ~f.read /\ ~Found(f.list)
  /\ fetches' = [fetches EXCEPT ![t] = @ \ {f}]
  /\ heard' = [heard EXCEPT ![t] = @ \ {f.cause}]
  /\ UNCHANGED <<counter, stored, database, req, before, page, cursor, view>>

-----------------------------------------------------------------------------
(* The answer, and what the component that asked makes of it.              *)

\* PATCH renames first; the mode is an operation of its own.
PatchMode(q) ==
  /\ req[q].at = "answer" /\ HasMore(q)
  /\ req' = [req EXCEPT ![q] = [@ EXCEPT !.op = "mode", !.at = "verify"]]
  /\ UNCHANGED <<counter, stored, database, before, tabs>>

Shown(t, s) == {log[ListOf(s)][i] : i \in 1 .. view[t][s].upto} \cup view[t][s].own

TodoPanelAnswer(t, q) ==
  LET added == Adds(view[t].todos, q)
      stale == \/ added.stale
               \/ req[q].op # "deleteTodo" /\ Position(q) < view[t].todos.newest
               \/ req[q].op = "addTodo" /\ q \in Shown(t, "todos")
  IN  /\ view' = [view EXCEPT ![t].todos = [added EXCEPT !.stale = stale]]
      /\ UNCHANGED fetches

CronTaskPanelAnswer(t) ==
  /\ fetches' = [fetches EXCEPT ![t] = @ \cup
       {[list |-> "tasks", cause |-> 0, copy |-> c, read |-> FALSE, upto |-> 0] :
          c \in {Cardinality({f \in @ : f.list = "tasks" /\ f.cause = 0}) + 1}}]
  /\ UNCHANGED view

\* A deleted conversation is taken off the list; the other changes do not
\* alter which conversations are listed.
ChatSiderAnswer(t, q) ==
  /\ view' = IF req[q].op = "delete" THEN [view EXCEPT ![t].conversations = Adds(@, q)] ELSE view
  /\ UNCHANGED fetches

SettingsFormAnswer(t, q) ==
  /\ view' = [view EXCEPT ![t].settings = Shows(@, Position(q))]
  /\ UNCHANGED fetches

\* The page of a new project is another one.
Answer(q) ==
  /\ req[q].at = "answer" /\ ~HasMore(q)
  /\ Goes(q, "ok")
  /\ LET t == req[q].tab
         op == req[q].op
     IN  \/ t \in Tab /\ op \in TodoRequests /\ TodoPanelAnswer(t, q)
         \/ t \in Tab /\ op \in TaskRequests /\ CronTaskPanelAnswer(t)
         \/ t \in Tab /\ op \in SettingsRequests /\ SettingsFormAnswer(t, q)
         \/ t \in Tab /\ op \in ConversationOps /\ ChatSiderAnswer(t, q)
         \/ /\ t \notin Tab \/ op = "addProject"
            /\ UNCHANGED <<view, fetches>>
  /\ UNCHANGED <<counter, stored, database, before, page, cursor, heard>>

-----------------------------------------------------------------------------
Next ==
  \/ \E q \in Request :
       \/ Begin(q) \/ Invalid(q) \/ Verify(q) \/ Number(q) \/ NumberFails(q)
       \/ Commit(q) \/ CommitFails(q) \/ PushArchived(q) \/ PatchMode(q)
       \/ Write(q) \/ WriteFails(q) \/ NumberSync(q) \/ StoreSync(q) \/ SyncFails(q)
       \/ Answer(q)
  \/ \E t \in Tab :
       \/ Process(t)
       \/ \E f \in fetches[t] : ReadList(t, f) \/ ReceiveList(t, f) \/ LoseList(t, f)

Spec == Init /\ [][Next]_vars

-----------------------------------------------------------------------------
(* Properties.                                                             *)

Overlap(q, r) == q # r /\ q \notin before[r] /\ r \notin before[q]

\* States have their shape, and no two updates have the same number.
TypeOK ==
  /\ counter \in Nat
  /\ \A u \in stored :
       /\ u.num \in 1 .. counter /\ u.req \in Request
       /\ DOMAIN u.says \subseteq Fields
  /\ \A u, v \in stored : u.num = v.num => u = v
  /\ there \in [{"project", "conversation"} -> BOOLEAN]
  /\ row \in [Fields -> Request \cup {Initial}]
  /\ \A l \in Lists : log[l] \in Seq(Request) /\ IsInjective(log[l])
  /\ \A q \in Request :
       /\ req[q].num \in 0 .. counter
       /\ req[q].tab \in Tab \cup {Other, Agent}
       /\ before[q] \subseteq Request
  /\ page \in [Tab -> DOMAIN Components]
  /\ \A t \in Tab :
       /\ cursor[t] \in 0 .. counter
       /\ heard[t] \subseteq 1 .. cursor[t]
       /\ \A s \in Component : view[t][s].upto \in 0 .. Len(log[ListOf(s)])
       /\ \A f \in fetches[t] : f.list \in Components[page[t]] /\ f.upto <= Len(log[f.list])

\* A field that a request wrote and answered for is not lost: it still holds
\* that value, or another request has written the same field since, or at the
\* same time.  Every operation writes its own columns only.
Wrote(q, f) ==
  \/ f = "title" /\ req[q].kind \in {"rename", "patch"}
  \/ f = "mode" /\ req[q].kind \in {"mode", "patch"}
  \/ f = "status" /\ req[q].op = "status"
  \/ f \in SettingsFields /\ req[q].kind \in {"settings", f}

NoWriteIsLost ==
  \A q \in Request : req[q].at = "ok" =>
    \A f \in Fields : Wrote(q, f) =>
      \/ row[f] = q
      \/ \E r \in Request \ {q} : row[f] = r /\ Wrote(r, f) /\ r \notin before[q]
      \/ f \notin SettingsFields /\ ~there.conversation

\* A client that replays the stored updates in the order of their numbers ends
\* with the fields of the row, as far as they were changed: the last update
\* that carries a field has its value, unless the requests that wrote the two
\* overlapped.  Numbers are taken before the transaction and some values are
\* read before that.
Carry(f) == {u \in stored : f \in DOMAIN u.says}
ReplayTellsTheRow ==
  \A f \in Fields : f \in SettingsFields \/ there.conversation =>
    \A u \in Carry(f) :
      (\A v \in Carry(f) : v.num <= u.num) =>
        \/ u.says[f] = row[f]
        \/ row[f] # Initial /\ Overlap(u.req, row[f])

\* A request answered with an error changed nothing and announced nothing, with
\* three exceptions: the second transaction of a patch failed, whose first has
\* renamed and said so; an item was changed and could not be read again; a task
\* was inserted and the scheduler refused it.  Of these two changes nobody is
\* told, but they are the only ones, in their own list.
Renamed(q) == req[q].kind = "patch" /\ req[q].op = "mode"

ErrorMeansNoChange ==
  \A q \in Request : req[q].at = "error" =>
    /\ \A f \in Fields : row[f] = q => f = "title" /\ Renamed(q)
    /\ \A u \in stored : u.req = q => DOMAIN u.says = {"title"} /\ Renamed(q)
    /\ \A l \in Lists : q \in ToSet(log[l]) =>
         \/ l = "todos" /\ req[q].op = "checkTodo"
         \/ l = "tasks" /\ req[q].op = "addTask"

\* At rest, a tab shows every change of its lists except those nobody told it
\* about: it passed over the updates of that change and of every later one
\* before they were stored, or they never were, or reading the list failed;
\* or the last answer it got was older than what it already showed.
AtRest(t) ==
  /\ \A q \in Request : req[q].at = "no" \/ Ended(q)
  /\ \A u \in stored : u.num <= cursor[t]
  /\ fetches[t] = {}

Announces(s) ==
  CASE s = "projects" -> {"project.created", "project.deleted"}
    [] s = "conversations" -> {"conversation.created", "conversation.deleted"}
    [] s = "todos" -> {"todo.sync"}
    [] s = "tasks" -> {"cron_task.sync"}
    [] OTHER -> {"settings.changed"}

Told(t, s, i) ==
  \E u \in stored :
    /\ u.num \in heard[t] /\ u.type \in Announces(s)
    /\ IF u.type = "project.deleted" THEN Position(u.req) = i ELSE Position(u.req) >= i

TabsShowWhatTheyHeard ==
  \A t \in Tab : AtRest(t) =>
    \A s \in Components[page[t]] :
      \/ view[t][s].stale
      \/ s = "conversations" /\ ~there.project
      \/ \A i \in DOMAIN log[ListOf(s)] : Told(t, s, i) => log[ListOf(s)][i] \in Shown(t, s)

=============================================================================
