----------------------------- MODULE UpdateStream -----------------------------
(***************************************************************************)
(* How one user's updates reach the web client.                            *)
(*                                                                         *)
(* On the server, goroutines publish updates: a number from a counter in   *)
(* Redis, a row in user_updates, a push to the registered connections      *)
(* (ws/manager.go); handlers open connections (ws/server.go) and answer    *)
(* pulls (handler/user.go).  In the browser a dispatcher applies batches   *)
(* one at a time (updateDispatcher.ts), fed by the socket, by a puller and *)
(* by a poller (WSProvider.tsx), all of which move one stored cursor.      *)
(* A step of the client is one task of its event loop, up to the await     *)
(* that ends it.  Reads and writes of IndexedDB take effect in the order   *)
(* they are issued.                                                        *)
(***************************************************************************)
EXTENDS Naturals, Sequences, FiniteSetsExt

CONSTANTS
  Writer,       \* goroutines that publish one update each
  Socket,       \* the WebSocket connections the client opens, in any order
  NoSocket,     \* the client has no connection
  PageLimit,    \* rows per pull
  ReplayLimit,  \* rows per replay
  SendCap,      \* frames that wait for a connection before pushes are dropped
  MaxConns,     \* connections the manager accepts
  Faults,       \* may database writes and pulls fail?
  CounterLost   \* may Redis lose the counter?

ASSUME UpdateConstants ==
  /\ IsFiniteSet(Writer)
  /\ NoSocket \notin Socket
  /\ {PageLimit, ReplayLimit, SendCap, MaxConns} \subseteq Nat \ {0}
  /\ {Faults, CounterLost} \subseteq BOOLEAN

VARIABLES
  counter,     \* the counter seq:<user> in Redis
  at,          \* at[w]: where the publishing goroutine w is
  num,         \* num[w]: the number of its update, 0 before it has one
  stored,      \* the goroutines whose update is in user_updates
  handler,     \* handler[k]: the server's handler of connection k
  registered,  \* the connections in the manager's map
  total,       \* the manager's connsTotal, of all users
  socket,      \* the client's connection, or NoSocket
  opened,      \* the client has seen it open
  wire,        \* the frames on their way to the client over that connection
  cursor,      \* latest_seq in IndexedDB
  dispatch,    \* the batch the dispatcher is applying
  waiting,     \* the batches queued behind it
  pull,        \* pullMissingUpdates
  poll,        \* the polling loop
  \* The rest is history: nothing in the code reads it.
  notified,    \* goroutines whose update subscribers were told of
  refused,     \* goroutines whose update was in a batch judged a gap
  passed,      \* numbers with no row yet when a batch beyond them was read
  others       \* how many connections other users keep all the while

serverVars == <<counter, at, num, stored>>
connVars   == <<handler, registered, total>>
socketVars == <<socket, opened, wire>>
applyVars  == <<cursor, dispatch, waiting>>
history    == <<notified, refused, passed, others>>
vars == <<serverVars, connVars, socketVars, applyVars, pull, poll, history>>

\* A batch: updates, and the numbers filled in with "empty" updates.
Batch == [upd : SUBSET Writer, fill : SUBSET Nat]
NoBatch == [upd |-> {}, fill |-> {}]
Nums(b) == {num[w] : w \in b.upd} \cup b.fill
HasUpdates(b) == Nums(b) # {}

Idle == [at |-> "idle", from |-> 0, batch |-> NoBatch]

Init ==
  /\ counter = 0
  /\ at = [w \in Writer |-> "idle"]
  /\ num = [w \in Writer |-> 0]
  /\ stored = {}
  /\ handler = [k \in Socket |-> [at |-> "none", last |-> 0, max |-> 0]]
  /\ others \in 0 .. MaxConns
  /\ registered = {} /\ total = others
  /\ socket = NoSocket /\ opened = FALSE /\ wire = <<>>
  /\ cursor = 0
  /\ dispatch = Idle /\ waiting = <<>>
  /\ pull = Idle /\ poll = Idle
  /\ notified = {} /\ refused = {} /\ passed = {}

\* The rows after number n, in the order of their numbers, limit of them.
Rows(n, limit) ==
  LET later == {w \in stored : num[w] > n}
  IN  {w \in later : Cardinality({v \in later : num[v] < num[w]}) < limit}

LastOf(rows) == Max({num[w] : w \in rows})
Holes(n, rows) == IF rows = {} THEN {} ELSE ((n + 1) .. LastOf(rows)) \ {num[w] : w \in rows}

\* The answer to GET /users/me/updates?last_seq=n.
Page(n) == [upd |-> Rows(n, PageLimit), fill |-> Holes(n, Rows(n, PageLimit))]

-----------------------------------------------------------------------------
(* Publishing an update.                                                   *)

Goto(w, label) == at' = [at EXCEPT ![w] = label]

NextSeq(w) ==
  /\ at[w] = "idle"
  /\ counter' = counter + 1
  /\ num' = [num EXCEPT ![w] = counter + 1]
  /\ Goto(w, "numbered")
  /\ UNCHANGED <<stored, connVars, socketVars, applyVars, pull, poll, history>>

\* The transaction that inserts the row; numbers are unique per user.
StoreUpdate(w) ==
  /\ at[w] = "numbered"
  /\ \A v \in stored : num[v] # num[w]
  /\ stored' = stored \cup {w}
  /\ Goto(w, "push")
  /\ UNCHANGED <<counter, num, connVars, socketVars, applyVars, pull, poll, history>>

\* It fails: the services give up, the run's callbacks push all the same.
StoreFails(w) ==
  /\ at[w] = "numbered"
  /\ Faults \/ \E v \in stored : num[v] = num[w]
  /\ Goto(w, "failed") \/ Goto(w, "push")
  /\ UNCHANGED <<counter, num, stored, connVars, socketVars, applyVars, pull, poll, history>>

\* To every registered connection; dropped when the channel is full.  Only
\* the connection the client still has leads anywhere.
Send(b) ==
  wire' = IF socket \in registered /\ Len(wire) < SendCap
          THEN Append(wire, [hello |-> FALSE, max |-> 0, batch |-> b])
          ELSE wire

PushToUserConnections(w) ==
  /\ at[w] = "push"
  /\ Send([upd |-> {w}, fill |-> {}])
  /\ Goto(w, "done")
  /\ UNCHANGED <<counter, num, stored, connVars, socket, opened, applyVars, pull, poll, history>>

LoseCounter ==
  /\ CounterLost
  /\ counter > 0
  /\ counter' = 0
  /\ UNCHANGED <<at, num, stored, connVars, socketVars, applyVars, pull, poll, history>>

-----------------------------------------------------------------------------
(* The handler of a connection: WSHandler.ServeHTTP.                       *)

Handle(k, from, h) == handler[k].at = from /\ handler' = [handler EXCEPT ![k] = h]
Moves(k, from, to) == Handle(k, from, [handler[k] EXCEPT !.at = to])

\* The user's connections leave the map; nobody subtracts them from the total.
KickAllConnections(k) ==
  /\ Moves(k, "accept", "kicked")
  /\ registered' = {}
  /\ UNCHANGED <<serverVars, total, socketVars, applyVars, pull, poll, history>>

ReadCounter(k) ==
  /\ Handle(k, "kicked",
       [handler[k] EXCEPT !.max = counter,
          !.at = IF counter = 0 \/ counter < handler[k].last THEN "stale" ELSE "hello"])
  /\ UNCHANGED <<serverVars, registered, total, socketVars, applyVars, pull, poll, history>>

\* The counter looks stale: the greatest number in the database replaces it.
ReadStored(k) ==
  /\ LET most == IF stored = {} THEN 0 ELSE LastOf(stored)
     IN  Handle(k, "stale",
           IF most > handler[k].max THEN [handler[k] EXCEPT !.max = most, !.at = "sync"]
           ELSE [handler[k] EXCEPT !.at = "hello"])
  /\ UNCHANGED <<serverVars, registered, total, socketVars, applyVars, pull, poll, history>>

SyncCounter(k) ==
  /\ Moves(k, "sync", "hello")
  /\ counter' = handler[k].max
  /\ UNCHANGED <<at, num, stored, registered, total, socketVars, applyVars, pull, poll, history>>

\* The connected frame; writing to a connection the client has left may fail.
Connected(k) ==
  /\ \/ /\ Moves(k, "hello", "replay")
        /\ wire' = IF socket = k
                   THEN Append(wire, [hello |-> TRUE, max |-> handler[k].max, batch |-> NoBatch])
                   ELSE wire
     \/ socket # k /\ Moves(k, "hello", "gone") /\ UNCHANGED wire
  /\ UNCHANGED <<serverVars, registered, total, socket, opened, applyVars, pull, poll, history>>

\* The missed rows go to the connections registered so far; k is not.
Replay(k) ==
  /\ Moves(k, "replay", "register")
  /\ LET last == handler[k].last
         rows == {w \in Rows(last, ReplayLimit) : num[w] <= handler[k].max}
     IN  IF 0 < last /\ last < handler[k].max /\ rows # {}
         THEN /\ Send([upd |-> rows, fill |-> {}])
              /\ passed' = passed \cup Holes(last, rows)
         ELSE UNCHANGED <<wire, passed>>
  /\ UNCHANGED <<serverVars, registered, total, socket, opened, applyVars, pull, poll,
                 notified, refused, others>>

AddConnection(k) ==
  /\ total < MaxConns
  /\ Handle(k, "register", [at |-> "open", last |-> 0, max |-> 0])
  /\ registered' = registered \cup {k}
  /\ total' = total + 1
  /\ UNCHANGED <<serverVars, socketVars, applyVars, pull, poll, history>>

RefuseConnection(k) ==
  /\ total >= MaxConns
  /\ Moves(k, "register", "gone")
  /\ UNCHANGED <<serverVars, registered, total, socketVars, applyVars, pull, poll, history>>

\* Mutant: a connection that was kicked is subtracted too.
RemoveTwice(k) ==
  /\ registered' = registered \ {k}
  /\ total' = total - 1
  /\ UNCHANGED <<serverVars, handler, socketVars, applyVars, pull, poll, history>>

\* No ping for a minute.
RemoveConnection(k) ==
  /\ k \in registered
  /\ registered' = registered \ {k}
  /\ total' = total - 1
  /\ UNCHANGED <<serverVars, handler, socketVars, applyVars, pull, poll, history>>

-----------------------------------------------------------------------------
(* The dispatcher.                                                         *)

Begin(b) == [at |-> "read", from |-> cursor, batch |-> b]

\* Mutant: a batch that arrives while another is applied is forgotten.
ApplyOrForget(b) ==
  IF dispatch.at = "idle" THEN dispatch' = Begin(b) /\ UNCHANGED waiting
                          ELSE UNCHANGED <<dispatch, waiting>>

\* applyUpdates: the first batch reads the cursor at once, the others queue.
Apply(b) ==
  IF dispatch.at = "idle" THEN dispatch' = Begin(b) /\ UNCHANGED waiting
                          ELSE waiting' = Append(waiting, b) /\ UNCHANGED dispatch

Advance ==
  IF waiting = <<>> THEN dispatch' = Idle /\ UNCHANGED waiting
                    ELSE dispatch' = Begin(Head(waiting)) /\ waiting' = Tail(waiting)

Continuous(b, n) == Min(Nums(b)) = n + 1

\* pullMissingUpdates, unless one is under way.
StartPull(n) ==
  pull' = IF pull.at = "idle" THEN [at |-> "asked", from |-> n, batch |-> NoBatch] ELSE pull

MoveCursor ==
  /\ dispatch.at = "read" /\ Continuous(dispatch.batch, dispatch.from)
  /\ cursor' = Max(Nums(dispatch.batch))
  /\ dispatch' = [dispatch EXCEPT !.at = "written"]
  /\ UNCHANGED <<serverVars, connVars, socketVars, waiting, pull, poll, history>>

NotifySubscribers ==
  /\ dispatch.at = "written"
  /\ notified' = notified \cup dispatch.batch.upd
  /\ Advance
  /\ UNCHANGED <<serverVars, connVars, socketVars, cursor, pull, poll, refused, passed,
                 others>>

RefuseBatch ==
  /\ dispatch.at = "read" /\ ~Continuous(dispatch.batch, dispatch.from)
  /\ refused' = refused \cup dispatch.batch.upd
  /\ StartPull(dispatch.from)
  /\ Advance
  /\ UNCHANGED <<serverVars, connVars, socketVars, cursor, poll, notified, passed,
                 others>>

-----------------------------------------------------------------------------
(* Pulling and polling.                                                    *)

AnswerPull ==
  /\ pull.at = "asked"
  /\ pull' = [at |-> "answered", from |-> 0, batch |-> Page(pull.from)]
  /\ passed' = passed \cup Page(pull.from).fill
  /\ UNCHANGED <<serverVars, connVars, socketVars, applyVars, poll, notified, refused,
                 others>>

LosePull ==
  /\ Faults
  /\ pull.at = "asked"
  /\ pull' = Idle
  /\ UNCHANGED <<serverVars, connVars, socketVars, applyVars, poll, history>>

\* applyUpdates is not awaited: the cursor moves whatever becomes of the batch.
ReceivePull ==
  /\ pull.at = "answered"
  /\ IF HasUpdates(pull.batch)
     THEN /\ Apply(pull.batch)
          /\ cursor' = Max(Nums(pull.batch))
          /\ pull' = [Idle EXCEPT !.at = "closing"]
     ELSE UNCHANGED applyVars /\ pull' = Idle
  /\ UNCHANGED <<serverVars, connVars, socketVars, poll, history>>

EndPull ==
  /\ pull.at = "closing"
  /\ pull' = Idle
  /\ UNCHANGED <<serverVars, connVars, socketVars, applyVars, poll, history>>

Poll ==
  /\ poll.at = "armed"
  /\ poll' = [at |-> "asked", from |-> cursor, batch |-> NoBatch]
  /\ UNCHANGED <<serverVars, connVars, socketVars, applyVars, pull, history>>

AnswerPoll ==
  /\ poll.at = "asked"
  /\ poll' = [at |-> "answered", from |-> 0, batch |-> Page(poll.from)]
  /\ passed' = passed \cup Page(poll.from).fill
  /\ UNCHANGED <<serverVars, connVars, socketVars, applyVars, pull, notified, refused,
                 others>>

LosePoll ==
  /\ Faults
  /\ poll.at = "asked"
  /\ poll' = [Idle EXCEPT !.at = "armed"]
  /\ UNCHANGED <<serverVars, connVars, socketVars, applyVars, pull, history>>

\* Mutant: the loop ends with the first answer that has no updates.
ReceivePollOnce ==
  /\ poll.at = "answered"
  /\ IF HasUpdates(poll.batch)
     THEN /\ Apply(poll.batch)
          /\ poll' = [poll EXCEPT !.at = "set", !.from = cursor]
     ELSE UNCHANGED <<dispatch, waiting>> /\ poll' = Idle
  /\ UNCHANGED <<serverVars, connVars, socketVars, cursor, pull, history>>

ReceivePoll ==
  /\ poll.at = "answered"
  /\ IF HasUpdates(poll.batch)
     THEN /\ Apply(poll.batch)
          /\ poll' = [poll EXCEPT !.at = "set", !.from = cursor]
     ELSE UNCHANGED <<dispatch, waiting>> /\ poll' = [Idle EXCEPT !.at = "armed"]
  /\ UNCHANGED <<serverVars, connVars, socketVars, cursor, pull, history>>

SetFromPoll ==
  /\ poll.at = "set"
  /\ cursor' = IF Max(Nums(poll.batch)) > poll.from THEN Max(Nums(poll.batch)) ELSE cursor
  /\ poll' = [Idle EXCEPT !.at = "armed"]
  /\ UNCHANGED <<serverVars, connVars, socketVars, dispatch, waiting, pull, history>>

-----------------------------------------------------------------------------
(* The client's connection.                                                *)

Connect(k) ==
  /\ socket = NoSocket
  /\ Handle(k, "none", [at |-> "accept", last |-> cursor, max |-> 0])
  /\ socket' = k
  /\ UNCHANGED <<serverVars, registered, total, opened, wire, applyVars, pull, poll, history>>

\* onopen: the timer of the next poll is cleared; a poll under way goes on.
OnOpen ==
  /\ socket # NoSocket /\ ~opened
  /\ handler[socket].at # "accept"
  /\ opened' = TRUE
  /\ poll' = IF poll.at = "armed" THEN Idle ELSE poll
  /\ UNCHANGED <<serverVars, connVars, socket, wire, applyVars, pull, history>>

\* Mutant: the cursor follows the counter the server reports.
OnMessageTrusting ==
  /\ opened /\ wire # <<>>
  /\ wire' = Tail(wire)
  /\ LET frame == Head(wire)
     IN  IF frame.hello
         THEN /\ cursor' = frame.max
              /\ UNCHANGED <<dispatch, waiting, pull>>
         ELSE Apply(frame.batch) /\ UNCHANGED <<cursor, pull>>
  /\ UNCHANGED <<serverVars, connVars, socket, opened, poll, history>>

OnMessage ==
  /\ opened /\ wire # <<>>
  /\ wire' = Tail(wire)
  /\ LET frame == Head(wire)
     IN  IF frame.hello
         THEN /\ IF frame.max > cursor THEN StartPull(cursor) ELSE UNCHANGED pull
              /\ UNCHANGED applyVars
         ELSE Apply(frame.batch) /\ UNCHANGED <<cursor, pull>>
  /\ UNCHANGED <<serverVars, connVars, socket, opened, poll, history>>

\* The connection is lost, or was closed by the server: polling starts.
OnClose ==
  /\ socket # NoSocket
  /\ socket' = NoSocket /\ opened' = FALSE /\ wire' = <<>>
  /\ poll' = IF poll.at = "idle" THEN [Idle EXCEPT !.at = "armed"] ELSE poll
  /\ UNCHANGED <<serverVars, connVars, applyVars, pull, history>>

-----------------------------------------------------------------------------

WriterStep(w) == NextSeq(w) \/ StoreUpdate(w) \/ StoreFails(w) \/ PushToUserConnections(w)

HandlerStep(k) ==
  \/ KickAllConnections(k) \/ ReadCounter(k) \/ ReadStored(k) \/ SyncCounter(k)
  \/ Connected(k) \/ Replay(k) \/ AddConnection(k) \/ RefuseConnection(k)
  \/ RemoveConnection(k)

DispatcherStep == MoveCursor \/ NotifySubscribers \/ RefuseBatch
PullStep == AnswerPull \/ LosePull \/ ReceivePull \/ EndPull
PollStep == Poll \/ AnswerPoll \/ LosePoll \/ ReceivePoll \/ SetFromPoll
SocketStep == (\E k \in Socket : Connect(k)) \/ OnOpen \/ OnMessage \/ OnClose

Next ==
  \/ \E w \in Writer : WriterStep(w)
  \/ LoseCounter
  \/ \E k \in Socket : HandlerStep(k)
  \/ DispatcherStep \/ PullStep \/ PollStep \/ SocketStep

Spec == Init /\ [][Next]_vars

(* The event loop runs its tasks, timers fire, and the network is not down *)
(* for good: a poll repeated for ever is answered again and again.         *)
Fairness ==
  /\ WF_vars(DispatcherStep) /\ WF_vars(ReceivePull \/ EndPull)
  /\ WF_vars(Poll \/ ReceivePoll \/ SetFromPoll) /\ SF_vars(AnswerPoll)

FairSpec == Spec /\ Fairness

-----------------------------------------------------------------------------
(* Properties.                                                             *)

Steps == {"idle", "read", "written", "asked", "answered", "closing", "armed", "set"}
Task == [at : Steps, from : Nat, batch : Batch]

\* Every variable holds a value of its kind.
TypeOK ==
  /\ counter \in Nat
  /\ at \in [Writer -> {"idle", "numbered", "push", "failed", "done"}]
  /\ num \in [Writer -> Nat]
  /\ stored \subseteq Writer
  /\ handler \in [Socket -> [at : {"none", "accept", "kicked", "stale", "sync", "hello",
                                   "replay", "register", "open", "gone"},
                             last : Nat, max : Nat]]
  /\ registered \subseteq Socket
  /\ total \in Nat
  /\ socket \in Socket \cup {NoSocket}
  /\ opened \in BOOLEAN
  /\ wire \in Seq([hello : BOOLEAN, max : Nat, batch : Batch])
  /\ cursor \in Nat
  /\ {dispatch, pull, poll} \subseteq Task
  /\ waiting \in Seq(Batch)
  /\ notified \subseteq Writer /\ refused \subseteq Writer
  /\ passed \subseteq Nat
  /\ others \in Nat

\* The client never claims to have seen a number no update was published under.
CursorIsPublished ==
  cursor = 0 \/ \E w \in stored \cup {v \in Writer : at[v] = "done"} : num[w] = cursor

InDispatcher(w) ==
  \/ dispatch.at # "idle" /\ w \in dispatch.batch.upd
  \/ \E i \in DOMAIN waiting : w \in waiting[i].upd

\* An update the cursor has passed without anybody being told of it was stored
\* after a batch beyond it was read, or came in a batch the dispatcher refused,
\* or shares its number with another one: there is no fourth way to miss one.
MissedIsExplained ==
  \A w \in stored : num[w] <= cursor =>
    \/ w \in notified \/ InDispatcher(w)
    \/ num[w] \in passed
    \/ w \in refused
    \/ \E v \in Writer \ {w} : num[v] = num[w]

\* The total that a new connection is measured against is that of the
\* connections there are.
TotalIsCurrent == total = others + Cardinality(registered)

\* A client that has lost its connection for good reaches every stored update.
PollingCatchesUp ==
  <>[](socket = NoSocket /\ \E k \in Socket : handler[k].at # "none")
    => <>[](\A w \in stored : num[w] <= cursor)

=============================================================================
