------------------------------ MODULE RunSession ------------------------------
(***************************************************************************)
(* The session registry of the server: RunSessionManager in                *)
(* eino/runner/run_session.go.  One in-memory map from a conversation to   *)
(* the session of the agent run that is registered for it.  Every operator *)
(* below is one critical section of the manager's mutex; the threads that  *)
(* call them are in module AgentRun.                                       *)
(***************************************************************************)

CONSTANTS
  Conv,        \* conversations
  Run,         \* invocations of runAgent
  Interrupt,   \* interrupts a run may raise, and the answers given to them
  NoConv,      \* uuid.Nil, the parent of a run nobody spawned
  NoRun,       \* the owner of a placeholder session
  NoParams,    \* nil resume parameters
  NoSession    \* the map has no entry

VARIABLES
  sessions,    \* the map, with NoSession for a missing key
  closed       \* the runs whose session's done channel is closed

sessionVars == <<sessions, closed>>

\* A session object.  Its done channel is identified by the run it was made
\* for; a placeholder's channel is made closed and belongs to NoRun.
Session == [owner   : Run \cup {NoRun},
            running : BOOLEAN,
            ckpt    : BOOLEAN,
            params  : Interrupt \cup {NoParams},
            parent  : Conv \cup {NoConv}]

ASSUME SessionConstants ==
  /\ NoRun \notin Run
  /\ NoParams \notin Interrupt
  /\ NoConv \notin Conv
  /\ NoSession \notin Session

SessionTypeOK ==
  /\ sessions \in [Conv -> Session \cup {NoSession}]
  /\ closed \subseteq Run

SessionInit ==
  /\ sessions = [c \in Conv |-> NoSession]
  /\ closed = {}

-----------------------------------------------------------------------------
(* Reads, under the read lock.                                             *)

HasSession(c) == sessions[c] # NoSession

IsRunning(c) == HasSession(c) /\ sessions[c].running

GetCheckpointID(c) == HasSession(c) /\ sessions[c].ckpt

GetResumeParams(c) == IF HasSession(c) THEN sessions[c].params ELSE NoParams

ChildrenOf(c) == {k \in Conv : HasSession(k) /\ sessions[k].parent = c}

OwnerOf(c) == IF HasSession(c) THEN sessions[c].owner ELSE NoRun

-----------------------------------------------------------------------------
(* Writes, under the write lock.  Each one leaves a missing key alone      *)
(* unless it says otherwise.                                               *)

\* Mutant: TryStart replaces the session of a running agent.
RegisterAnyway(c, r, parent) ==
  /\ sessions' = [sessions EXCEPT ![c] =
                    [owner |-> r, running |-> TRUE,
                     ckpt |-> GetCheckpointID(c), params |-> GetResumeParams(c),
                     parent |-> parent]]
  /\ UNCHANGED closed

\* Successful TryStart: whatever entry was there is replaced, even that of a
\* stopped run that has not drained yet; checkpoint and parameters survive.
Register(c, r, parent) ==
  /\ ~IsRunning(c)
  /\ sessions' = [sessions EXCEPT ![c] =
                    [owner |-> r, running |-> TRUE,
                     ckpt |-> GetCheckpointID(c), params |-> GetResumeParams(c),
                     parent |-> parent]]
  /\ UNCHANGED closed

Amend(c, s) ==
  /\ sessions' = IF HasSession(c) THEN [sessions EXCEPT ![c] = s] ELSE sessions
  /\ UNCHANGED closed

SetCheckpointID(c) == Amend(c, [sessions[c] EXCEPT !.ckpt = TRUE])

ClearCheckpointID(c) == Amend(c, [sessions[c] EXCEPT !.ckpt = FALSE])

ClearResumeParams(c) == Amend(c, [sessions[c] EXCEPT !.params = NoParams])

\* The critical section of Stop: lines 140-149.
MarkStopped(c) == Amend(c, [sessions[c] EXCEPT !.running = FALSE])

\* Creates the placeholder when no entry is there.
SetResumeParams(c, i) ==
  /\ sessions' = [sessions EXCEPT ![c] =
                    IF HasSession(c) THEN [@ EXCEPT !.params = i]
                    ELSE [owner |-> NoRun, running |-> FALSE, ckpt |-> FALSE,
                          params |-> i, parent |-> NoConv]]
  /\ UNCHANGED closed

\* Mutant: Done also records the owner of a missing session.
DoneUnchecked(c) ==
  /\ closed' = closed \cup {OwnerOf(c)}
  /\ UNCHANGED sessions

\* Closes the channel of whichever session is in the map now.
Done(c) ==
  /\ closed' = closed \cup ({OwnerOf(c)} \cap Run)
  /\ UNCHANGED sessions

\* Removes whichever session is in the map now.
Cleanup(c) ==
  /\ sessions' = [sessions EXCEPT ![c] = NoSession]
  /\ UNCHANGED closed

=============================================================================
