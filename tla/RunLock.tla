------------------------------- MODULE RunLock -------------------------------
(***************************************************************************)
(* What the session registry promises the agent runs: a lock for each      *)
(* conversation.  A run works only while it holds the lock of its          *)
(* conversation, and the lock is given up only when its holder has         *)
(* finished working.                                                       *)
(***************************************************************************)

CONSTANTS Conv, Run, NoRun

VARIABLES
  holder,    \* holder[c]: the run registered for conversation c, or NoRun
  working    \* the runs whose agent is at work

lockVars == <<holder, working>>

LockInit ==
  /\ holder = [c \in Conv |-> NoRun]
  /\ working = {}

Acquire(c, r) ==
  /\ holder[c] = NoRun
  /\ r \notin working
  /\ holder' = [holder EXCEPT ![c] = r]
  /\ UNCHANGED working

Begin(c) ==
  /\ holder[c] \in Run
  /\ working' = working \cup {holder[c]}
  /\ UNCHANGED holder

End(r) ==
  /\ working' = working \ {r}
  /\ UNCHANGED holder

Release(c) ==
  /\ holder[c] \notin working
  /\ holder' = [holder EXCEPT ![c] = NoRun]
  /\ UNCHANGED working

LockNext ==
  \/ \E c \in Conv : Begin(c) \/ Release(c)
  \/ \E c \in Conv, r \in Run : Acquire(c, r)
  \/ \E r \in Run : End(r)

LockSpec == LockInit /\ [][LockNext]_lockVars

=============================================================================
