---------------------------- MODULE MessageLife ----------------------------
(***************************************************************************)
(* What a run promises of its messages to those who see them, in the       *)
(* database or on a client: a message gets a number once, has one end, and *)
(* nothing is written or said of it afterwards.  Writes may be lost, so    *)
(* that a message may have no row, or its end may be in the database only  *)
(* or be told to the clients only.                                         *)
(***************************************************************************)
EXTENDS Naturals

CONSTANT Msg   \* numbers of messages

VARIABLES
  made,   \* messages numbered so far
  row,    \* their rows: "absent", "open", "stop" (completed) or "error" (stopped)
  told    \* how often the clients were told that a message is finished

lifeVars == <<made, row, told>>

LifeInit ==
  /\ made = 0
  /\ row = [m \in Msg |-> "absent"]
  /\ told = [m \in Msg |-> 0]

\* Nobody has seen the end of these.
Unfinished == {m \in Msg : m <= made /\ row[m] \in {"absent", "open"} /\ told[m] = 0}
Stored     == {m \in Unfinished : row[m] = "open"}

\* A message takes the next number; what is made of it in one step may already
\* be complete.
Begin(state, tells) ==
  /\ made + 1 \in Msg
  /\ made' = made + 1
  /\ row' = [row EXCEPT ![made + 1] = state]
  /\ told' = [told EXCEPT ![made + 1] = tells]

\* Messages are completed: the rows of `written`, and the clients hear of `heard`.
Complete(written, heard) ==
  /\ row' = [m \in Msg |-> IF m \in written THEN "stop" ELSE row[m]]
  /\ told' = [m \in Msg |-> IF m \in heard THEN 1 ELSE told[m]]
  /\ UNCHANGED made

\* Messages are marked as stopped; the clients see that in the row.
MarkAll(stopped) ==
  /\ row' = [m \in Msg |-> IF m \in stopped THEN "error" ELSE row[m]]
  /\ UNCHANGED <<made, told>>

\* A tool's result completes the message of the tool and the assistant's; a stop
\* marks any number.
LifeNext ==
  \/ \E state \in {"absent", "open"} : Begin(state, 0)
  \/ \E tells \in {0, 1} : Begin("stop", tells)
  \/ \E l, m \in Unfinished :
       \E written \in SUBSET ({l, m} \cap Stored), heard \in SUBSET {l, m} :
         Complete(written, heard)
  \/ \E stopped \in SUBSET Stored : MarkAll(stopped)

LifeSpec == LifeInit /\ [][LifeNext]_lifeVars

=============================================================================
