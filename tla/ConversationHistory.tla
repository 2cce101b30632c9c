------------------------ MODULE ConversationHistory ------------------------
(***************************************************************************)
(* The conversations of one user and what an agent is shown of them:       *)
(* messages, their compression into summaries behind the window min_seq,   *)
(* sub-agents and what they report, branches, deletions, and the tree the  *)
(* client lists (service/conversation.go, compression.go,                  *)
(* chat.subagent.go, chat.internal.go, convert/convert.go).                *)
(*                                                                         *)
(* A transaction is one action; so is a read.  What a message says is its  *)
(* name; a summary says what its compression read.  Numbers come from a    *)
(* counter in Redis that may be set back.                                  *)
(***************************************************************************)
EXTENDS Naturals, FiniteSetsExt

CONSTANTS
  Conv,       \* conversations
  First,      \* the one that exists at the start
  NoConv,     \* no parent
  Post,       \* messages of users, agents and scheduled tasks
  Compaction, \* compressions
  Sync,       \* those that follow the summarization middleware of a run
  Branch,     \* requests to branch
  MaxCalls,   \* calls of the compression tool in one compression
  Listed,     \* conversations of a list with any parents
  Restored,   \* what the counter may be set back to
  ResetLimit, \* highest number after which it still may be
  Faults      \* what may fail: "number", "store", "model", "context"

ASSUME HistoryAssumption ==
  /\ First \in Conv /\ NoConv \notin Conv
  /\ Post \cap Conv = {}
  /\ Sync \subseteq Compaction
  /\ MaxCalls \in Nat \ {0} /\ Restored \subseteq Nat /\ ResetLimit \in Nat
  /\ Faults \subseteq {"number", "store", "model", "context"}

ASSUME TreeAssumption == IsFiniteSet(Listed) /\ NoConv \notin Listed

\* A sub-agent's prompt and report, and the message that is there at the start, are
\* named after their conversation.
Said == Post \cup Conv

VARIABLES
  counter,  \* the user's sequence counter, in Redis
  peak,     \* the highest number it has given out (history)
  twice,    \* whether it has given out a number twice (history)
  conv,     \* conversations: state, parent, minSeq, latest (LatestMessageSeq)
  rows,     \* messages: conv, seq, says, summary
  post,     \* progress of each message
  agent,    \* sub-agents: phase, and the conversation that asked
  squeeze,  \* progress of each compression
  branch    \* progress of each branch request

numberVars == <<counter, peak, twice>>
vars == <<numberVars, conv, rows, post, agent, squeeze, branch>>

NewConv(parent) == [state |-> "open", parent |-> parent, minSeq |-> 0, latest |-> 0]
NoRow(state) == [NewConv(NoConv) EXCEPT !.state = state]
\* A handler keeps nothing before it starts and after it returns.
Handler(pc) == [pc |-> pc, conv |-> First, seq |-> 0]

Message(c, seq, says) == [conv |-> c, seq |-> seq, says |-> says, summary |-> FALSE]
Summary(c, seq, says) == [conv |-> c, seq |-> seq, says |-> says, summary |-> TRUE]

\* The first conversation took the first number, its message the second; an
\* earlier sub-agent may have reported to it.
Init ==
  /\ counter = 2 /\ peak = 2 /\ twice = FALSE
  /\ conv = [c \in Conv |-> IF c = First THEN NewConv(NoConv)
                            ELSE NoRow("none")]
  /\ \E reports \in SUBSET {Message(First, 0, {})} :
       rows = {Message(First, 2, {First})} \cup reports
  /\ post = [p \in Post |-> Handler("new")]
  /\ agent = [c \in Conv |-> [phase |-> "none", boss |-> NoConv]]
  /\ squeeze = [k \in Compaction |->
                  [pc |-> "new", conv |-> First, min |-> 0, read |-> {},
                   seen |-> {}, calls |-> 0, seq |-> 0, hides |-> 0, lost |-> FALSE]]
  /\ branch = [b \in Branch |-> [pc |-> "new", read |-> {}]]

Open(c) == conv[c].state = "open"
RowsOf(c) == {r \in rows : r.conv = c}

\* Mutant: no unique index.
InsertableTwice(c, seq) == Open(c)

\* A row needs its conversation (foreign key) and a sequence number of its own in
\* it (unique index idx_conv_seq).
Insertable(c, seq) == Open(c) /\ \A r \in RowsOf(c) : r.seq # seq

\* What an agent that loads conversation c is shown.
Window(c) == {r \in RowsOf(c) : r.seq >= conv[c].minSeq}
Context(c) == UNION {r.says : r \in Window(c)}

-----------------------------------------------------------------------------
(* Numbers: NextSeq is Redis' INCR.                                        *)

\* The numbers after the counter, up to n, are given out, for the first time or
\* once more.
Takes(n) ==
  /\ counter' = n
  /\ peak' = IF n > peak THEN n ELSE peak
  /\ twice' = (twice \/ (counter < n /\ counter < peak))

\* Redis loses the counter (0), or a connection whose GET failed or found it
\* lost sets it to the newest update stored, while others hold numbers.
SetBack(n) ==
  /\ peak <= ResetLimit
  /\ n <= peak
  /\ counter' = n
  /\ UNCHANGED <<peak, twice, conv, rows, post, agent, squeeze, branch>>

-----------------------------------------------------------------------------
(* Conversations.                                                          *)

CreateConversation(c, parent) ==
  /\ conv[c].state = "none"
  /\ parent # NoConv => Open(parent)
  /\ Takes(counter + 1)
  /\ conv' = [conv EXCEPT ![c] = NewConv(parent)]
  /\ UNCHANGED <<rows, post, agent, squeeze, branch>>

\* The rows go with the conversation, its children lose their parent.
DeleteConversation(c) ==
  /\ Open(c)
  /\ Takes(counter + 1)
  /\ conv' = [x \in Conv |->
                IF x = c THEN NoRow("deleted")
                ELSE IF conv[x].parent = c THEN [conv[x] EXCEPT !.parent = NoConv] ELSE conv[x]]
  /\ rows' = rows \ RowsOf(c)
  /\ UNCHANGED <<post, agent, squeeze, branch>>

\* BranchConversation: the conversation and its messages up to seq are read ...
ReadForBranch(b, c, seq) ==
  LET copied == {r \in RowsOf(c) : r.seq <= seq}
  IN  /\ branch[b].pc = "new"
      /\ Open(c)
      /\ seq <= conv[c].latest
      /\ copied # {}
      /\ branch' = [branch EXCEPT ![b] = [pc |-> "read", read |-> copied]]
      /\ UNCHANGED <<numberVars, conv, rows, post, agent, squeeze>>

\* ... and copied to a new conversation, numbered from 1 in the order they had.
Place(r, read) == Cardinality({s \in read : s.seq <= r.seq})

CommitBranch(b, c) ==
  LET read == branch[b].read
  IN  /\ branch[b].pc = "read"
      /\ conv[c].state = "none"
      /\ Takes(counter + 1)
      /\ conv' = [conv EXCEPT ![c] = [NewConv(NoConv) EXCEPT !.latest = Cardinality(read)]]
      /\ rows' = rows \cup {[r EXCEPT !.conv = c, !.seq = Place(r, read)] : r \in read}
      /\ branch' = [branch EXCEPT ![b] = [pc |-> "done", read |-> {}]]
      /\ UNCHANGED <<post, agent, squeeze>>

-----------------------------------------------------------------------------
(* Messages.                                                               *)

\* Mutant: the number after the conversation's last message.
NumberFromRows(p, c) ==
  /\ post[p].pc = "new"
  /\ Open(c)
  /\ Takes(counter + 1)
  /\ post' = [post EXCEPT ![p] = [pc |-> "numbered", conv |-> c, seq |-> Cardinality(RowsOf(c)) + 1]]
  /\ UNCHANGED <<conv, rows, agent, squeeze, branch>>

\* sendMessageWithRole and insertMessage number a message before they store it.
Number(p, c) ==
  /\ post[p].pc = "new"
  /\ Open(c)
  /\ Takes(counter + 1)
  /\ post' = [post EXCEPT ![p] = [pc |-> "numbered", conv |-> c, seq |-> counter + 1]]
  /\ UNCHANGED <<conv, rows, agent, squeeze, branch>>

\* What a user says is stored at once ...
Store(p) ==
  LET c == post[p].conv  seq == post[p].seq
  IN  /\ post[p].pc = "numbered"
      /\ Insertable(c, seq)
      /\ rows' = rows \cup {Message(c, seq, {p})}
      /\ post' = [post EXCEPT ![p] = Handler("stored")]
      /\ UNCHANGED <<numberVars, conv, agent, squeeze, branch>>

\* ... what an agent says is inserted without content ...
StoreEmpty(p) ==
  LET c == post[p].conv  seq == post[p].seq
  IN  /\ post[p].pc = "numbered"
      /\ Insertable(c, seq)
      /\ rows' = rows \cup {Message(c, seq, {})}
      /\ post' = [post EXCEPT ![p].pc = "empty"]
      /\ UNCHANGED <<numberVars, conv, agent, squeeze, branch>>

\* ... and filled by updates while it streams, if the row is still there; a
\* number is taken to tell that it is done.
Fill(p) ==
  LET c == post[p].conv  seq == post[p].seq
      blank == Message(c, seq, {})
  IN  /\ post[p].pc = "empty"
      /\ rows' = IF blank \in rows THEN (rows \ {blank}) \cup {Message(c, seq, {p})} ELSE rows
      /\ Takes(counter + 1)
      /\ post' = [post EXCEPT ![p] = Handler("stored")]
      /\ UNCHANGED <<conv, agent, squeeze, branch>>

\* An update that fails leaves the row empty.
StoreFails(p) ==
  /\ post[p].pc \in {"numbered", "empty"}
  /\ "store" \in Faults \/ (post[p].pc = "numbered" /\ ~Insertable(post[p].conv, post[p].seq))
  /\ post' = [post EXCEPT ![p] = Handler("failed")]
  /\ UNCHANGED <<numberVars, conv, rows, agent, squeeze, branch>>

-----------------------------------------------------------------------------
(* Sub-agents.                                                             *)

\* The sub_agent tool, called by an agent that works on a message, makes the
\* conversation and starts RunSubAgent.
Spawn(c, parent) ==
  /\ conv[c].state = "none"
  /\ RowsOf(parent) # {}
  /\ conv' = [conv EXCEPT ![c] = NewConv(parent)]
  /\ agent' = [agent EXCEPT ![c] = [phase |-> "spawned", boss |-> parent]]
  /\ UNCHANGED <<numberVars, rows, post, squeeze, branch>>

\* RunSubAgent announces the conversation and stores the prompt; without a
\* number the prompt takes 1.
Prompt(c, announced, numbered) ==
  LET next == counter + (IF announced THEN 1 ELSE 0)
      seq  == IF numbered THEN next + 1 ELSE 1
  IN  /\ agent[c].phase = "spawned"
      /\ (announced /\ numbered) \/ "number" \in Faults
      /\ Insertable(c, seq)
      /\ Takes(IF numbered THEN seq ELSE next)
      /\ rows' = rows \cup {Message(c, seq, {c})}
      /\ agent' = [agent EXCEPT ![c].phase = "prompted"]
      /\ UNCHANGED <<conv, post, squeeze, branch>>

\* writeSubAgentResultToParent, of a sub-agent that ended or that could not
\* start: the row gets no number, so 0.  It uses the context of the tool call,
\* which may be over.
Report(c, live) ==
  LET boss == agent[c].boss
      told == live /\ Insertable(boss, 0)
  IN  /\ agent[c].phase \in {"spawned", "prompted"}
      /\ live \/ "context" \in Faults
      /\ agent' = [agent EXCEPT ![c].phase = "reported"]
      /\ rows' = IF told THEN rows \cup {Message(boss, 0, {c})} ELSE rows
      /\ Takes(IF told THEN counter + 1 ELSE counter)
      /\ UNCHANGED <<conv, post, squeeze, branch>>

-----------------------------------------------------------------------------
(* Compression: CompressConversation, and SyncSummarizationToDB (Sync).    *)

StartCompaction(k, c) ==
  /\ squeeze[k].pc = "new"
  /\ Open(c)
  /\ squeeze' = [squeeze EXCEPT
       ![k] = [@ EXCEPT !.pc = "loading", !.conv = c, !.min = conv[c].minSeq]]
  /\ UNCHANGED <<numberVars, conv, rows, post, agent, branch>>

\* Mutant: earlier summaries are not read.
LoadWithoutSummaries(k) ==
  LET c      == squeeze[k].conv
      loaded == {r \in RowsOf(c) : r.seq >= squeeze[k].min /\ ~r.summary}
  IN  /\ squeeze[k].pc = "loading"
      /\ squeeze' = [squeeze EXCEPT ![k] = [@ EXCEPT
           !.pc = IF loaded = {} THEN "done" ELSE "loaded",
           !.read = UNION {r.says : r \in loaded},
           !.seen = UNION {r.says : r \in RowsOf(c)}]]
      /\ UNCHANGED <<numberVars, conv, rows, post, agent, branch>>

LoadMessages(k) ==
  LET c      == squeeze[k].conv
      loaded == {r \in RowsOf(c) : r.seq >= squeeze[k].min}
  IN  /\ squeeze[k].pc = "loading"
      /\ squeeze' = [squeeze EXCEPT ![k] = [@ EXCEPT
           !.pc = IF loaded = {} THEN "done" ELSE "loaded",
           !.read = UNION {r.says : r \in loaded},
           !.seen = UNION {r.says : r \in RowsOf(c)}]]
      /\ UNCHANGED <<numberVars, conv, rows, post, agent, branch>>

Later(m, n) == IF m > n THEN m ELSE n

\* Two numbers: the update's, then the summary's.
NumberSummary(k) ==
  /\ squeeze[k].pc = "loaded"
  /\ squeeze[k].calls < (IF k \in Sync THEN 1 ELSE MaxCalls)
  /\ Takes(counter + 2)
  /\ squeeze' = [squeeze EXCEPT
       ![k] = [@ EXCEPT !.pc = "numbered", !.seq = counter + 2, !.calls = squeeze[k].calls + 1]]
  /\ UNCHANGED <<conv, rows, post, agent, branch>>

\* Mutant: the window starts after the last message.
CommitAfterLast(k, written) ==
  LET c   == squeeze[k].conv
      seq == squeeze[k].seq
  IN  /\ squeeze[k].pc = "numbered"
      /\ written \in {squeeze[k].read} \cup (IF k \in Sync /\ "model" \in Faults THEN {{}} ELSE {})
      /\ Insertable(c, seq)
      /\ rows' = rows \cup {Summary(c, seq, written)}
      /\ conv' = [conv EXCEPT ![c].minSeq = 1 + Max({r.seq : r \in RowsOf(c)})]
      /\ squeeze' = [squeeze EXCEPT ![k] = [@ EXCEPT
           !.pc = "loaded", !.hides = Later(seq, squeeze[k].hides), !.lost = squeeze[k].lost \/ written # squeeze[k].read]]
      /\ UNCHANGED <<numberVars, post, agent, branch>>

\* The summary is stored and the window starts at it.  If the model fails,
\* SyncSummarizationToDB stores a sentence that says nothing of the messages;
\* the agent of CompressConversation may call the tool once more.
CommitSummary(k, written) ==
  LET c   == squeeze[k].conv
      seq == squeeze[k].seq
  IN  /\ squeeze[k].pc = "numbered"
      /\ written \in {squeeze[k].read} \cup (IF k \in Sync /\ "model" \in Faults THEN {{}} ELSE {})
      /\ Insertable(c, seq)
      /\ rows' = rows \cup {Summary(c, seq, written)}
      /\ conv' = [conv EXCEPT ![c].minSeq = seq]
      /\ squeeze' = [squeeze EXCEPT ![k] = [@ EXCEPT
           !.pc = "loaded", !.hides = Later(seq, squeeze[k].hides), !.lost = squeeze[k].lost \/ written # squeeze[k].read]]
      /\ UNCHANGED <<numberVars, post, agent, branch>>

CommitFails(k) ==
  /\ squeeze[k].pc = "numbered"
  /\ "store" \in Faults \/ ~Insertable(squeeze[k].conv, squeeze[k].seq)
  /\ squeeze' = [squeeze EXCEPT ![k].pc = "done"]
  /\ UNCHANGED <<numberVars, conv, rows, post, agent, branch>>

-----------------------------------------------------------------------------

ConversationStep ==
  \/ \E c \in Conv, parent \in Conv \cup {NoConv} : CreateConversation(c, parent)
  \/ \E c \in Conv : DeleteConversation(c)
  \/ \E b \in Branch, c \in Conv, seq \in 0..peak : ReadForBranch(b, c, seq)
  \/ \E b \in Branch, c \in Conv : CommitBranch(b, c)

PostStep(p) == (\E c \in Conv : Number(p, c)) \/ Store(p) \/ StoreEmpty(p) \/ Fill(p)
               \/ StoreFails(p)

SubAgentStep(c) ==
  \/ \E parent \in Conv : Spawn(c, parent)
  \/ \E announced, numbered \in BOOLEAN : Prompt(c, announced, numbered)
  \/ \E live \in BOOLEAN : Report(c, live)

CompactionStep(k) ==
  \/ \E c \in Conv : StartCompaction(k, c)
  \/ LoadMessages(k) \/ NumberSummary(k) \/ CommitFails(k)
  \/ \E written \in {squeeze[k].read, {}} : CommitSummary(k, written)

Next ==
  \/ ConversationStep
  \/ \E n \in Restored : SetBack(n)
  \/ \E p \in Post : PostStep(p)
  \/ \E c \in Conv : SubAgentStep(c)
  \/ \E k \in Compaction : CompactionStep(k)

Spec == Init /\ [][Next]_vars

-----------------------------------------------------------------------------
(* BuildConversationTree of a list of conversations, whose parents are up.  *)

Parent(c, up, list) == IF c \in list /\ up[c] \in list THEN up[c] ELSE NoConv

\* Above(c, up, list)[n] is n steps above c.
Above(c, up, list) ==
  LET above[n \in 0..Cardinality(list)] ==
        IF n = 0 THEN c ELSE Parent(above[n - 1], up, list)
  IN  above

\* hasAncestor: target is c or above it.
HasAncestor(c, target, up, list) ==
  \E n \in 0..Cardinality(list) : Above(c, up, list)[n] = target

\* c becomes a child, unless that closed a cycle.
Linked(c, up, list) ==
  /\ Parent(c, up, list) # NoConv
  /\ ~HasAncestor(Parent(c, up, list), c, up, list)

\* Mutant: a root has no parent at all.
RootsWithoutParent(up, list) == {c \in list : up[c] = NoConv}

Roots(up, list) == {c \in list : ~Linked(c, up, list)}

\* The conversations that convertTreeEntry puts n levels below a root.
Levels(up, list) ==
  LET level[n \in 0..Cardinality(list)] ==
        IF n = 0 THEN Roots(up, list)
        ELSE {c \in list : Linked(c, up, list) /\ Parent(c, up, list) \in level[n - 1]}
  IN  level

-----------------------------------------------------------------------------
(* Properties.                                                             *)

RowType == [conv : Conv, seq : Nat, says : SUBSET Said, summary : BOOLEAN]
PostType == [pc : {"new", "numbered", "empty", "stored", "failed"}, conv : Conv, seq : Nat]
CompactionType ==
  [pc : {"new", "loading", "loaded", "numbered", "done"}, conv : Conv, min : Nat,
   read : SUBSET Said, seen : SUBSET Said, calls : 0..MaxCalls, seq : Nat, hides : Nat,
   lost : BOOLEAN]

\* Types; every row belongs to a conversation that exists and has a sequence
\* number of its own in it.
TypeOK ==
  /\ counter \in Nat /\ peak \in Nat /\ twice \in BOOLEAN
  /\ conv \in [Conv -> [state : {"none", "open", "deleted"}, parent : Conv \cup {NoConv},
                        minSeq : Nat, latest : Nat]]
  /\ \A r \in rows : /\ r \in RowType
                     /\ Open(r.conv)
                     /\ \A s \in rows : s.conv = r.conv /\ s.seq = r.seq => s = r
  /\ post \in [Post -> PostType]
  /\ agent \in [Conv -> [phase : {"none", "spawned", "prompted", "reported"},
                         boss : Conv \cup {NoConv}]]
  /\ squeeze \in [Compaction -> CompactionType]
  /\ branch \in [Branch -> [pc : {"new", "read", "done"}, read : SUBSET RowType]]

\* What a message says leaves the context of its conversation only if a
\* compression stored a summary with a higher number and had loaded the
\* conversation before the message said it (was stored, or filled), or had no
\* model to write its summary: a chain of summaries, also of compressions that
\* overlap, keeps everything they read.
ForgottenIsExplained ==
  \A r \in rows : ~r.summary =>
    \/ r.says \subseteq Context(r.conv)
    \/ \E k \in Compaction :
         /\ squeeze[k].conv = r.conv
         /\ squeeze[k].hides > r.seq
         /\ squeeze[k].lost \/ ~(r.says \subseteq squeeze[k].seen)

\* Until the counter was set back and gave out a number twice, which "restart
\* recovery must" prevent (docs/DATABASE_POSTGRESQL.md:222), a number taken for a
\* message or a summary is still free when it is stored, in conversations with
\* branched, numberless and self-numbered rows too.  (Reports of sub-agents, which
\* take no number, meet the unique index at any time.)
NumberIsFree == twice = FALSE =>
  /\ \A p \in Post : post[p].pc = "numbered" =>
       \A r \in RowsOf(post[p].conv) : r.seq # post[p].seq
  /\ \A k \in Compaction : squeeze[k].pc = "numbered" =>
       \A r \in RowsOf(squeeze[k].conv) : r.seq # squeeze[k].seq

\* "included in future context loads (seq >= min_seq)", SyncSummarizationToDB:
\* the window of a compressed conversation starts with a summary, whichever of
\* several compressions was stored last.
SummaryOpensWindow ==
  \A c \in Conv : Open(c) /\ conv[c].minSeq > 0 =>
    \E r \in Window(c) : r.summary /\ r.seq = conv[c].minSeq

OnCycle(c, up, list) == \E S \in SUBSET list : c \in S /\ {up[x] : x \in S} = S

\* Each conversation is shown once, at the top if its parent is not listed or is
\* its own descendant, and below its parent otherwise.
RightTree(up, list) ==
  LET levels == Levels(up, list)
  IN  /\ \A c \in list : \E n \in DOMAIN levels :
           c \in levels[n] /\ \A o \in DOMAIN levels \ {n} : c \notin levels[o]
      /\ levels[0] = {c \in list : up[c] \notin list \/ OnCycle(c, up, list)}
      /\ \A n \in DOMAIN levels \ {0} : {up[c] : c \in levels[n]} \subseteq levels[n - 1]

EveryTreeIsRight ==
  \A up \in [Listed -> Listed \cup {NoConv}], list \in SUBSET Listed : RightTree(up, list)

\* Every list of conversations, one with parents deleted or in another project
\* too, is shown in full: the tree of BuildConversationTree agrees with its
\* definition on the lists of a state, and on every assignment of parents to the
\* conversations of Listed, cycles included.
TreeShowsEach ==
  /\ EveryTreeIsRight
  /\ \A list \in SUBSET {c \in Conv : Open(c)} :
       RightTree([c \in Conv |-> conv[c].parent], list)

=============================================================================
