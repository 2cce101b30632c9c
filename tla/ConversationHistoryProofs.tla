---------------------- MODULE ConversationHistoryProofs ----------------------
(***************************************************************************)
(* Proofs about conversations and what agents are shown of them, for any   *)
(* conversations, messages, compressions and branches, whatever fails; and *)
(* about the tree of any finite list of conversations, with any parents.   *)
(***************************************************************************)
EXTENDS ConversationHistory, FiniteSetTheorems, WellFoundedInduction, TLAPS

-----------------------------------------------------------------------------
(* The inductive invariant.                                                *)

\* As long as every number was given out once, none is beyond the highest, and 0
\* and 1 are never given out.
Counted ==
  /\ 2 <= peak /\ counter <= peak /\ IsFiniteSet(rows)
  /\ twice = FALSE =>
       /\ \A r \in rows : r.seq <= peak
       /\ \A p \in Post : post[p].pc = "numbered" => post[p].seq \in 2 .. peak
       /\ \A k \in Compaction : squeeze[k].pc = "numbered" => squeeze[k].seq \in 2 .. peak

\* A handler is about a conversation that exists or existed.
Known ==
  /\ conv[First].state # "none"
  /\ \A p \in Post : conv[post[p].conv].state # "none"
  /\ \A k \in Compaction : conv[squeeze[k].conv].state # "none"
  /\ \A c \in Conv : agent[c].phase # "none" =>
       /\ conv[c].state # "none" /\ agent[c].boss \in Conv \ {c}
       /\ conv[agent[c].boss].state # "none"

\* No two handlers hold the same number, as long as it was given out once.
Apart == twice = FALSE =>
  /\ \A p, q \in Post : p # q /\ post[p].pc = "numbered" /\ post[q].pc = "numbered"
       => post[p].seq # post[q].seq
  /\ \A j, k \in Compaction : j # k /\ squeeze[j].pc = "numbered" /\ squeeze[k].pc = "numbered"
       => squeeze[j].seq # squeeze[k].seq
  /\ \A p \in Post, k \in Compaction :
       post[p].pc = "numbered" /\ squeeze[k].pc = "numbered" => post[p].seq # squeeze[k].seq

\* What a branch has read came from one conversation.
Copied ==
  \A b \in Branch :
    /\ IsFiniteSet(branch[b].read)
    /\ twice = FALSE => \A r \in branch[b].read : r.seq <= peak
    /\ \A r, s \in branch[b].read : r.seq = s.seq => r = s

\* What is not said yet, anywhere or in a conversation.
Unsaid == {p \in Post : post[p].pc \in {"new", "numbered", "empty"}}
          \cup {c \in Conv : conv[c].state = "none" \/ agent[c].phase = "spawned"}

SaidIn(R) == UNION {r.says : r \in R}
Knows(k) == squeeze[k].read \cup squeeze[k].seen

Fresh ==
  /\ \A x \in Unsaid :
       /\ \A r \in rows : x \notin r.says
       /\ \A b \in Branch : \A r \in branch[b].read : x \notin r.says
       /\ \A k \in Compaction : x \notin Knows(k)
  /\ \A c \in Conv : agent[c].phase \in {"spawned", "prompted"} =>
       /\ \A r \in RowsOf(agent[c].boss) : c \notin r.says
       /\ \A k \in Compaction : squeeze[k].conv = agent[c].boss => c \notin Knows(k)

\* A compression k hid what r says, and may.
Explains(k, r) ==
  /\ squeeze[k].conv = r.conv /\ squeeze[k].hides > r.seq
  /\ squeeze[k].lost = TRUE \/ ~(r.says \subseteq squeeze[k].seen)
Explained(r) == \E k \in Compaction : Explains(k, r)

\* The rows a compression that starts its window at m loads.
From(c, m) == {r \in RowsOf(c) : r.seq >= m}

Kept == \A r \in rows : r.summary = FALSE => r.says \subseteq Context(r.conv) \/ Explained(r)

Loads ==
  \A k \in Compaction : squeeze[k].pc = "loading" =>
    \A r \in RowsOf(squeeze[k].conv) : r.summary = FALSE =>
      Explained(r) \/ r.says \subseteq SaidIn(From(squeeze[k].conv, squeeze[k].min))

Loaded ==
  \A k \in Compaction : squeeze[k].pc \in {"loaded", "numbered"} =>
    \A r \in RowsOf(squeeze[k].conv) : r.summary = FALSE =>
      Explained(r) \/ ~(r.says \subseteq squeeze[k].seen) \/ r.says \subseteq squeeze[k].read

\* A window starts where a compression that has loaded moved it.
Hides(c, m) == \E k \in Compaction : squeeze[k].conv = c /\ squeeze[k].hides >= m
Hidden ==
  /\ \A k \in Compaction : squeeze[k].pc \in {"new", "loading"} =>
       squeeze[k].hides = 0 /\ Knows(k) = {}
  /\ \A c \in Conv : Open(c) /\ conv[c].minSeq > 0 => Hides(c, conv[c].minSeq)
  /\ \A k \in Compaction : squeeze[k].pc = "loading" /\ squeeze[k].min > 0 =>
       Hides(squeeze[k].conv, squeeze[k].min)

Inv ==
  /\ TypeOK /\ Counted /\ Known /\ Apart /\ Copied /\ Fresh /\ Kept /\ Loads /\ Loaded
  /\ Hidden /\ NumberIsFree /\ SummaryOpensWindow

-----------------------------------------------------------------------------
(* What a step that leaves the compressions alone has to show.             *)

USE HistoryAssumption DEF numberVars

\* A row that says at least what r said took the place of r.
Lives(r) ==
  \E s \in rows' : /\ s.conv = r.conv /\ s.seq = r.seq /\ s.summary = r.summary
                   /\ r.says \subseteq s.says

\* The rows of a conversation that stays open stay or grow, with its window.
GrowingWindows ==
  \A c \in Conv : Open(c)' =>
    \/ conv'[c].minSeq = 0 /\ RowsOf(c) = {}
    \/ Open(c) /\ conv'[c].minSeq = conv[c].minSeq /\ \A r \in RowsOf(c) : Lives(r)

\* New rows say nothing, or what no compression of their conversation has seen.
News ==
  \A r \in rows' : r \in rows \/ r.says = {} \/
    \A k \in Compaction : squeeze[k].conv = r.conv => ~(r.says \subseteq squeeze[k].seen)

LEMMA WindowsGrow ==
  ASSUME TypeOK, TypeOK', GrowingWindows, News, UNCHANGED squeeze,
         Kept, Loads, Loaded, Hidden, SummaryOpensWindow
  PROVE  Kept' /\ Loads' /\ Loaded' /\ Hidden' /\ SummaryOpensWindow'
  <1>1. ASSUME NEW r \in rows, r \in rows'
        PROVE  /\ r.conv \in Conv /\ \A t \in RowsOf(r.conv) : Lives(t)
               /\ Open(r.conv) /\ conv'[r.conv].minSeq = conv[r.conv].minSeq
    <2>1. r.conv \in Conv /\ Open(r.conv)' /\ r \in RowsOf(r.conv)
      BY <1>1 DEF TypeOK, RowType, RowsOf
    <2> QED
      BY <2>1 DEF GrowingWindows
  <1>2. \A r : Explained(r) => Explained(r)'
    BY DEF Explained, Explains
  <1>3. Hidden'
    <2>1. \A c, m : Hides(c, m) => Hides(c, m)'
      BY DEF Hides
    <2>2. ASSUME NEW c \in Conv, Open(c)', conv'[c].minSeq > 0 PROVE Hides(c, conv'[c].minSeq)
      BY <2>2 DEF GrowingWindows, Hidden
    <2> QED
      BY <2>1, <2>2 DEF Hidden, Knows, Hides
  <1>4. ASSUME NEW r \in rows', r \notin rows, r.says # {}, NEW m \in Nat, m > r.seq,
               Hides(r.conv, m)
        PROVE  Explained(r)'
    <2>1. PICK k \in Compaction : squeeze[k].conv = r.conv /\ squeeze[k].hides >= m
      BY <1>4 DEF Hides
    <2>2. r.seq \in Nat /\ squeeze[k].hides \in Nat
      BY DEF TypeOK, RowType, CompactionType
    <2>3. squeeze[k].hides > r.seq /\ ~(r.says \subseteq squeeze[k].seen)
      BY <1>4, <2>1, <2>2 DEF News
    <2> QED
      BY <2>1, <2>3 DEF Explained, Explains
  <1>5. Kept'
    <2> SUFFICES ASSUME NEW r \in rows', r.summary = FALSE, ~Explained(r)', r.says # {}
                 PROVE  r.says \subseteq Context(r.conv)'
      BY DEF Kept
    <2>1. CASE r \in rows
      <3>1. r.says \subseteq Context(r.conv)
        BY <1>2, <2>1 DEF Kept
      <3>2. ASSUME NEW t \in Window(r.conv)
            PROVE  \E u \in Window(r.conv)' : t.says \subseteq u.says
        <4>1. t \in RowsOf(r.conv) /\ t.conv = r.conv /\ t.seq >= conv[r.conv].minSeq
          BY DEF Window, RowsOf
        <4>2. PICK u \in rows' : u.conv = t.conv /\ u.seq = t.seq /\ t.says \subseteq u.says
          BY <1>1, <2>1, <4>1 DEF Lives
        <4> QED
          BY <1>1, <2>1, <4>1, <4>2 DEF Window, RowsOf
      <3> QED
        BY <3>1, <3>2 DEF Context
    <2>2. CASE r \notin rows
      <3>1. r.conv \in Conv /\ Open(r.conv)' /\ r.seq \in Nat /\ conv'[r.conv].minSeq \in Nat
        BY DEF TypeOK, RowType
      <3>2. CASE conv'[r.conv].minSeq > r.seq
        <4>1. Hides(r.conv, conv'[r.conv].minSeq)
          BY <1>3, <3>1, <3>2 DEF Hidden, Hides
        <4> QED
          BY <1>4, <2>2, <3>1, <3>2, <4>1
      <3>3. CASE r.seq >= conv'[r.conv].minSeq
        BY <3>3 DEF Context, Window, RowsOf
      <3> QED
        BY <3>1, <3>2, <3>3
    <2> QED
      BY <2>1, <2>2
  <1>6. Loads'
    <2> SUFFICES ASSUME NEW k \in Compaction, squeeze[k].pc = "loading",
                        NEW r \in RowsOf(squeeze[k].conv)', r.summary = FALSE, ~Explained(r)',
                        r.says # {}
                 PROVE  r.says \subseteq SaidIn(From(squeeze[k].conv, squeeze[k].min)')
      BY DEF Loads, SaidIn
    <2>1. r \in rows' /\ r.conv = squeeze[k].conv
      BY DEF RowsOf
    <2>2. CASE r \in rows
      <3>1. r.says \subseteq SaidIn(From(squeeze[k].conv, squeeze[k].min))
        BY <1>2, <2>1, <2>2 DEF Loads, RowsOf
      <3>2. ASSUME NEW t \in From(squeeze[k].conv, squeeze[k].min)
            PROVE  \E u \in From(squeeze[k].conv, squeeze[k].min)' : t.says \subseteq u.says
        <4>1. t \in RowsOf(r.conv) /\ t.conv = squeeze[k].conv /\ t.seq >= squeeze[k].min
          BY <2>1 DEF From, RowsOf
        <4>2. PICK u \in rows' : u.conv = t.conv /\ u.seq = t.seq /\ t.says \subseteq u.says
          BY <1>1, <2>1, <2>2, <4>1 DEF Lives
        <4> QED
          BY <4>1, <4>2 DEF From, RowsOf
      <3> QED
        BY <3>1, <3>2 DEF SaidIn
    <2>3. CASE r \notin rows
      <3>1. r.seq \in Nat /\ squeeze[k].min \in Nat
        BY <2>1 DEF TypeOK, RowType, CompactionType
      <3>2. CASE squeeze[k].min > r.seq
        BY <1>4, <2>1, <2>3, <3>1, <3>2 DEF Hidden
      <3>3. CASE r.seq >= squeeze[k].min
        BY <3>3 DEF SaidIn, From
      <3> QED
        BY <3>1, <3>2, <3>3
    <2> QED
      BY <2>2, <2>3
  <1>7. Loaded'
    <2> SUFFICES ASSUME NEW k \in Compaction, squeeze[k].pc \in {"loaded", "numbered"},
                        NEW r \in rows', r.conv = squeeze[k].conv, r.summary = FALSE,
                        ~Explained(r)', r.says \subseteq squeeze[k].seen, r.says # {}
                 PROVE  r.says \subseteq squeeze[k].read
      BY DEF Loaded, RowsOf
    <2>1. r \in rows
      BY DEF News
    <2> QED
      BY <1>2, <2>1 DEF Loaded, RowsOf
  <1>8. SummaryOpensWindow'
    <2> SUFFICES ASSUME NEW c \in Conv, Open(c)', conv'[c].minSeq > 0
                 PROVE  \E r \in Window(c)' : r.summary /\ r.seq = conv'[c].minSeq
      BY DEF SummaryOpensWindow
    <2>1. Open(c) /\ conv'[c].minSeq = conv[c].minSeq /\ \A r \in RowsOf(c) : Lives(r)
      BY DEF GrowingWindows
    <2>2. PICK r \in Window(c) : r.summary /\ r.seq = conv[c].minSeq
      BY <2>1 DEF SummaryOpensWindow
    <2>3. r \in RowsOf(c) /\ r.conv = c /\ r.seq >= conv[c].minSeq
      BY <2>2 DEF Window, RowsOf
    <2>4. PICK u \in rows' : u.conv = r.conv /\ u.seq = r.seq /\ u.summary = r.summary
      BY <2>1, <2>3 DEF Lives
    <2> QED
      BY <2>1, <2>2, <2>3, <2>4 DEF Window, RowsOf
  <1> QED
    BY <1>3, <1>5, <1>6, <1>7, <1>8

\* The rows of a conversation that stays open stay with its window.
LastingWindows ==
  \A c \in Conv : Open(c)' =>
    \/ conv'[c].minSeq = 0 /\ RowsOf(c) = {}
    \/ Open(c) /\ conv'[c].minSeq = conv[c].minSeq /\ RowsOf(c) \subseteq rows'

LEMMA WindowsLast ==
  ASSUME TypeOK, TypeOK', LastingWindows, News, UNCHANGED squeeze,
         Kept, Loads, Loaded, Hidden, SummaryOpensWindow
  PROVE  Kept' /\ Loads' /\ Loaded' /\ Hidden' /\ SummaryOpensWindow'
  <1>1. \A r \in rows' : Lives(r)
    BY DEF Lives
  <1>2. GrowingWindows
    BY <1>1 DEF LastingWindows, GrowingWindows
  <1> QED
    BY <1>2, WindowsGrow

\* What a step does to the numbers, whatever it takes.
Gives ==
  /\ counter' \in Nat /\ peak' \in Nat /\ twice' \in BOOLEAN
  /\ peak <= peak' /\ counter' <= peak' /\ (twice' = FALSE => twice = FALSE)

LEMMA Taken ==
  ASSUME TypeOK, Counted, NEW n \in Nat, counter <= n, Takes(n)
  PROVE  /\ Gives /\ counter' = n
         /\ twice' = FALSE /\ counter < n => counter = peak /\ peak' = n
  <1>1. counter \in Nat /\ peak \in Nat /\ counter <= peak /\ counter' = n
        /\ peak' = IF n > peak THEN n ELSE peak
    BY DEF TypeOK, Counted, Takes
  <1>2. peak' \in Nat /\ peak <= peak' /\ counter' <= peak' /\ (peak <= n => peak' = n)
    BY <1>1
  <1>3. twice \in BOOLEAN
    BY DEF TypeOK
  <1>4. twice' \in BOOLEAN /\ (twice' = FALSE => twice = FALSE)
        /\ (twice' = FALSE => ~(counter < n /\ counter < peak))
    BY <1>3, Zenon DEF Takes
  <1>5. twice' = FALSE /\ counter < n => counter = peak
    BY <1>1, <1>4
  <1>6. twice' = FALSE /\ counter < n => counter = peak /\ peak' = n
    BY <1>1, <1>2, <1>5
  <1> QED
    BY <1>1, <1>2, <1>4, <1>6 DEF Gives

LEMMA NextTaken ==
  ASSUME TypeOK, Counted, Takes(counter + 1)
  PROVE  Gives /\ (twice' = FALSE => twice = FALSE /\ counter = peak /\ peak' = peak + 1)
  <1>1. PICK n \in Nat : n = counter + 1 /\ counter <= n /\ counter < n
    BY DEF TypeOK
  <1>2. Gives /\ (twice' = FALSE => counter = peak /\ peak' = n)
    BY <1>1, Taken
  <1> QED
    BY <1>1, <1>2 DEF Gives

\* Nothing beyond the highest number is stored, held or read.
LEMMA CountedStays ==
  ASSUME TypeOK, Counted, Copied, Gives, IsFiniteSet(rows'),
         twice' = FALSE =>
           /\ \A r \in rows' : r \in rows \/ r.seq <= peak'
           /\ \A p \in Post : post'[p].pc = "numbered" =>
                post'[p] = post[p] \/ post'[p].seq \in 2 .. peak'
           /\ \A k \in Compaction : squeeze'[k].pc = "numbered" =>
                squeeze'[k] = squeeze[k] \/ squeeze'[k].seq \in 2 .. peak',
         \A b \in Branch : branch'[b].read = {} \/ branch'[b].read = branch[b].read
  PROVE  Counted' /\ Copied'
  <1>1. /\ peak \in Nat /\ peak' \in Nat /\ counter' \in Nat /\ 2 <= peak /\ peak <= peak'
        /\ counter' <= peak' /\ (twice' = FALSE => twice = FALSE)
    BY DEF TypeOK, Counted, Gives
  <1>2. \A m \in Nat : m <= peak => m <= peak'
    BY <1>1
  <1>3. ASSUME twice' = FALSE
        PROVE  /\ \A r \in rows' : r.seq <= peak'
               /\ \A p \in Post : post'[p].pc = "numbered" => post'[p].seq \in 2 .. peak'
               /\ \A k \in Compaction : squeeze'[k].pc = "numbered" =>
                    squeeze'[k].seq \in 2 .. peak'
               /\ \A b \in Branch : \A r \in branch'[b].read : r.seq <= peak'
    <2>1. \A r \in rows : r.seq <= peak'
      BY <1>1, <1>2, <1>3 DEF Counted, TypeOK, RowType
    <2>2. \A p \in Post : post[p].pc = "numbered" => post[p].seq \in 2 .. peak'
      BY <1>1, <1>3 DEF Counted
    <2>3. \A k \in Compaction : squeeze[k].pc = "numbered" => squeeze[k].seq \in 2 .. peak'
      BY <1>1, <1>3 DEF Counted
    <2>4. \A b \in Branch : \A r \in branch[b].read : r.seq <= peak'
      BY <1>1, <1>2, <1>3 DEF Copied, TypeOK, RowType
    <2>5. \A r \in rows' : r.seq <= peak'
      BY <1>3, <2>1
    <2>6. \A p \in Post : post'[p].pc = "numbered" => post'[p].seq \in 2 .. peak'
      BY <1>3, <2>2
    <2>7. \A k \in Compaction : squeeze'[k].pc = "numbered" => squeeze'[k].seq \in 2 .. peak'
      BY <1>3, <2>3
    <2> QED
      BY <2>4, <2>5, <2>6, <2>7
  <1>4. Counted'
    <2>1. 2 <= peak'
      BY <1>1
    <2> QED
      BY <1>1, <1>3, <2>1 DEF Counted
  <1>5. \A b \in Branch : IsFiniteSet(branch'[b].read)
          /\ \A r, t \in branch'[b].read : r.seq = t.seq => r = t
    BY FS_EmptySet DEF Copied
  <1> QED
    BY <1>3, <1>4, <1>5 DEF Copied

\* Nobody gets a number, and no new row has one that somebody holds.
LEMMA NumbersStay ==
  ASSUME TypeOK, Apart, NumberIsFree, twice' = FALSE => twice = FALSE,
         \A p \in Post : post'[p].pc = "numbered" => post'[p] = post[p],
         \A k \in Compaction : squeeze'[k].pc = "numbered" =>
           /\ squeeze[k].pc = "numbered"
           /\ squeeze'[k].conv = squeeze[k].conv /\ squeeze'[k].seq = squeeze[k].seq,
         twice' = FALSE => \A r \in rows' : r \in rows \/
           /\ \A p \in Post : post'[p].pc = "numbered" /\ post[p].conv = r.conv
                => r.seq # post[p].seq
           /\ \A k \in Compaction : squeeze'[k].pc = "numbered" /\ squeeze[k].conv = r.conv
                => r.seq # squeeze[k].seq
  PROVE  Apart' /\ NumberIsFree'
  <1>1. Apart'
    BY DEF Apart
  <1> SUFFICES ASSUME twice' = FALSE PROVE NumberIsFree'
    BY <1>1 DEF NumberIsFree
  <1>2. ASSUME NEW p \in Post, post'[p].pc = "numbered", NEW r \in rows', r.conv = post'[p].conv
        PROVE  r.seq # post'[p].seq
    BY <1>2 DEF NumberIsFree, RowsOf
  <1>3. ASSUME NEW k \in Compaction, squeeze'[k].pc = "numbered", NEW r \in rows',
               r.conv = squeeze'[k].conv
        PROVE  r.seq # squeeze'[k].seq
    BY <1>3 DEF NumberIsFree, RowsOf
  <1> QED
    BY <1>2, <1>3 DEF NumberIsFree, RowsOf

LEMMA FreshStays ==
  ASSUME TypeOK, Fresh, Unsaid' \subseteq Unsaid,
         \A r \in rows' : r \in rows \/
           /\ \A x \in Unsaid' : x \notin r.says
           /\ \A c \in Conv : agent'[c].phase \in {"spawned", "prompted"} /\ agent'[c].boss = r.conv
                => c \notin r.says,
         \A b \in Branch : \A r \in branch'[b].read : r \in rows \/ r \in branch[b].read,
         \A k \in Compaction : \A x \in Knows(k)' :
           \/ x \in Knows(k) /\ squeeze'[k].conv = squeeze[k].conv
           \/ \E r \in rows : r.conv = squeeze'[k].conv /\ x \in r.says,
         \A c \in Conv : agent'[c].phase \in {"spawned", "prompted"} =>
           \/ agent[c].phase \in {"spawned", "prompted"} /\ agent'[c].boss = agent[c].boss
           \/ conv[c].state = "none"
  PROVE  Fresh'
  <1>1. ASSUME NEW x \in Unsaid'
        PROVE  /\ \A r \in rows' : x \notin r.says
               /\ \A b \in Branch : \A r \in branch'[b].read : x \notin r.says
               /\ \A k \in Compaction : x \notin Knows(k)'
    BY <1>1 DEF Fresh
  <1>2. ASSUME NEW c \in Conv, agent'[c].phase \in {"spawned", "prompted"}
        PROVE  /\ \A r \in rows' : r.conv = agent'[c].boss => c \notin r.says
               /\ \A k \in Compaction : squeeze'[k].conv = agent'[c].boss => c \notin Knows(k)'
    <2>1. /\ \A r \in rows : r.conv = agent'[c].boss => c \notin r.says
          /\ \A k \in Compaction : squeeze[k].conv = agent'[c].boss => c \notin Knows(k)
      <3>1. CASE conv[c].state = "none"
        <4>1. c \in Unsaid
          BY <3>1 DEF Unsaid
        <4> QED
          BY <4>1 DEF Fresh
      <3>2. CASE agent[c].phase \in {"spawned", "prompted"} /\ agent'[c].boss = agent[c].boss
        BY <3>2 DEF Fresh, RowsOf
      <3> QED
        BY <1>2, <3>1, <3>2
    <2> QED
      BY <1>2, <2>1
  <1> QED
    BY <1>1, <1>2 DEF Fresh, RowsOf

\* The rows of a state, and one more.
RowsOK ==
  \A r \in rows :
    /\ r \in RowType /\ Open(r.conv)
    /\ \A s \in rows : s.conv = r.conv /\ s.seq = r.seq => s = r

LEMMA RowAdded ==
  ASSUME TypeOK, NEW r \in RowType, Insertable(r.conv, r.seq), rows' = rows \cup {r},
         \A c \in Conv : Open(c) => Open(c)'
  PROVE  RowsOK'
  <1>1. r.conv \in Conv
    BY DEF RowType
  <1> QED
    BY <1>1 DEF RowsOK, TypeOK, Insertable, RowsOf, RowType

LEMMA EmptyIs ==
  ASSUME NEW c \in Conv, NEW n \in Nat
  PROVE  /\ Message(c, n, {}) \in RowType
         /\ Message(c, n, {}).conv = c /\ Message(c, n, {}).seq = n
         /\ Message(c, n, {}).says = {}
  BY DEF Message, RowType

LEMMA MessageIs ==
  ASSUME NEW c \in Conv, NEW n \in Nat, NEW x \in Said
  PROVE  /\ Message(c, n, {x}) \in RowType
         /\ Message(c, n, {x}).conv = c /\ Message(c, n, {x}).seq = n
         /\ Message(c, n, {x}).says = {x}
  BY DEF Message, RowType

-----------------------------------------------------------------------------
(* Conversations.                                                          *)

LEMMA SetBackKeeps ==
  ASSUME Inv, NEW n \in Restored, SetBack(n)
  PROVE  Inv'
  <1> USE DEF Inv
  <1>1. /\ n \in Nat /\ n <= peak /\ counter' = n
        /\ UNCHANGED <<peak, twice, conv, rows, post, agent, squeeze, branch>>
    BY DEF SetBack
  <1>2. TypeOK' /\ Counted' /\ Copied' /\ Known'
    BY <1>1 DEF TypeOK, Open, Counted, Copied, Known
  <1>3. Apart' /\ NumberIsFree'
    BY <1>1, NumbersStay
  <1>4. Unsaid' \subseteq Unsaid
    BY <1>1 DEF Unsaid
  <1>5. Fresh'
    BY <1>1, <1>4, FreshStays DEF Knows
  <1>6. LastingWindows /\ News
    BY <1>1 DEF LastingWindows, News, RowsOf, Open
  <1> QED
    BY <1>1, <1>2, <1>3, <1>5, <1>6, WindowsLast

LEMMA CreateKeeps ==
  ASSUME Inv, NEW c \in Conv, NEW parent \in Conv \cup {NoConv}, CreateConversation(c, parent)
  PROVE  Inv'
  <1> USE DEF Inv
  <1>0. Gives
    BY NextTaken DEF CreateConversation
  <1>1. /\ conv[c].state = "none"
        /\ conv' = [conv EXCEPT ![c] = NewConv(parent)]
        /\ UNCHANGED <<rows, post, agent, squeeze, branch>>
    BY DEF CreateConversation
  <1>2. NewConv(parent) \in [state : {"none", "open", "deleted"}, parent : Conv \cup {NoConv},
                             minSeq : Nat, latest : Nat]
        /\ NewConv(parent).state = "open" /\ NewConv(parent).minSeq = 0
    BY DEF NewConv
  <1>3. \A x \in Conv : /\ x # c => conv'[x] = conv[x]
                        /\ conv'[x].state = "none" => conv[x].state = "none"
                        /\ conv[x].state # "none" => conv'[x] = conv[x]
    BY <1>1, <1>2 DEF TypeOK
  <1>4. TypeOK'
    BY <1>0, <1>1, <1>2, <1>3 DEF TypeOK, RowType, Open, Gives
  <1>5. Counted' /\ Copied'
    BY <1>0, <1>1, CountedStays DEF Counted
  <1>6. Known'
    BY <1>1, <1>3 DEF Known, TypeOK, PostType, CompactionType
  <1>7. Apart' /\ NumberIsFree'
    BY <1>0, <1>1, NumbersStay DEF Gives
  <1>8. Unsaid' \subseteq Unsaid
    BY <1>1, <1>3 DEF Unsaid
  <1>9. Fresh'
    BY <1>1, <1>8, FreshStays DEF Knows
  <1>10. LastingWindows /\ News
    BY <1>1, <1>2, <1>3 DEF LastingWindows, News, RowsOf, Open, TypeOK
  <1> QED
    BY <1>1, <1>4, <1>5, <1>6, <1>7, <1>9, <1>10, WindowsLast

LEMMA DeleteKeeps ==
  ASSUME Inv, NEW c \in Conv, DeleteConversation(c)
  PROVE  Inv'
  <1> USE DEF Inv
  <1>0. Gives
    BY NextTaken DEF DeleteConversation
  <1>1. /\ Open(c) /\ rows' = rows \ RowsOf(c)
        /\ conv' = [x \in Conv |->
             IF x = c THEN NoRow("deleted")
             ELSE IF conv[x].parent = c THEN [conv[x] EXCEPT !.parent = NoConv] ELSE conv[x]]
        /\ UNCHANGED <<post, agent, squeeze, branch>>
    BY DEF DeleteConversation
  <1>2. NoRow("deleted") = [state |-> "deleted", parent |-> NoConv, minSeq |-> 0, latest |-> 0]
    BY DEF NoRow, NewConv
  <1>3. conv'[c].state = "deleted" /\ conv'[c].minSeq = 0
    BY <1>1, <1>2
  <1>4. \A x \in Conv \ {c} : conv'[x].state = conv[x].state /\ conv'[x].minSeq = conv[x].minSeq
    BY <1>1 DEF TypeOK
  <1>5. conv' \in [Conv -> [state : {"none", "open", "deleted"}, parent : Conv \cup {NoConv},
                            minSeq : Nat, latest : Nat]]
    BY <1>1, <1>2 DEF TypeOK
  <1>6. \A r \in rows' : r \in rows /\ r.conv # c /\ r.conv \in Conv
    BY <1>1 DEF RowsOf, TypeOK, RowType
  <1>7. TypeOK'
    BY <1>0, <1>1, <1>4, <1>5, <1>6 DEF TypeOK, Open, Gives
  <1>8. IsFiniteSet(rows')
    BY <1>1, FS_Subset DEF Counted
  <1>9. Counted' /\ Copied'
    BY <1>0, <1>1, <1>6, <1>8, CountedStays
  <1>10. \A x \in Conv : conv'[x].state = "none" <=> conv[x].state = "none"
    BY <1>1, <1>3, <1>4 DEF Open
  <1>11. Known'
    BY <1>1, <1>10 DEF Known, TypeOK, PostType, CompactionType
  <1>12. Apart' /\ NumberIsFree'
    BY <1>0, <1>1, <1>6, NumbersStay DEF Gives
  <1>13. Unsaid' \subseteq Unsaid
    BY <1>1, <1>10 DEF Unsaid
  <1>14. Fresh'
    BY <1>1, <1>6, <1>13, FreshStays DEF Knows
  <1>15. LastingWindows /\ News
    BY <1>1, <1>3, <1>4, <1>6 DEF LastingWindows, News, RowsOf, Open
  <1> QED
    BY <1>1, <1>7, <1>9, <1>11, <1>12, <1>14, <1>15, WindowsLast

LEMMA ReadForBranchKeeps ==
  ASSUME Inv, NEW b \in Branch, NEW c \in Conv, NEW seq, ReadForBranch(b, c, seq)
  PROVE  Inv'
  <1> USE DEF Inv
  <1>1. PICK copied : /\ copied \subseteq RowsOf(c)
                      /\ branch' = [branch EXCEPT ![b] = [pc |-> "read", read |-> copied]]
                      /\ UNCHANGED <<numberVars, conv, rows, post, agent, squeeze>>
    BY DEF ReadForBranch
  <1>2. copied \subseteq rows /\ copied \in SUBSET RowType /\ \A r \in copied : r.conv = c
    BY <1>1 DEF RowsOf, TypeOK
  <1>3. TypeOK'
    BY <1>1, <1>2 DEF TypeOK, Open
  <1>4. Counted' /\ Known' /\ Apart' /\ NumberIsFree'
    BY <1>1 DEF Counted, Known, Apart, NumberIsFree, RowsOf
  <1>5. \A a \in Branch : branch'[a].read = (IF a = b THEN copied ELSE branch[a].read)
    BY <1>1 DEF TypeOK
  <1>6. IsFiniteSet(copied)
    BY <1>2, FS_Subset DEF Counted
  <1>7. \A r \in copied : (twice = FALSE => r.seq <= peak) /\ \A s \in copied : r.seq = s.seq => r = s
    BY <1>2 DEF Counted, TypeOK
  <1>8. Copied'
    BY <1>1, <1>5, <1>6, <1>7 DEF Copied
  <1>9. Unsaid' \subseteq Unsaid
    BY <1>1 DEF Unsaid
  <1>10. Fresh'
    BY <1>1, <1>2, <1>5, <1>9, FreshStays DEF Knows
  <1>11. LastingWindows /\ News
    BY <1>1 DEF LastingWindows, News, RowsOf, Open
  <1> QED
    BY <1>1, <1>3, <1>4, <1>8, <1>10, <1>11, WindowsLast

\* The places of rows in the order of their numbers are 1, 2 and so on.
LEMMA Places ==
  ASSUME NEW R \in SUBSET RowType, IsFiniteSet(R), \A r, s \in R : r.seq = s.seq => r = s
  PROVE  /\ Cardinality(R) \in Nat
         /\ \A r \in R : Place(r, R) \in 1 .. Cardinality(R)
         /\ \A r, s \in R : Place(r, R) = Place(s, R) => r = s
  <1> DEFINE Upto(r) == {s \in R : s.seq <= r.seq}
  <1>1. Cardinality(R) \in Nat
    BY FS_CardinalityType
  <1>2. ASSUME NEW r \in R
        PROVE  /\ IsFiniteSet(Upto(r)) /\ r \in Upto(r) /\ Place(r, R) = Cardinality(Upto(r))
               /\ Cardinality(Upto(r)) \in 1 .. Cardinality(R)
    <2>1. r \in Upto(r) /\ Upto(r) \in SUBSET R
      BY DEF RowType
    <2>2. Place(r, R) = Cardinality(Upto(r))
      BY DEF Place
    <2> HIDE DEF Upto
    <2>3. IsFiniteSet(Upto(r)) /\ Cardinality(Upto(r)) <= Cardinality(R)
      BY <2>1, FS_Subset
    <2>4. Cardinality(Upto(r)) \in Nat /\ Cardinality(Upto(r)) # 0
      BY <2>1, <2>3, FS_CardinalityType, FS_EmptySet
    <2> QED
      BY <1>1, <2>1, <2>2, <2>3, <2>4
  <1>3. ASSUME NEW r \in R, NEW s \in R, r.seq < s.seq PROVE Place(r, R) # Place(s, R)
    <2>1. Upto(r) \in SUBSET Upto(s) /\ s \notin Upto(r)
      BY <1>3 DEF RowType
    <2> HIDE DEF Upto
    <2>2. Cardinality(Upto(s)) = Cardinality(Upto(r)) => Upto(s) = Upto(r)
      BY <1>2, <2>1, FS_Subset
    <2> QED
      BY <1>2, <2>1, <2>2
  <1>4. ASSUME NEW r \in R, NEW s \in R, Place(r, R) = Place(s, R) PROVE r = s
    <2>1. r.seq \in Nat /\ s.seq \in Nat
      BY DEF RowType
    <2> QED
      BY <1>3, <1>4, <2>1
  <1> HIDE DEF Upto
  <1> QED
    BY <1>1, <1>2, <1>4

LEMMA FewRows ==
  ASSUME NEW R \in SUBSET RowType, NEW n \in Nat, \A r \in R : r.seq <= n,
         \A r, s \in R : r.seq = s.seq => r = s
  PROVE  Cardinality(R) <= n + 1
  <1> DEFINE f == [r \in R |-> r.seq]
  <1>1. \A r \in R : r.seq \in 0 .. n
    BY DEF RowType
  <1>2. f \in Injection(R, 0 .. n)
    BY <1>1 DEF Injection, IsInjective
  <1>3. IsFiniteSet(0 .. n) /\ Cardinality(0 .. n) = n + 1
    BY FS_Interval
  <1> HIDE DEF f
  <1> QED
    BY <1>2, <1>3, FS_Injection

LEMMA CommitBranchKeeps ==
  ASSUME Inv, NEW b \in Branch, NEW c \in Conv, CommitBranch(b, c)
  PROVE  Inv'
  <1> USE DEF Inv
  <1>0. Gives /\ (twice' = FALSE => counter = peak /\ peak' = peak + 1)
    BY NextTaken DEF CommitBranch
  <1>1. PICK R, n, N :
          /\ R = branch[b].read /\ n = Cardinality(R)
          /\ N = {[r EXCEPT !.conv = c, !.seq = Place(r, R)] : r \in R}
          /\ conv[c].state = "none"
          /\ conv' = [conv EXCEPT ![c] = [NewConv(NoConv) EXCEPT !.latest = n]]
          /\ rows' = rows \cup N
          /\ branch' = [branch EXCEPT ![b] = [pc |-> "done", read |-> {}]]
          /\ UNCHANGED <<post, agent, squeeze>>
    BY DEF CommitBranch
  <1>2. /\ R \in SUBSET RowType /\ IsFiniteSet(R)
        /\ twice = FALSE => \A r \in R : r.seq <= peak
        /\ \A r, s \in R : r.seq = s.seq => r = s
    BY <1>1 DEF TypeOK, Copied
  <1>3. /\ n \in Nat /\ (twice = FALSE => n <= peak + 1)
        /\ \A r \in R : Place(r, R) \in 1 .. n
        /\ \A r, s \in R : Place(r, R) = Place(s, R) => r = s
    BY <1>1, <1>2, Places, FewRows DEF TypeOK
  <1>4. ASSUME NEW t \in N
        PROVE  \E r \in R : /\ t = [conv |-> c, seq |-> Place(r, R), says |-> r.says,
                                    summary |-> r.summary]
                            /\ t.conv = c /\ t.seq = Place(r, R) /\ t.says = r.says
                            /\ t \in RowType
    <2>1. PICK r \in R : t = [r EXCEPT !.conv = c, !.seq = Place(r, R)]
      BY <1>1
    <2>2. r \in RowType /\ Place(r, R) \in Nat
      BY <1>2, <1>3
    <2> QED
      BY <2>1, <2>2 DEF RowType
  <1>5. IsFiniteSet(N)
    <2> DEFINE g == [r \in R |-> [r EXCEPT !.conv = c, !.seq = Place(r, R)]]
    <2>1. g \in Surjection(R, N)
      BY <1>1 DEF Surjection
    <2> HIDE DEF g
    <2> QED
      BY <1>2, <2>1, FS_Surjection
  <1>6. [NewConv(NoConv) EXCEPT !.latest = n] =
          [state |-> "open", parent |-> NoConv, minSeq |-> 0, latest |-> n]
    BY DEF NewConv
  <1>7. conv' \in [Conv -> [state : {"none", "open", "deleted"}, parent : Conv \cup {NoConv},
                            minSeq : Nat, latest : Nat]]
    <2> DEFINE new == [NewConv(NoConv) EXCEPT !.latest = n]
    <2>1. new \in [state : {"none", "open", "deleted"}, parent : Conv \cup {NoConv},
                   minSeq : Nat, latest : Nat]
      BY <1>3, <1>6
    <2> HIDE DEF new
    <2>2. conv' = [conv EXCEPT ![c] = new]
      BY <1>1 DEF new
    <2> QED
      BY <2>1, <2>2 DEF TypeOK
  <1>8. /\ conv'[c].state = "open" /\ conv'[c].minSeq = 0
        /\ \A x \in Conv \ {c} : conv'[x] = conv[x]
    BY <1>1, <1>6 DEF TypeOK
  <1>9. \A r \in rows : r.conv \in Conv \ {c}
    BY <1>1 DEF TypeOK, RowType, Open
  <1>10. \A s, t \in N : s.seq = t.seq => s = t
    BY <1>3, <1>4
  <1>11. RowsOK'
    <2> SUFFICES ASSUME NEW r \in rows'
                 PROVE  /\ r \in RowType /\ Open(r.conv)'
                        /\ \A s \in rows' : s.conv = r.conv /\ s.seq = r.seq => s = r
      BY DEF RowsOK
    <2>1. CASE r \in rows
      <3>1. r \in RowType /\ Open(r.conv)' /\ r.conv # c
        BY <1>8, <1>9, <2>1 DEF TypeOK, Open
      <3>2. \A s \in rows' : s.conv = r.conv => s \in rows
        BY <1>1, <1>4, <3>1
      <3> QED
        BY <2>1, <3>1, <3>2 DEF TypeOK
    <2>2. CASE r \in N
      <3>1. r \in RowType /\ r.conv = c
        BY <1>4, <2>2
      <3>2. \A s \in rows' : s.conv = c => s \in N
        BY <1>1, <1>9
      <3> QED
        BY <1>8, <1>10, <2>2, <3>1, <3>2 DEF Open
    <2> QED
      BY <1>1, <2>1, <2>2
  <1>12. branch' \in [Branch -> [pc : {"new", "read", "done"}, read : SUBSET RowType]]
         /\ \A a \in Branch : branch'[a].read = (IF a = b THEN {} ELSE branch[a].read)
    BY <1>1 DEF TypeOK
  <1>13. TypeOK'
    <2>1. UNCHANGED <<post, agent, squeeze>>
      BY <1>1
    <2>2. counter' \in Nat /\ peak' \in Nat /\ twice' \in BOOLEAN
      BY <1>0 DEF Gives
    <2>3. /\ post' \in [Post -> PostType] /\ squeeze' \in [Compaction -> CompactionType]
          /\ agent' \in [Conv -> [phase : {"none", "spawned", "prompted", "reported"},
                                 boss : Conv \cup {NoConv}]]
      BY <2>1 DEF TypeOK
    <2> QED
      BY <1>7, <1>11, <1>12, <2>2, <2>3 DEF TypeOK, RowsOK
  <1>14. IsFiniteSet(rows')
    BY <1>1, <1>5, FS_Union DEF Counted
  <1>15. ASSUME twice' = FALSE PROVE \A r \in N : r.seq <= peak'
    <2>1. twice = FALSE /\ peak' = peak + 1 /\ peak \in Nat
      BY <1>0, <1>15 DEF Gives, TypeOK
    <2>2. n <= peak'
      BY <1>3, <2>1
    <2> QED
      BY <1>3, <1>4, <2>1, <2>2
  <1>16. twice' = FALSE => \A r \in rows' : r \in rows \/ r.seq <= peak'
    BY <1>1, <1>15
  <1>17. UNCHANGED <<post, squeeze>>
    BY <1>1
  <1>18. Counted' /\ Copied'
    BY <1>0, <1>12, <1>14, <1>16, <1>17, CountedStays
  <1>19. \A x \in Conv : conv[x].state # "none" => conv'[x].state # "none" /\ x # c
    BY <1>1, <1>8
  <1>20. Known'
    BY <1>1, <1>19 DEF Known, TypeOK, PostType, CompactionType
  <1>21. /\ \A p \in Post : post[p].conv # c
         /\ \A k \in Compaction : squeeze[k].conv # c
         /\ \A x \in Conv : agent[x].phase # "none" => agent[x].boss # c
    BY <1>1 DEF Known
  <1>22. Apart' /\ NumberIsFree'
    <2>1. twice' = FALSE => twice = FALSE
      BY <1>0 DEF Gives
    <2> QED
      BY <1>1, <1>4, <1>21, <2>1, NumbersStay, ZenonT(60)
  <1>23. Unsaid' \subseteq Unsaid
    BY <1>1, <1>8 DEF Unsaid
  <1>24. \A r \in N : \A x \in Unsaid' : x \notin r.says
    <2>1. \A x \in Unsaid' : \A r \in R : x \notin r.says
      BY <1>1, <1>23 DEF Fresh
    <2> QED
      BY <1>4, <2>1
  <1>25. Fresh'
    <2>1. \A r \in rows' : r \in rows \/
            /\ \A x \in Unsaid' : x \notin r.says
            /\ \A x \in Conv : agent'[x].phase \in {"spawned", "prompted"} /\ agent'[x].boss = r.conv
                 => x \notin r.says
      <3>1. \A r \in N : r.conv = c
        BY <1>4
      <3>2. agent' = agent /\ rows' = rows \cup N
        BY <1>1
      <3> QED
        BY <1>21, <1>24, <3>1, <3>2
    <2> QED
      BY <1>1, <1>12, <1>23, <2>1, FreshStays DEF Knows
  <1>26. LastingWindows
    BY <1>1, <1>8, <1>9, ZenonT(60) DEF LastingWindows, RowsOf, Open
  <1>27. News
    BY <1>1, <1>4, <1>21 DEF News
  <1> QED
    BY <1>1, <1>13, <1>18, <1>20, <1>22, <1>25, <1>26, <1>27, WindowsLast

-----------------------------------------------------------------------------
(* Messages and sub-agents.                                                *)

LEMMA NumberKeeps ==
  ASSUME Inv, NEW p \in Post, NEW c \in Conv, Number(p, c)
  PROVE  Inv'
  <1> USE DEF Inv
  <1>0. Gives /\ (twice' = FALSE => twice = FALSE /\ counter = peak /\ peak' = peak + 1)
    BY NextTaken DEF Number
  <1>1. /\ post[p].pc = "new" /\ Open(c)
        /\ post' = [post EXCEPT ![p] = [pc |-> "numbered", conv |-> c, seq |-> counter + 1]]
        /\ UNCHANGED <<conv, rows, agent, squeeze, branch>>
    BY DEF Number
  <1>2. counter \in Nat /\ peak \in Nat /\ 2 <= peak /\ [pc |-> "numbered", conv |-> c, seq |-> counter + 1] \in PostType
    BY DEF TypeOK, PostType, Counted
  <1>3. post' \in [Post -> PostType]
    BY <1>1, <1>2 DEF TypeOK
  <1>4. /\ \A q \in Post \ {p} : post'[q] = post[q]
        /\ post'[p].pc = "numbered" /\ post'[p].conv = c /\ post'[p].seq = counter + 1
    BY <1>1 DEF TypeOK
  <1>5. TypeOK'
    BY <1>0, <1>1, <1>2, <1>3 DEF TypeOK, Open, Gives
  <1>6. Counted' /\ Copied'
    <2>1. twice' = FALSE => post'[p].seq \in 2 .. peak'
      BY <1>0, <1>2, <1>4
    <2>2. IsFiniteSet(rows')
      BY <1>1 DEF Counted
    <2> QED
      BY <1>0, <1>1, <1>4, <2>1, <2>2, CountedStays
  <1>7. Known'
    BY <1>1, <1>4 DEF Known, Open
  <1>8. Apart'
    <2> SUFFICES ASSUME twice' = FALSE PROVE Apart'
      BY DEF Apart
    <2>1. /\ \A q \in Post : post[q].pc = "numbered" => post[q].seq # counter + 1
          /\ \A k \in Compaction : squeeze[k].pc = "numbered" => squeeze[k].seq # counter + 1
      BY <1>0, <1>2 DEF Counted
    <2> QED
      BY <1>0, <1>1, <1>4, <2>1 DEF Apart
  <1>9. NumberIsFree'
    <2> SUFFICES ASSUME twice' = FALSE PROVE NumberIsFree'
      BY DEF NumberIsFree
    <2>1. \A r \in rows : r.seq # counter + 1
      BY <1>0, <1>2 DEF Counted, TypeOK, RowType
    <2> QED
      BY <1>0, <1>1, <1>4, <2>1 DEF NumberIsFree, RowsOf
  <1>10. Unsaid' \subseteq Unsaid
    BY <1>1, <1>4 DEF Unsaid
  <1>11. Fresh'
    BY <1>1, <1>10, FreshStays DEF Knows
  <1>12. LastingWindows /\ News
    BY <1>1 DEF LastingWindows, News, RowsOf, Open
  <1> QED
    BY <1>1, <1>5, <1>6, <1>7, <1>8, <1>9, <1>11, <1>12, WindowsLast

LEMMA StoreKeeps ==
  ASSUME Inv, NEW p \in Post, Store(p)
  PROVE  Inv'
  <1> USE DEF Inv
  <1>1. PICK r, c, n :
          /\ c = post[p].conv /\ n = post[p].seq /\ r = Message(c, n, {p})
          /\ post[p].pc = "numbered" /\ Insertable(c, n) /\ rows' = rows \cup {r}
          /\ post' = [post EXCEPT ![p] = Handler("stored")]
          /\ UNCHANGED <<numberVars, conv, agent, squeeze, branch>>
    BY DEF Store
  <1>15. Gives
    BY <1>1 DEF Gives, TypeOK, Counted
  <1>2. c \in Conv /\ n \in Nat /\ (twice = FALSE => n <= peak) /\ p \in Said
    BY <1>1 DEF TypeOK, PostType, Counted, Said
  <1>3. r \in RowType /\ r.conv = c /\ r.seq = n /\ r.says = {p}
    BY <1>1, <1>2, MessageIs
  <1>4. post' \in [Post -> PostType] /\ post'[p].pc = "stored" /\ post'[p].conv = First
        /\ \A q \in Post \ {p} : post'[q] = post[q]
    BY <1>1 DEF TypeOK, PostType, Handler
  <1>5. RowsOK'
    BY <1>1, <1>3, RowAdded DEF Open
  <1>6. TypeOK'
    BY <1>1, <1>4, <1>5 DEF TypeOK, RowsOK
  <1>7. IsFiniteSet(rows')
    BY <1>1, FS_AddElement DEF Counted
  <1>8. Counted' /\ Copied'
    <2>1. twice' = FALSE => \A s \in rows' : s \in rows \/ s.seq <= peak'
      BY <1>1, <1>2, <1>3
    <2> QED
      BY <1>1, <1>4, <1>7, <1>15, <2>1, CountedStays
  <1>9. Known'
    BY <1>1, <1>4 DEF Known
  <1>10. Apart' /\ NumberIsFree'
    <2>1. \A q \in Post : post'[q].pc = "numbered" => post'[q] = post[q]
      BY <1>4
    <2>2. ASSUME twice = FALSE
          PROVE  /\ \A q \in Post : post'[q].pc = "numbered" => n # post[q].seq
                 /\ \A k \in Compaction : squeeze[k].pc = "numbered" => n # squeeze[k].seq
      BY <1>1, <1>4, <2>2 DEF Apart
    <2> QED
      <3>1. twice' = FALSE => \A s \in rows' : s \in rows \/
              /\ \A q \in Post : post'[q].pc = "numbered" /\ post[q].conv = s.conv
                   => s.seq # post[q].seq
              /\ \A k \in Compaction : squeeze'[k].pc = "numbered" /\ squeeze[k].conv = s.conv
                   => s.seq # squeeze[k].seq
        <4>1. \A s \in rows' : s \in rows \/ s.seq = n
          BY <1>1, <1>3
        <4>2. squeeze' = squeeze /\ twice' = twice
          BY <1>1
        <4> QED
          BY <2>2, <4>1, <4>2
      <3> QED
        BY <1>1, <2>1, <3>1, NumbersStay
  <1>11. p \in Unsaid /\ p \notin Unsaid' /\ Unsaid' \subseteq Unsaid /\ p \notin Conv
    BY <1>1, <1>4 DEF Unsaid
  <1>12. Fresh'
    BY <1>1, <1>3, <1>11, FreshStays DEF Knows
  <1>13. News
    BY <1>1, <1>3, <1>11 DEF News, Fresh, Knows
  <1>14. LastingWindows
    BY <1>1 DEF LastingWindows, RowsOf, Open
  <1> QED
    BY <1>1, <1>6, <1>8, <1>9, <1>10, <1>12, <1>13, <1>14, WindowsLast

LEMMA StoreEmptyKeeps ==
  ASSUME Inv, NEW p \in Post, StoreEmpty(p)
  PROVE  Inv'
  <1> USE DEF Inv
  <1>1. PICK r, c, n :
          /\ c = post[p].conv /\ n = post[p].seq /\ r = Message(c, n, {})
          /\ post[p].pc = "numbered" /\ Insertable(c, n) /\ rows' = rows \cup {r}
          /\ post' = [post EXCEPT ![p].pc = "empty"]
          /\ UNCHANGED <<numberVars, conv, agent, squeeze, branch>>
    BY DEF StoreEmpty
  <1>2. c \in Conv /\ n \in Nat /\ (twice = FALSE => n <= peak)
    BY <1>1 DEF TypeOK, PostType, Counted
  <1>3. r \in RowType /\ r.conv = c /\ r.seq = n /\ r.says = {}
    BY <1>1, <1>2, EmptyIs
  <1>4. post' \in [Post -> PostType] /\ post'[p].pc = "empty" /\ post'[p].conv = c
        /\ \A q \in Post \ {p} : post'[q] = post[q]
    BY <1>1 DEF TypeOK, PostType
  <1>5. RowsOK'
    BY <1>1, <1>3, RowAdded DEF Open
  <1>6. TypeOK'
    BY <1>1, <1>4, <1>5 DEF TypeOK, RowsOK
  <1>7. Gives /\ IsFiniteSet(rows')
    BY <1>1, FS_AddElement DEF Gives, TypeOK, Counted
  <1>8. Counted' /\ Copied'
    <2>1. twice' = FALSE => \A s \in rows' : s \in rows \/ s.seq <= peak'
      BY <1>1, <1>2, <1>3
    <2> QED
      BY <1>1, <1>4, <1>7, <2>1, CountedStays
  <1>9. Known'
    BY <1>1, <1>4 DEF Known
  <1>10. Apart' /\ NumberIsFree'
    <2>1. \A q \in Post : post'[q].pc = "numbered" => post'[q] = post[q]
      BY <1>4
    <2>2. ASSUME twice = FALSE
          PROVE  /\ \A q \in Post : post'[q].pc = "numbered" => n # post[q].seq
                 /\ \A k \in Compaction : squeeze[k].pc = "numbered" => n # squeeze[k].seq
      BY <1>1, <1>4, <2>2 DEF Apart
    <2>3. twice' = FALSE => \A s \in rows' : s \in rows \/
            /\ \A q \in Post : post'[q].pc = "numbered" /\ post[q].conv = s.conv
                 => s.seq # post[q].seq
            /\ \A k \in Compaction : squeeze'[k].pc = "numbered" /\ squeeze[k].conv = s.conv
                 => s.seq # squeeze[k].seq
      <3>1. \A s \in rows' : s \in rows \/ s.seq = n
        BY <1>1, <1>3
      <3>2. squeeze' = squeeze /\ twice' = twice
        BY <1>1
      <3> QED
        BY <2>2, <3>1, <3>2
    <2> QED
      BY <1>1, <2>1, <2>3, NumbersStay
  <1>11. Unsaid' \subseteq Unsaid
    BY <1>1, <1>4 DEF Unsaid
  <1>12. Fresh'
    BY <1>1, <1>3, <1>11, FreshStays DEF Knows
  <1>13. LastingWindows /\ News
    BY <1>1, <1>3 DEF LastingWindows, News, RowsOf, Open
  <1> QED
    BY <1>1, <1>6, <1>8, <1>9, <1>10, <1>12, <1>13, WindowsLast

\* The row that is filled takes the place of the empty one.
LEMMA FillKeeps ==
  ASSUME Inv, NEW p \in Post, Fill(p)
  PROVE  Inv'
  <1> USE DEF Inv
  <1>9. Gives
    BY NextTaken DEF Fill
  <1>1. PICK r, c, n, blank :
          /\ c = post[p].conv /\ n = post[p].seq /\ r = Message(c, n, {p})
          /\ blank = Message(c, n, {}) /\ post[p].pc = "empty"
          /\ rows' = IF blank \in rows THEN (rows \ {blank}) \cup {r} ELSE rows
          /\ post' = [post EXCEPT ![p] = Handler("stored")]
          /\ UNCHANGED <<conv, agent, squeeze, branch>>
    BY DEF Fill
  <1>2. c \in Conv /\ n \in Nat /\ p \in Said
    BY <1>1 DEF TypeOK, PostType, Said
  <1>3. /\ r \in RowType /\ r.conv = c /\ r.seq = n /\ r.says = {p}
        /\ blank.conv = c /\ blank.seq = n /\ blank.says = {} /\ r.summary = blank.summary
    <2>1. r \in RowType /\ r.conv = c /\ r.seq = n /\ r.says = {p}
      BY <1>1, <1>2, MessageIs
    <2>2. blank.conv = c /\ blank.seq = n /\ blank.says = {}
      BY <1>1, <1>2, EmptyIs
    <2>3. r.summary = blank.summary
      BY <1>1 DEF Message
    <2> QED
      BY <2>1, <2>2, <2>3
  <1>4. post' \in [Post -> PostType] /\ post'[p].pc = "stored" /\ post'[p].conv = First
        /\ \A q \in Post \ {p} : post'[q] = post[q]
    BY <1>1 DEF TypeOK, PostType, Handler
  <1>5. /\ \A s \in rows' : s \in rows \/ (s = r /\ blank \in rows /\ blank \notin rows')
        /\ \A s \in rows : s \in rows' \/ (s = blank /\ r \in rows')
    BY <1>1, <1>3
  <1>6. \A s \in rows' : s \in RowType /\ Open(s.conv)
    BY <1>3, <1>5 DEF TypeOK
  <1>7. ASSUME NEW s \in rows', NEW t \in rows', s.conv = t.conv, s.seq = t.seq PROVE s = t
    <2>1. s \in rows /\ t \in rows => s = t
      BY <1>7 DEF TypeOK
    <2>2. \A u \in rows' : u.conv = c /\ u.seq = n /\ u \in rows /\ blank \in rows => u = blank
      BY <1>3 DEF TypeOK
    <2> QED
      BY <1>3, <1>5, <1>7, <2>1, <2>2
  <1>8. TypeOK'
    <2>1. RowsOK'
      <3>1. \A s \in rows' : s \in RowType /\ Open(s.conv)'
        BY <1>1, <1>6 DEF Open
      <3>2. \A s, t \in rows' : t.conv = s.conv /\ t.seq = s.seq => t = s
        BY <1>7
      <3> QED
        BY <3>1, <3>2 DEF RowsOK
    <2>2. UNCHANGED <<conv, agent, squeeze, branch>>
      BY <1>1
    <2>3. counter' \in Nat /\ peak' \in Nat /\ twice' \in BOOLEAN
      BY <1>9 DEF Gives
    <2> QED
      BY <1>4, <2>3, <2>1, <2>2 DEF TypeOK, RowsOK
  <1>10. IsFiniteSet(rows')
    <2>1. IsFiniteSet(rows \cup {r})
      BY FS_AddElement DEF Counted
    <2>2. rows' \subseteq rows \cup {r}
      BY <1>5
    <2> QED
      BY <2>1, <2>2, FS_Subset
  <1>11. Counted' /\ Copied'
    <2>1. \A s \in rows' : s \in rows \/ \E t \in rows : s.seq = t.seq
      BY <1>3, <1>5
    <2>2. peak \in Nat /\ peak' \in Nat /\ peak <= peak' /\ (twice' = FALSE => twice = FALSE)
      BY <1>9 DEF Gives, TypeOK
    <2>3. twice' = FALSE => \A s \in rows : s.seq <= peak'
      BY <2>2 DEF Counted, TypeOK, RowType
    <2>4. twice' = FALSE => \A s \in rows' : s.seq <= peak'
      BY <2>1, <2>3
    <2> QED
      BY <1>1, <1>4, <1>9, <1>10, <2>4, CountedStays
  <1>12. Known'
    BY <1>1, <1>4 DEF Known
  <1>13. Apart' /\ NumberIsFree'
    <2>1. \A q \in Post : post'[q].pc = "numbered" => post'[q] = post[q]
      BY <1>4
    <2>2. ASSUME twice = FALSE, blank \in rows
          PROVE  /\ \A q \in Post : post[q].pc = "numbered" /\ post[q].conv = c
                      => n # post[q].seq
                 /\ \A k \in Compaction : squeeze[k].pc = "numbered" /\ squeeze[k].conv = c
                      => n # squeeze[k].seq
      BY <1>3, <2>2 DEF NumberIsFree, RowsOf
    <2>3. twice' = FALSE => \A s \in rows' : s \in rows \/
            /\ \A q \in Post : post'[q].pc = "numbered" /\ post[q].conv = s.conv
                 => s.seq # post[q].seq
            /\ \A k \in Compaction : squeeze'[k].pc = "numbered" /\ squeeze[k].conv = s.conv
                 => s.seq # squeeze[k].seq
      <3>1. \A s \in rows' : s \in rows \/ (blank \in rows /\ s.conv = c /\ s.seq = n)
        BY <1>3, <1>5
      <3>2. squeeze' = squeeze /\ (twice' = FALSE => twice = FALSE)
        BY <1>1, <1>9 DEF Gives
      <3>3. \A q \in Post : post'[q].pc = "numbered" => post[q].pc = "numbered"
        BY <2>1
      <3> QED
        BY <2>2, <3>1, <3>2, <3>3
    <2> QED
      BY <1>1, <1>9, <2>1, <2>3, NumbersStay DEF Gives
  <1>14. p \in Unsaid /\ p \notin Unsaid' /\ Unsaid' \subseteq Unsaid /\ p \notin Conv
    BY <1>1, <1>4 DEF Unsaid
  <1>15. Fresh'
    <2>1. \A s \in rows' : s \in rows \/
            /\ \A x \in Unsaid' : x \notin s.says
            /\ \A x \in Conv : agent'[x].phase \in {"spawned", "prompted"} /\ agent'[x].boss = s.conv
                 => x \notin s.says
      <3>1. \A s \in rows' : s \in rows \/ s.says = {p}
        BY <1>3, <1>5
      <3> QED
        BY <1>14, <3>1
    <2> QED
      BY <1>1, <1>14, <2>1, FreshStays DEF Knows
  <1>16. News
    BY <1>1, <1>3, <1>5, <1>14 DEF News, Fresh, Knows
  <1>17. GrowingWindows
    <2>1. \A s \in rows : Lives(s)
      BY <1>3, <1>5 DEF Lives
    <2> QED
      BY <1>1, <2>1 DEF GrowingWindows, RowsOf, Open
  <1> QED
    BY <1>1, <1>8, <1>11, <1>12, <1>13, <1>15, <1>16, <1>17, WindowsGrow

LEMMA StoreFailsKeeps ==
  ASSUME Inv, NEW p \in Post, StoreFails(p)
  PROVE  Inv'
  <1> USE DEF Inv
  <1>1. /\ post' = [post EXCEPT ![p] = Handler("failed")]
        /\ UNCHANGED <<numberVars, conv, rows, agent, squeeze, branch>>
    BY DEF StoreFails
  <1>2. post' \in [Post -> PostType] /\ post'[p].pc = "failed" /\ post'[p].conv = First
        /\ \A q \in Post \ {p} : post'[q] = post[q]
    BY <1>1 DEF TypeOK, PostType, Handler
  <1>3. TypeOK'
    BY <1>1, <1>2 DEF TypeOK, Open
  <1>4. Counted' /\ Copied' /\ Known'
    BY <1>1, <1>2 DEF Counted, Copied, Known
  <1>5. Apart' /\ NumberIsFree'
    BY <1>1, <1>2, NumbersStay
  <1>6. Unsaid' \subseteq Unsaid
    BY <1>1, <1>2 DEF Unsaid
  <1>7. Fresh'
    BY <1>1, <1>6, FreshStays DEF Knows
  <1>8. LastingWindows /\ News
    BY <1>1 DEF LastingWindows, News, RowsOf, Open
  <1> QED
    BY <1>1, <1>3, <1>4, <1>5, <1>7, <1>8, WindowsLast

LEMMA SpawnKeeps ==
  ASSUME Inv, NEW c \in Conv, NEW parent \in Conv, Spawn(c, parent)
  PROVE  Inv'
  <1> USE DEF Inv
  <1>1. /\ conv[c].state = "none" /\ RowsOf(parent) # {}
        /\ conv' = [conv EXCEPT ![c] = NewConv(parent)]
        /\ agent' = [agent EXCEPT ![c] = [phase |-> "spawned", boss |-> parent]]
        /\ UNCHANGED <<numberVars, rows, post, squeeze, branch>>
    BY DEF Spawn
  <1>2. Open(parent) /\ parent # c
    BY <1>1 DEF RowsOf, TypeOK, Open
  <1>3. NewConv(parent) \in [state : {"none", "open", "deleted"}, parent : Conv \cup {NoConv},
                             minSeq : Nat, latest : Nat]
        /\ NewConv(parent).state = "open" /\ NewConv(parent).minSeq = 0
    BY DEF NewConv
  <1>4. \A x \in Conv : /\ x # c => conv'[x] = conv[x]
                        /\ conv'[x].state = "none" => conv[x].state = "none"
                        /\ conv[x].state # "none" => conv'[x] = conv[x]
    BY <1>1, <1>3 DEF TypeOK
  <1>5. agent' \in [Conv -> [phase : {"none", "spawned", "prompted", "reported"},
                             boss : Conv \cup {NoConv}]]
        /\ agent'[c].phase = "spawned" /\ agent'[c].boss = parent
        /\ \A x \in Conv \ {c} : agent'[x] = agent[x]
    BY <1>1 DEF TypeOK
  <1>6. TypeOK'
    BY <1>1, <1>3, <1>4, <1>5 DEF TypeOK, RowType, Open
  <1>7. Counted' /\ Copied'
    BY <1>1 DEF Counted, Copied
  <1>8. conv'[c].state = "open"
    BY <1>1, <1>3 DEF TypeOK
  <1>9. Known'
    BY <1>1, <1>2, <1>4, <1>5, <1>8 DEF Known, TypeOK, PostType, CompactionType, Open
  <1>10. Apart' /\ NumberIsFree'
    BY <1>1, NumbersStay
  <1>11. Unsaid' \subseteq Unsaid
    BY <1>1, <1>4, <1>5 DEF Unsaid
  <1>12. Fresh'
    BY <1>1, <1>5, <1>11, FreshStays DEF Knows
  <1>13. LastingWindows /\ News
    BY <1>1, <1>3, <1>4 DEF LastingWindows, News, RowsOf, Open, TypeOK
  <1> QED
    BY <1>1, <1>6, <1>7, <1>9, <1>10, <1>12, <1>13, WindowsLast

LEMMA PromptKeeps ==
  ASSUME Inv, NEW c \in Conv, NEW announced \in BOOLEAN, NEW numbered \in BOOLEAN,
         Prompt(c, announced, numbered)
  PROVE  Inv'
  <1> USE DEF Inv
  <1>1. PICK r, n :
          /\ r = Message(c, n, {c}) /\ agent[c].phase = "spawned" /\ Insertable(c, n)
          /\ rows' = rows \cup {r} /\ agent' = [agent EXCEPT ![c].phase = "prompted"]
          /\ Gives /\ n \in Nat
          /\ twice' = FALSE => n <= peak' /\ (n > peak \/ n = 1)
          /\ UNCHANGED <<conv, post, squeeze, branch>>
    <2> DEFINE next == counter + (IF announced THEN 1 ELSE 0)
               seq  == IF numbered THEN next + 1 ELSE 1
               taken == IF numbered THEN seq ELSE next
    <2>1. counter \in Nat /\ peak \in Nat /\ 2 <= peak
      BY DEF TypeOK, Counted
    <2>2. next \in Nat /\ counter <= next
      BY <2>1
    <2>3. /\ agent[c].phase = "spawned" /\ Insertable(c, seq)
          /\ rows' = rows \cup {Message(c, seq, {c})}
          /\ agent' = [agent EXCEPT ![c].phase = "prompted"]
          /\ Takes(taken)
          /\ UNCHANGED <<conv, post, squeeze, branch>>
      BY DEF Prompt
    <2> HIDE DEF next
    <2>4. /\ seq \in Nat /\ taken \in Nat /\ counter <= taken
          /\ seq = 1 \/ (seq = taken /\ counter < taken)
      <3>1. CASE numbered
        BY <2>1, <2>2, <3>1
      <3>2. CASE ~numbered
        BY <2>1, <2>2, <3>2
      <3> QED
        BY <3>1, <3>2
    <2> HIDE DEF seq, taken
    <2>5. Gives /\ (twice' = FALSE /\ counter < taken => counter = peak /\ peak' = taken)
      BY <2>3, <2>4, Taken
    <2>6. peak' \in Nat /\ peak <= peak'
      BY <2>5 DEF Gives
    <2>7. twice' = FALSE => seq <= peak' /\ (seq > peak \/ seq = 1)
      BY <2>1, <2>4, <2>5, <2>6
    <2> QED
      BY <2>3, <2>4, <2>5, <2>7
  <1>2. c \in Said
    BY DEF Said
  <1>3. r \in RowType /\ r.conv = c /\ r.seq = n /\ r.says = {c}
    BY <1>1, <1>2, MessageIs
  <1>4. agent' \in [Conv -> [phase : {"none", "spawned", "prompted", "reported"},
                             boss : Conv \cup {NoConv}]]
        /\ agent'[c].phase = "prompted" /\ agent'[c].boss = agent[c].boss
        /\ \A x \in Conv \ {c} : agent'[x] = agent[x]
    BY <1>1 DEF TypeOK
  <1>5. RowsOK'
    BY <1>1, <1>3, RowAdded DEF Open
  <1>6. TypeOK'
    BY <1>1, <1>4, <1>5 DEF TypeOK, RowsOK, Gives
  <1>7. IsFiniteSet(rows')
    BY <1>1, FS_AddElement DEF Counted
  <1>8. twice' = FALSE => twice = FALSE
    BY <1>1 DEF Gives
  <1>9. twice' = FALSE => \A s \in rows' : s \in rows \/ s.seq <= peak'
    BY <1>1, <1>3
  <1>10. UNCHANGED <<post, squeeze, branch>>
    BY <1>1
  <1>11. Counted' /\ Copied'
    BY <1>1, <1>7, <1>9, <1>10, CountedStays
  <1>12. Known'
    BY <1>1, <1>4 DEF Known
  <1>13. Apart' /\ NumberIsFree'
    <2>1. ASSUME twice' = FALSE
          PROVE  /\ \A p \in Post : post[p].pc = "numbered" => n # post[p].seq
                 /\ \A k \in Compaction : squeeze[k].pc = "numbered" => n # squeeze[k].seq
      BY <1>1, <1>8, <2>1 DEF Counted, TypeOK
    <2> QED
      <3>1. twice' = FALSE => \A s \in rows' : s \in rows \/
              /\ \A p \in Post : post'[p].pc = "numbered" /\ post[p].conv = s.conv
                   => s.seq # post[p].seq
              /\ \A k \in Compaction : squeeze'[k].pc = "numbered" /\ squeeze[k].conv = s.conv
                   => s.seq # squeeze[k].seq
        <4>1. \A s \in rows' : s \in rows \/ s.seq = n
          BY <1>1, <1>3
        <4>2. UNCHANGED <<post, squeeze>>
          BY <1>1
        <4> QED
          BY <2>1, <4>1, <4>2
      <3> QED
        BY <1>1, <1>8, <3>1, NumbersStay
  <1>14. c \in Unsaid /\ Unsaid' \subseteq Unsaid \ {c}
    BY <1>1, <1>4 DEF Unsaid, Known
  <1>15. \A x \in Conv : agent'[x].phase \in {"spawned", "prompted"} /\ agent'[x].boss = c
           => x # c
    BY <1>1, <1>4 DEF Known
  <1>16. Fresh'
    <2>1. \A x \in Conv : agent'[x].phase \in {"spawned", "prompted"} =>
            agent[x].phase \in {"spawned", "prompted"} /\ agent'[x].boss = agent[x].boss
      BY <1>1, <1>4
    <2> QED
      <3>1. \A s \in rows' : s \in rows \/
              /\ \A x \in Unsaid' : x \notin s.says
              /\ \A x \in Conv : agent'[x].phase \in {"spawned", "prompted"} /\ agent'[x].boss = s.conv
                   => x \notin s.says
        <4>1. \A s \in rows' : s \in rows \/ (s.conv = c /\ s.says = {c})
          BY <1>1, <1>3
        <4> QED
          BY <1>14, <1>15, <4>1
      <3> QED
        BY <1>1, <1>14, <2>1, <3>1, FreshStays DEF Knows
  <1>17. News
    BY <1>1, <1>3, <1>14 DEF News, Fresh, Knows
  <1>18. LastingWindows
    BY <1>1 DEF LastingWindows, RowsOf, Open
  <1> QED
    BY <1>1, <1>6, <1>11, <1>12, <1>13, <1>16, <1>17, <1>18, WindowsLast

LEMMA ReportKeeps ==
  ASSUME Inv, NEW c \in Conv, NEW live \in BOOLEAN, Report(c, live)
  PROVE  Inv'
  <1> USE DEF Inv
  <1>1. PICK r, boss :
          /\ boss = agent[c].boss /\ r = Message(boss, 0, {c})
          /\ agent[c].phase \in {"spawned", "prompted"}
          /\ agent' = [agent EXCEPT ![c].phase = "reported"]
          /\ (Insertable(boss, 0) /\ rows' = rows \cup {r}) \/ UNCHANGED rows
          /\ UNCHANGED <<conv, post, squeeze, branch>>
    BY DEF Report
  <1>2. c \in Said /\ boss \in Conv
    BY <1>1 DEF Said, Known
  <1>3. r \in RowType /\ r.conv = boss /\ r.seq = 0 /\ r.says = {c}
    BY <1>1, <1>2, MessageIs
  <1>4. agent' \in [Conv -> [phase : {"none", "spawned", "prompted", "reported"},
                             boss : Conv \cup {NoConv}]]
        /\ agent'[c].phase = "reported" /\ agent'[c].boss = boss
        /\ \A x \in Conv \ {c} : agent'[x] = agent[x]
    BY <1>1 DEF TypeOK
  <1>5. RowsOK'
    <2>1. CASE Insertable(boss, 0) /\ rows' = rows \cup {r}
      BY <1>1, <1>3, <2>1, RowAdded DEF Open
    <2>2. CASE UNCHANGED rows
      BY <1>1, <2>2 DEF TypeOK, RowsOK, Open
    <2> QED
      BY <1>1, <2>1, <2>2
  <1>6. Gives
    <2>1. PICK n \in {counter, counter + 1} : Takes(n)
      BY DEF Report
    <2>2. n \in Nat /\ counter <= n
      BY DEF TypeOK
    <2> QED
      BY <2>1, <2>2, Taken
  <1>7. TypeOK'
    BY <1>1, <1>4, <1>5, <1>6 DEF TypeOK, RowsOK, Gives
  <1>8. IsFiniteSet(rows')
    BY <1>1, FS_AddElement DEF Counted
  <1>9. \A s \in rows' : s \in rows \/ s.seq <= peak'
    BY <1>1, <1>3, <1>6 DEF Gives
  <1>10. UNCHANGED <<post, squeeze, branch>>
    BY <1>1
  <1>11. Counted' /\ Copied'
    BY <1>6, <1>8, <1>9, <1>10, CountedStays
  <1>12. Known'
    BY <1>1, <1>4 DEF Known
  <1>13. Apart' /\ NumberIsFree'
    <2>1. ASSUME twice = FALSE
          PROVE  /\ \A p \in Post : post[p].pc = "numbered" => 0 # post[p].seq
                 /\ \A k \in Compaction : squeeze[k].pc = "numbered" => 0 # squeeze[k].seq
      BY <2>1 DEF Counted
    <2> QED
      BY <1>1, <1>3, <1>6, <2>1, NumbersStay DEF Gives
  <1>14. Unsaid' \subseteq Unsaid \ {c}
    BY <1>1, <1>4 DEF Unsaid, Known
  <1>15. \A x \in Conv : agent'[x].phase \in {"spawned", "prompted"} =>
           /\ agent[x].phase \in {"spawned", "prompted"} /\ agent'[x].boss = agent[x].boss
           /\ x # c
    BY <1>1, <1>4
  <1>16. Fresh'
    BY <1>1, <1>3, <1>14, <1>15, FreshStays DEF Knows
  <1>17. News
    <2>1. \A k \in Compaction : squeeze[k].conv = boss => c \notin squeeze[k].seen
      BY <1>1 DEF Fresh, Knows
    <2> QED
      BY <1>1, <1>3, <2>1, ZenonT(60) DEF News
  <1>18. LastingWindows
    BY <1>1 DEF LastingWindows, RowsOf, Open
  <1> QED
    BY <1>1, <1>7, <1>11, <1>12, <1>13, <1>16, <1>17, <1>18, WindowsLast

-----------------------------------------------------------------------------
(* Compression.                                                            *)

\* A compression goes on hiding what it hides.
HidesLast ==
  \A j \in Compaction :
    \/ squeeze[j].hides = 0
    \/ /\ squeeze'[j].conv = squeeze[j].conv /\ squeeze'[j].seen = squeeze[j].seen
       /\ squeeze'[j].hides >= squeeze[j].hides
       /\ squeeze[j].lost = TRUE => squeeze'[j].lost = TRUE

LEMMA ExplainedLasts ==
  ASSUME TypeOK, TypeOK', HidesLast
  PROVE  /\ \A r \in rows : Explained(r) => Explained(r)'
         /\ \A c, m : m \in Nat /\ m > 0 /\ Hides(c, m) => Hides(c, m)'
  <1>1. \A j \in Compaction : squeeze[j].hides \in Nat /\ squeeze'[j].hides \in Nat
    BY DEF TypeOK, CompactionType
  <1>2. ASSUME NEW r \in rows, Explained(r) PROVE Explained(r)'
    <2>1. PICK j \in Compaction : Explains(j, r)
      BY <1>2 DEF Explained
    <2>2. r.seq \in Nat /\ squeeze[j].hides # 0
      BY <1>1, <2>1 DEF TypeOK, RowType, Explains
    <2>3. /\ squeeze'[j].conv = squeeze[j].conv /\ squeeze'[j].seen = squeeze[j].seen
          /\ squeeze'[j].hides >= squeeze[j].hides
          /\ squeeze[j].lost = TRUE => squeeze'[j].lost = TRUE
      BY <2>2 DEF HidesLast
    <2>4. squeeze'[j].hides > r.seq
      BY <1>1, <2>1, <2>2, <2>3 DEF Explains
    <2>5. Explains(j, r)'
      BY <2>1, <2>3, <2>4 DEF Explains
    <2> QED
      BY <2>5 DEF Explained
  <1>3. ASSUME NEW c, NEW m \in Nat, m > 0, Hides(c, m) PROVE Hides(c, m)'
    <2>1. PICK j \in Compaction : squeeze[j].conv = c /\ squeeze[j].hides >= m
      BY <1>3 DEF Hides
    <2>2. squeeze'[j].conv = squeeze[j].conv /\ squeeze'[j].hides >= squeeze[j].hides
      BY <1>1, <1>3, <2>1 DEF HidesLast
    <2>3. squeeze'[j].hides >= m
      BY <1>1, <1>3, <2>1, <2>2
    <2> QED
      BY <2>1, <2>2, <2>3 DEF Hides
  <1> QED
    BY <1>2, <1>3

\* A step of a compression that stores nothing.
LEMMA WindowsRest ==
  ASSUME TypeOK, TypeOK', HidesLast, UNCHANGED <<conv, rows>>,
         Kept, Loads, Loaded, Hidden, SummaryOpensWindow,
         \A k \in Compaction : squeeze'[k].pc \in {"new", "loading"} =>
           squeeze'[k].hides = 0 /\ Knows(k)' = {},
         \A k \in Compaction : squeeze'[k].pc = "loading" =>
           \/ /\ squeeze[k].pc = "loading" /\ squeeze'[k].conv = squeeze[k].conv
              /\ squeeze'[k].min = squeeze[k].min
           \/ Open(squeeze'[k].conv) /\ squeeze'[k].min = conv[squeeze'[k].conv].minSeq,
         \A k \in Compaction : squeeze'[k].pc \in {"loaded", "numbered"} =>
           \/ /\ squeeze[k].pc \in {"loaded", "numbered"}
              /\ squeeze'[k].conv = squeeze[k].conv
              /\ squeeze'[k].seen = squeeze[k].seen /\ squeeze'[k].read = squeeze[k].read
           \/ /\ squeeze[k].pc = "loading" /\ squeeze'[k].conv = squeeze[k].conv
              /\ squeeze'[k].read = SaidIn(From(squeeze[k].conv, squeeze[k].min))
  PROVE  Kept' /\ Loads' /\ Loaded' /\ Hidden' /\ SummaryOpensWindow'
  <1>1. /\ \A r \in rows : Explained(r) => Explained(r)'
        /\ \A c, m : m \in Nat /\ m > 0 /\ Hides(c, m) => Hides(c, m)'
    BY ExplainedLasts
  <1>2. /\ \A c : Context(c)' = Context(c) /\ RowsOf(c)' = RowsOf(c) /\ Open(c)' = Open(c)
        /\ \A c, m : SaidIn(From(c, m))' = SaidIn(From(c, m))
    BY DEF Context, Window, RowsOf, Open, SaidIn, From
  <1>3. Kept'
    BY <1>1, <1>2 DEF Kept
  <1>4. Loads'
    <2> SUFFICES ASSUME NEW k \in Compaction, squeeze'[k].pc = "loading",
                        NEW r \in RowsOf(squeeze'[k].conv), r.summary = FALSE, ~Explained(r)'
                 PROVE  r.says \subseteq SaidIn(From(squeeze'[k].conv, squeeze'[k].min))
      BY <1>2 DEF Loads, RowsOf, SaidIn, From
    <2>1. r \in rows /\ r.conv = squeeze'[k].conv
      BY DEF RowsOf
    <2>2. CASE /\ squeeze[k].pc = "loading" /\ squeeze'[k].conv = squeeze[k].conv
               /\ squeeze'[k].min = squeeze[k].min
      BY <1>1, <2>1, <2>2 DEF Loads
    <2>3. CASE squeeze'[k].min = conv[squeeze'[k].conv].minSeq
      <3>1. r.says \subseteq Context(squeeze'[k].conv)
        BY <1>1, <2>1 DEF Kept
      <3> QED
        BY <2>3, <3>1 DEF Context, Window, SaidIn, From
    <2> QED
      BY <2>2, <2>3
  <1>5. Loaded'
    <2> SUFFICES ASSUME NEW k \in Compaction, squeeze'[k].pc \in {"loaded", "numbered"},
                        NEW r \in rows, r.conv = squeeze'[k].conv, r.summary = FALSE,
                        ~Explained(r)', r.says \subseteq squeeze'[k].seen
                 PROVE  r.says \subseteq squeeze'[k].read
      BY DEF Loaded, RowsOf
    <2>1. CASE squeeze[k].pc = "loading" /\ squeeze'[k].conv = squeeze[k].conv
               /\ squeeze'[k].read = SaidIn(From(squeeze[k].conv, squeeze[k].min))
      BY <1>1, <2>1 DEF Loads, RowsOf
    <2>2. CASE /\ squeeze[k].pc \in {"loaded", "numbered"}
               /\ squeeze'[k].conv = squeeze[k].conv
               /\ squeeze'[k].seen = squeeze[k].seen /\ squeeze'[k].read = squeeze[k].read
      BY <1>1, <2>2 DEF Loaded, RowsOf
    <2> QED
      BY <2>1, <2>2
  <1>6. Hidden'
    <2>1. \A c \in Conv : conv[c].minSeq \in Nat
      BY DEF TypeOK
    <2>2. \A k \in Compaction : squeeze'[k].conv \in Conv /\ squeeze[k].min \in Nat
      BY DEF TypeOK, CompactionType
    <2>3. ASSUME NEW c \in Conv, Open(c)', NEW m, m = conv'[c].minSeq, m > 0
          PROVE  Hides(c, m)'
      <3>1. Open(c) /\ m = conv[c].minSeq /\ m \in Nat
        BY <1>2, <2>1, <2>3
      <3> QED
        BY <1>1, <2>3, <3>1 DEF Hidden
    <2>4. ASSUME NEW k \in Compaction, squeeze'[k].pc = "loading", NEW c, c = squeeze'[k].conv,
                 NEW m, m = squeeze'[k].min, m > 0
          PROVE  Hides(c, m)'
      <3>1. m \in Nat /\ c \in Conv
        BY <2>4 DEF TypeOK, CompactionType
      <3>2. \/ squeeze[k].pc = "loading" /\ c = squeeze[k].conv /\ m = squeeze[k].min
            \/ Open(c) /\ m = conv[c].minSeq
        BY <2>4
      <3>3. Hides(c, m)
        BY <2>4, <3>1, <3>2 DEF Hidden
      <3> QED
        BY <1>1, <2>4, <3>1, <3>3
    <2> QED
      BY <2>3, <2>4 DEF Hidden, Hides
  <1>7. SummaryOpensWindow'
    BY <1>2 DEF SummaryOpensWindow, Window
  <1> QED
    BY <1>3, <1>4, <1>5, <1>6, <1>7

\* A step of one compression.
LEMMA OneMoves ==
  ASSUME TypeOK, NEW k \in Compaction, NEW s \in CompactionType,
         squeeze' = [squeeze EXCEPT ![k] = s]
  PROVE  /\ squeeze' \in [Compaction -> CompactionType]
         /\ squeeze'[k] = s
         /\ \A j \in Compaction \ {k} : squeeze'[j] = squeeze[j]
  <1>1. squeeze \in [Compaction -> CompactionType]
    BY DEF TypeOK
  <1> QED
    BY <1>1

LEMMA StartKeeps ==
  ASSUME Inv, NEW k \in Compaction, NEW c \in Conv, StartCompaction(k, c)
  PROVE  Inv'
  <1> USE DEF Inv
  <1>1. UNCHANGED <<numberVars, conv, rows, post, agent, branch>>
    BY DEF StartCompaction
  <1>2. squeeze[k].pc = "new" /\ conv[c].state = "open"
    BY DEF StartCompaction, Open
  <1>3. squeeze[k] \in CompactionType /\ conv[c].minSeq \in Nat
    BY DEF TypeOK
  <1>4. PICK s : /\ s = [squeeze[k] EXCEPT !.pc = "loading", !.conv = c, !.min = conv[c].minSeq]
                 /\ squeeze' = [squeeze EXCEPT ![k] = s]
    BY DEF StartCompaction
  <1>5. /\ s \in CompactionType /\ s.pc = "loading" /\ s.conv = c
        /\ s.min = conv[c].minSeq /\ s.hides = squeeze[k].hides
        /\ s.read = squeeze[k].read /\ s.seen = squeeze[k].seen
    BY <1>3, <1>4 DEF CompactionType
  <1>6. /\ squeeze' \in [Compaction -> CompactionType] /\ squeeze'[k] = s
        /\ \A j \in Compaction \ {k} : squeeze'[j] = squeeze[j]
    BY <1>4, <1>5, OneMoves
  <1>7. TypeOK'
    BY <1>1, <1>6 DEF TypeOK, Open
  <1>8. squeeze[k].hides = 0 /\ Knows(k) = {} /\ Knows(k)' = {}
    BY <1>2, <1>5, <1>6 DEF Hidden, Knows
  <1>9. Counted' /\ Copied'
    <2>1. s.pc # "numbered"
      BY <1>5
    <2>2. Counted'
      BY <1>1, <1>6, <2>1 DEF Counted
    <2> QED
      BY <1>1, <2>2 DEF Copied
  <1>10. Known'
    BY <1>1, <1>2, <1>5, <1>6 DEF Known
  <1>11. Apart' /\ NumberIsFree'
    BY <1>1, <1>5, <1>6, NumbersStay
  <1>12. Unsaid' \subseteq Unsaid
    BY <1>1 DEF Unsaid
  <1>13. \A j \in Compaction \ {k} : Knows(j)' = Knows(j)
    BY <1>6 DEF Knows
  <1>14. Fresh'
    BY <1>1, <1>6, <1>8, <1>12, <1>13, FreshStays
  <1>15. HidesLast
    BY <1>6, <1>8 DEF HidesLast, TypeOK, CompactionType
  <1>16. Kept' /\ Loads' /\ Loaded' /\ Hidden' /\ SummaryOpensWindow'
    <2>1. \A j \in Compaction : squeeze'[j].pc \in {"new", "loading"} =>
            squeeze'[j].hides = 0 /\ Knows(j)' = {}
      BY <1>5, <1>6, <1>8, <1>13 DEF Hidden
    <2> QED
      BY <1>1, <1>2, <1>5, <1>6, <1>7, <1>15, <2>1, WindowsRest DEF Open
  <1> QED
    BY <1>7, <1>9, <1>10, <1>11, <1>14, <1>16

LEMMA SaidIsSaid ==
  ASSUME TypeOK, NEW R \in SUBSET rows
  PROVE  SaidIn(R) \in SUBSET Said
  <1>1. \A r \in R : r.says \in SUBSET Said
    BY DEF TypeOK, RowType
  <1> QED
    BY <1>1 DEF SaidIn

LEMMA LoadKeeps ==
  ASSUME Inv, NEW k \in Compaction, LoadMessages(k)
  PROVE  Inv'
  <1> USE DEF Inv
  <1>1. UNCHANGED <<numberVars, conv, rows, post, agent, branch>>
    BY DEF LoadMessages
  <1>2. PICK c, read, seen, pc :
          /\ c = squeeze[k].conv /\ read = SaidIn(From(c, squeeze[k].min))
          /\ seen = SaidIn(RowsOf(c)) /\ pc \in {"done", "loaded"}
          /\ squeeze[k].pc = "loading"
          /\ squeeze' = [squeeze EXCEPT ![k] =
                           [squeeze[k] EXCEPT !.pc = pc, !.read = read, !.seen = seen]]
    BY DEF LoadMessages, SaidIn, From
  <1>3. read \in SUBSET Said /\ seen \in SUBSET Said
    <2>1. From(c, squeeze[k].min) \in SUBSET rows /\ RowsOf(c) \in SUBSET rows
      BY DEF From, RowsOf
    <2> QED
      BY <1>2, <2>1, SaidIsSaid
  <1>4. squeeze[k] \in CompactionType
    BY DEF TypeOK
  <1>5. PICK s : /\ s = [squeeze[k] EXCEPT !.pc = pc, !.read = read, !.seen = seen]
                 /\ squeeze' = [squeeze EXCEPT ![k] = s]
    BY <1>2
  <1>6. /\ s \in CompactionType /\ s.pc = pc /\ s.conv = c /\ s.hides = squeeze[k].hides
        /\ s.read = read /\ s.seen = seen
    BY <1>2, <1>3, <1>4, <1>5 DEF CompactionType
  <1>7. /\ squeeze' \in [Compaction -> CompactionType] /\ squeeze'[k] = s
        /\ \A j \in Compaction \ {k} : squeeze'[j] = squeeze[j]
    BY <1>5, <1>6, OneMoves
  <1>8. TypeOK'
    BY <1>1, <1>7 DEF TypeOK, Open
  <1>9. squeeze[k].hides = 0 /\ squeeze[k].pc = "loading" /\ squeeze[k].conv = c
        /\ pc # "numbered" /\ pc # "new" /\ pc # "loading"
    BY <1>2 DEF Hidden
  <1>10. Counted' /\ Copied'
    <2>1. s.pc # "numbered"
      BY <1>6, <1>9
    <2>2. Counted'
      BY <1>1, <1>7, <2>1 DEF Counted
    <2> QED
      BY <1>1, <2>2 DEF Copied
  <1>11. Known'
    BY <1>1, <1>6, <1>7, <1>9 DEF Known
  <1>12. Apart' /\ NumberIsFree'
    BY <1>1, <1>6, <1>7, <1>9, NumbersStay
  <1>13. Unsaid' \subseteq Unsaid
    BY <1>1 DEF Unsaid
  <1>14. \A j \in Compaction \ {k} : Knows(j)' = Knows(j)
    BY <1>7 DEF Knows
  <1>15. \A x \in Knows(k)' : \E r \in rows : r.conv = c /\ x \in r.says
    <2>1. Knows(k)' = read \cup seen
      BY <1>6, <1>7 DEF Knows
    <2>2. read \cup seen \subseteq SaidIn(RowsOf(c))
      BY <1>2 DEF SaidIn, From
    <2> QED
      BY <2>1, <2>2 DEF SaidIn, RowsOf
  <1>16. Fresh'
    BY <1>1, <1>6, <1>7, <1>13, <1>14, <1>15, FreshStays
  <1>17. HidesLast
    BY <1>7, <1>9 DEF HidesLast, TypeOK, CompactionType
  <1>18. Kept' /\ Loads' /\ Loaded' /\ Hidden' /\ SummaryOpensWindow'
    <2>1. \A j \in Compaction : squeeze'[j].pc \in {"new", "loading"} =>
            squeeze'[j].hides = 0 /\ Knows(j)' = {}
      BY <1>6, <1>7, <1>9, <1>14 DEF Hidden
    <2> QED
      BY <1>1, <1>2, <1>6, <1>7, <1>8, <1>9, <1>17, <2>1, WindowsRest
  <1> QED
    BY <1>8, <1>10, <1>11, <1>12, <1>16, <1>18

LEMMA NumberSummaryKeeps ==
  ASSUME Inv, NEW k \in Compaction, NumberSummary(k)
  PROVE  Inv'
  <1> USE DEF Inv
  <1>1. UNCHANGED <<conv, rows, post, agent, branch>>
    BY DEF NumberSummary
  <1>2. PICK n : n = counter + 2 /\ Takes(n) /\ n \in Nat /\ counter < n /\ counter <= n
    BY DEF NumberSummary, TypeOK
  <1>21. Gives /\ (twice' = FALSE => counter = peak /\ peak' = n)
    BY <1>2, Taken
  <1>22. peak \in Nat /\ 2 <= peak /\ (twice' = FALSE => twice = FALSE)
    BY <1>21 DEF TypeOK, Counted, Gives
  <1>3. PICK calls : calls = squeeze[k].calls + 1 /\ calls \in 0 .. MaxCalls
    BY DEF NumberSummary, TypeOK, CompactionType
  <1>4. squeeze[k] \in CompactionType /\ squeeze[k].pc = "loaded"
    BY DEF TypeOK, NumberSummary
  <1>5. PICK s : /\ s = [squeeze[k] EXCEPT !.pc = "numbered", !.seq = n, !.calls = calls]
                 /\ squeeze' = [squeeze EXCEPT ![k] = s]
    <2>1. squeeze' = [squeeze EXCEPT ![k] = [squeeze[k] EXCEPT
            !.pc = "numbered", !.seq = counter + 2, !.calls = squeeze[k].calls + 1]]
      BY DEF NumberSummary
    <2> QED
      BY <1>2, <1>3, <2>1
  <1>6. /\ s \in CompactionType /\ s.pc = "numbered" /\ s.conv = squeeze[k].conv
        /\ s.hides = squeeze[k].hides /\ s.read = squeeze[k].read
        /\ s.seen = squeeze[k].seen /\ s.seq = n /\ s.lost = squeeze[k].lost
    BY <1>2, <1>3, <1>4, <1>5 DEF CompactionType
  <1>7. /\ squeeze' \in [Compaction -> CompactionType] /\ squeeze'[k] = s
        /\ \A j \in Compaction \ {k} : squeeze'[j] = squeeze[j]
    BY <1>5, <1>6, OneMoves
  <1>8. TypeOK'
    BY <1>1, <1>7, <1>21 DEF TypeOK, Open, Gives
  <1>9. twice' = FALSE => \A m \in Nat : m <= peak => m # n
    BY <1>2, <1>21, <1>22
  <1>10. twice' = FALSE => s.seq \in 2 .. peak'
    BY <1>2, <1>6, <1>21, <1>22
  <1>11. Counted' /\ Copied'
    <2>1. IsFiniteSet(rows')
      BY <1>1 DEF Counted
    <2> QED
      BY <1>1, <1>7, <1>10, <1>21, <2>1, CountedStays
  <1>12. Known'
    BY <1>1, <1>6, <1>7 DEF Known
  <1>13. ASSUME twice' = FALSE
         PROVE  /\ \A p \in Post : post[p].pc = "numbered" => post[p].seq # n
                /\ \A j \in Compaction : squeeze[j].pc = "numbered" => squeeze[j].seq # n
    BY <1>2, <1>13, <1>21, <1>22 DEF Counted
  <1>14. Apart'
    <2> SUFFICES ASSUME twice' = FALSE PROVE Apart'
      BY DEF Apart
    <2>1. /\ \A p \in Post : post[p].pc = "numbered" => post[p].seq # n
          /\ \A j \in Compaction : squeeze[j].pc = "numbered" => squeeze[j].seq # n
          /\ twice = FALSE /\ post' = post
      BY <1>1, <1>13, <1>22
    <2> QED
      BY <1>6, <1>7, <2>1 DEF Apart
  <1>15. NumberIsFree'
    <2>1. twice' = FALSE => \A r \in rows : r.seq # n
      BY <1>9, <1>22 DEF Counted, TypeOK, RowType
    <2> QED
      BY <1>1, <1>6, <1>7, <1>22, <2>1 DEF NumberIsFree, RowsOf
  <1>16. Unsaid' \subseteq Unsaid
    BY <1>1 DEF Unsaid
  <1>17. \A j \in Compaction : Knows(j)' = Knows(j) /\ squeeze'[j].conv = squeeze[j].conv
    BY <1>6, <1>7 DEF Knows
  <1>18. Fresh'
    BY <1>1, <1>16, <1>17, FreshStays
  <1>19. HidesLast
    BY <1>6, <1>7 DEF HidesLast, TypeOK, CompactionType
  <1>20. Kept' /\ Loads' /\ Loaded' /\ Hidden' /\ SummaryOpensWindow'
    <2>1. \A j \in Compaction : squeeze'[j].pc \in {"new", "loading"} =>
            squeeze'[j].hides = 0 /\ Knows(j)' = {}
      BY <1>6, <1>7, <1>17 DEF Hidden
    <2> QED
      BY <1>1, <1>4, <1>6, <1>7, <1>8, <1>19, <2>1, WindowsRest
  <1> QED
    BY <1>8, <1>11, <1>12, <1>14, <1>15, <1>18, <1>20

LEMMA CommitFailsKeeps ==
  ASSUME Inv, NEW k \in Compaction, CommitFails(k)
  PROVE  Inv'
  <1> USE DEF Inv
  <1>1. UNCHANGED <<numberVars, conv, rows, post, agent, branch>>
    BY DEF CommitFails
  <1>2. squeeze[k] \in CompactionType
    BY DEF TypeOK
  <1>3. PICK s : /\ s = [squeeze[k] EXCEPT !.pc = "done"]
                 /\ squeeze' = [squeeze EXCEPT ![k] = s]
    BY DEF CommitFails
  <1>4. /\ s \in CompactionType /\ s.pc = "done" /\ s.conv = squeeze[k].conv
        /\ s.hides = squeeze[k].hides /\ s.read = squeeze[k].read
        /\ s.seen = squeeze[k].seen /\ s.lost = squeeze[k].lost
    BY <1>2, <1>3 DEF CompactionType
  <1>5. /\ squeeze' \in [Compaction -> CompactionType] /\ squeeze'[k] = s
        /\ \A j \in Compaction \ {k} : squeeze'[j] = squeeze[j]
    BY <1>3, <1>4, OneMoves
  <1>6. TypeOK'
    BY <1>1, <1>5 DEF TypeOK, Open
  <1>7. Counted'
    BY <1>1, <1>4, <1>5 DEF Counted
  <1>8. Copied' /\ Known'
    BY <1>1, <1>4, <1>5 DEF Copied, Known
  <1>9. Apart' /\ NumberIsFree'
    BY <1>1, <1>4, <1>5, NumbersStay
  <1>10. Unsaid' \subseteq Unsaid
    BY <1>1 DEF Unsaid
  <1>11. \A j \in Compaction : Knows(j)' = Knows(j) /\ squeeze'[j].conv = squeeze[j].conv
    BY <1>4, <1>5 DEF Knows
  <1>12. Fresh'
    BY <1>1, <1>10, <1>11, FreshStays
  <1>13. HidesLast
    BY <1>4, <1>5 DEF HidesLast, TypeOK, CompactionType
  <1>14. Kept' /\ Loads' /\ Loaded' /\ Hidden' /\ SummaryOpensWindow'
    <2>1. \A j \in Compaction : squeeze'[j].pc \in {"new", "loading"} =>
            squeeze'[j].hides = 0 /\ Knows(j)' = {}
      BY <1>4, <1>5, <1>11 DEF Hidden
    <2> QED
      BY <1>1, <1>4, <1>5, <1>6, <1>13, <2>1, WindowsRest
  <1> QED
    BY <1>6, <1>7, <1>8, <1>9, <1>12, <1>14

\* The step on which the properties rest: the new window hides what the summary does
\* not say only if that explains it.
LEMMA CommitSummaryKeeps ==
  ASSUME Inv, NEW k \in Compaction, NEW written, CommitSummary(k, written)
  PROVE  Inv'
  <1> USE DEF Inv
  <1>1. UNCHANGED <<numberVars, post, agent, branch>>
    BY DEF CommitSummary
  <1>2. PICK c, n, r1 :
          /\ c = squeeze[k].conv /\ n = squeeze[k].seq /\ r1 = Summary(c, n, written)
          /\ squeeze[k].pc = "numbered" /\ Insertable(c, n)
          /\ rows' = rows \cup {r1} /\ conv' = [conv EXCEPT ![c].minSeq = n]
    BY DEF CommitSummary
  <1>3. written = squeeze[k].read \/ written = {}
    BY DEF CommitSummary
  <1>4. squeeze[k] \in CompactionType
    BY DEF TypeOK
  <1>5. c \in Conv /\ n \in Nat /\ written \in SUBSET Said
    BY <1>2, <1>3, <1>4 DEF CompactionType
  <1>6. r1 \in RowType /\ r1.conv = c /\ r1.seq = n /\ r1.says = written /\ r1.summary = TRUE
    <2>1. r1 = [conv |-> c, seq |-> n, says |-> written, summary |-> TRUE]
      BY <1>2 DEF Summary
    <2> QED
      BY <1>5, <2>1, SMT DEF RowType
  <1>7. PICK lost \in BOOLEAN, h \in Nat :
          /\ squeeze[k].lost = TRUE => lost = TRUE
          /\ written # squeeze[k].read => lost = TRUE
          /\ n <= h /\ squeeze[k].hides <= h
          /\ squeeze' = [squeeze EXCEPT ![k] =
                           [squeeze[k] EXCEPT !.pc = "loaded", !.hides = h, !.lost = lost]]
    <2> DEFINE L == squeeze[k].lost \/ written # squeeze[k].read
               H == Later(squeeze[k].seq, squeeze[k].hides)
    <2>1. L \in BOOLEAN
      OBVIOUS
    <2>2. squeeze[k].lost = TRUE => L = TRUE
      OBVIOUS
    <2>3. written # squeeze[k].read => L = TRUE
      OBVIOUS
    <2>4. squeeze' = [squeeze EXCEPT ![k] =
            [squeeze[k] EXCEPT !.pc = "loaded", !.hides = H, !.lost = L]]
      BY Zenon DEF CommitSummary
    <2>5. H \in Nat /\ n <= H /\ squeeze[k].hides <= H
      BY <1>2, <1>4 DEF Later, CompactionType
    <2> HIDE DEF L, H
    <2> QED
      BY <1>2, <2>1, <2>2, <2>3, <2>4, <2>5
  <1>8. PICK s : /\ s = [squeeze[k] EXCEPT !.pc = "loaded", !.hides = h, !.lost = lost]
                 /\ squeeze' = [squeeze EXCEPT ![k] = s]
    BY <1>7
  <1>9. /\ s \in CompactionType /\ s.pc = "loaded" /\ s.conv = c /\ s.hides = h
        /\ s.read = squeeze[k].read /\ s.seen = squeeze[k].seen /\ s.lost = lost
    BY <1>2, <1>4, <1>5, <1>7, <1>8 DEF CompactionType
  <1>10. /\ squeeze' \in [Compaction -> CompactionType] /\ squeeze'[k] = s
         /\ \A j \in Compaction \ {k} : squeeze'[j] = squeeze[j]
    BY <1>8, <1>9, OneMoves
  <1>11. /\ conv' \in [Conv -> [state : {"none", "open", "deleted"}, parent : Conv \cup {NoConv},
                                minSeq : Nat, latest : Nat]]
         /\ conv'[c].minSeq = n /\ \A d \in Conv : conv'[d].state = conv[d].state
         /\ \A d \in Conv \ {c} : conv'[d] = conv[d]
    <2>1. conv \in [Conv -> [state : {"none", "open", "deleted"}, parent : Conv \cup {NoConv},
                             minSeq : Nat, latest : Nat]]
      BY DEF TypeOK
    <2>2. PICK cv : cv = [conv[c] EXCEPT !.minSeq = n] /\ conv' = [conv EXCEPT ![c] = cv]
      BY <1>2
    <2>3. /\ cv \in [state : {"none", "open", "deleted"}, parent : Conv \cup {NoConv},
                     minSeq : Nat, latest : Nat]
          /\ cv.minSeq = n /\ cv.state = conv[c].state
      BY <1>5, <2>1, <2>2
    <2> QED
      BY <1>5, <2>1, <2>2, <2>3
  <1>12. \A d \in Conv : Open(d)' <=> Open(d)
    BY <1>11 DEF Open
  <1>13. RowsOK'
    BY <1>2, <1>6, <1>12, RowAdded
  <1>14. TypeOK'
    BY <1>1, <1>10, <1>11, <1>13 DEF TypeOK, RowsOK
  <1>15. Gives
    BY <1>1 DEF Gives, TypeOK, Counted
  <1>16. s.pc # "numbered" /\ s.hides \in Nat /\ n <= s.hides
    BY <1>7, <1>9
  <1>17. Counted' /\ Copied'
    <2>1. IsFiniteSet(rows')
      BY <1>2, FS_AddElement DEF Counted
    <2>2. twice' = FALSE => \A r \in rows' : r \in rows \/ r.seq <= peak'
      BY <1>1, <1>2, <1>6 DEF Counted
    <2> QED
      BY <1>1, <1>10, <1>15, <1>16, <2>1, <2>2, CountedStays
  <1>18. Known'
    <2>1. /\ \A j \in Compaction : squeeze'[j].conv = squeeze[j].conv
          /\ \A d \in Conv : conv'[d].state = conv[d].state
      BY <1>2, <1>9, <1>10, <1>11
    <2>2. /\ \A p \in Post : post[p].conv \in Conv
          /\ \A j \in Compaction : squeeze[j].conv \in Conv
      BY DEF TypeOK, PostType, CompactionType
    <2> QED
      BY <1>1, <2>1, <2>2 DEF Known
  <1>19. Apart' /\ NumberIsFree'
    <2>1. ASSUME twice' = FALSE
          PROVE  /\ \A p \in Post : post[p].pc = "numbered" => n # post[p].seq
                 /\ \A j \in Compaction \ {k} : squeeze[j].pc = "numbered" => n # squeeze[j].seq
      BY <1>1, <1>2, <2>1 DEF Apart
    <2>2. twice' = FALSE => \A r \in rows' : r \in rows \/
            /\ \A p \in Post : post'[p].pc = "numbered" /\ post[p].conv = r.conv
                 => r.seq # post[p].seq
            /\ \A j \in Compaction : squeeze'[j].pc = "numbered" /\ squeeze[j].conv = r.conv
                 => r.seq # squeeze[j].seq
      <3>1. \A r \in rows' : r \in rows \/ r.seq = n
        BY <1>2, <1>6
      <3>2. post' = post /\ \A j \in Compaction : squeeze'[j].pc = "numbered" =>
              j # k /\ squeeze'[j] = squeeze[j]
        BY <1>1, <1>9, <1>10
      <3> QED
        BY <2>1, <3>1, <3>2
    <2> QED
      BY <1>1, <1>9, <1>10, <2>2, NumbersStay
  <1>20. Unsaid' \subseteq Unsaid
    BY <1>1, <1>11 DEF Unsaid
  <1>21. \A j \in Compaction : Knows(j)' = Knows(j) /\ squeeze'[j].conv = squeeze[j].conv
    BY <1>2, <1>9, <1>10 DEF Knows
  <1>22. Fresh'
    <2>1. written \subseteq Knows(k)
      BY <1>3 DEF Knows
    <2>2. \A x \in Unsaid' : x \notin written
      BY <1>20, <2>1 DEF Fresh
    <2>3. \A d \in Conv : agent[d].phase \in {"spawned", "prompted"} /\ agent[d].boss = c
            => d \notin written
      BY <1>2, <2>1 DEF Fresh
    <2>4. \A r \in rows' : r \in rows \/
            /\ \A x \in Unsaid' : x \notin r.says
            /\ \A d \in Conv : agent'[d].phase \in {"spawned", "prompted"} /\ agent'[d].boss = r.conv
                 => d \notin r.says
      BY <1>1, <1>2, <1>6, <2>2, <2>3
    <2> QED
      BY <1>1, <1>20, <1>21, <2>4, FreshStays
  <1>23. HidesLast
    BY <1>2, <1>7, <1>9, <1>10 DEF HidesLast, TypeOK, CompactionType
  <1>24. /\ \A r \in rows : Explained(r) => Explained(r)'
         /\ \A d, m : m \in Nat /\ m > 0 /\ Hides(d, m) => Hides(d, m)'
    BY <1>14, <1>23, ExplainedLasts
  <1>25. r1 \in Window(c)'
    <2>1. n >= n
      BY <1>5
    <2> QED
      BY <1>2, <1>6, <1>11, <2>1 DEF Window, RowsOf
  <1>26. Kept'
    <2> SUFFICES ASSUME NEW r \in rows', r.summary = FALSE, ~Explained(r)'
                 PROVE  r.says \subseteq Context(r.conv)'
      BY DEF Kept
    <2>1. r \in rows /\ r.conv \in Conv /\ r.seq \in Nat
      BY <1>2, <1>6 DEF TypeOK, RowType
    <2>2. r.says \subseteq Context(r.conv) /\ ~Explained(r)
      BY <1>24, <2>1 DEF Kept
    <2>3. CASE r.conv # c
      <3>1. Window(r.conv) \subseteq Window(r.conv)'
        BY <1>2, <1>11, <2>1, <2>3 DEF Window, RowsOf
      <3> QED
        BY <2>2, <3>1 DEF Context
    <2>4. CASE r.conv = c /\ r.seq >= n
      BY <1>2, <1>11, <2>1, <2>4 DEF Context, Window, RowsOf
    <2>5. CASE r.conv = c /\ n > r.seq
      <3>1. lost # TRUE /\ r.says \subseteq squeeze[k].seen
        <4>1. s.hides > r.seq
          BY <1>5, <1>16, <2>1, <2>5
        <4> QED
          BY <1>9, <1>10, <2>5, <4>1 DEF Explained, Explains
      <3>2. written = squeeze[k].read
        BY <1>7, <3>1
      <3>3. r.says \subseteq squeeze[k].read
        BY <1>2, <2>1, <2>2, <2>5, <3>1 DEF Loaded, RowsOf
      <3>4. r.says \subseteq r1.says
        BY <1>6, <3>2, <3>3
      <3> QED
        BY <1>25, <2>5, <3>4 DEF Context
    <2> QED
      BY <1>5, <2>1, <2>3, <2>4, <2>5
  <1>27. Loads'
    <2>1. ASSUME NEW j \in Compaction, squeeze'[j].pc = "loading",
                 NEW d, d = squeeze'[j].conv, NEW m, m = squeeze'[j].min,
                 NEW r \in rows', r.conv = d, r.summary = FALSE, ~Explained(r)'
          PROVE  r.says \subseteq SaidIn(From(d, m))'
      <3>1. r \in rows /\ squeeze'[j] = squeeze[j]
        BY <1>2, <1>6, <1>9, <1>10, <2>1
      <3>2. r.says \subseteq SaidIn(From(d, m))
        BY <1>24, <2>1, <3>1 DEF Loads, RowsOf
      <3>3. From(d, m) \subseteq From(d, m)'
        BY <1>2 DEF From, RowsOf
      <3> QED
        BY <3>2, <3>3 DEF SaidIn
    <2>2. ASSUME NEW j \in Compaction, squeeze'[j].pc = "loading",
                 NEW r \in rows', r.conv = squeeze'[j].conv, r.summary = FALSE, ~Explained(r)'
          PROVE  r.says \subseteq UNION {t.says : t \in
                   {t \in rows' : t.conv = squeeze'[j].conv /\ t.seq >= squeeze'[j].min}}
      <3>1. PICK d, m : d = squeeze'[j].conv /\ m = squeeze'[j].min
        OBVIOUS
      <3>2. r.says \subseteq SaidIn(From(d, m))'
        BY <2>1, <2>2, <3>1
      <3> QED
        BY <3>1, <3>2 DEF SaidIn, From, RowsOf
    <2> QED
      BY <2>2, ZenonT(60) DEF Loads, SaidIn, From, RowsOf
  <1>28. Loaded'
    <2> SUFFICES ASSUME NEW j \in Compaction, squeeze'[j].pc \in {"loaded", "numbered"},
                        NEW r \in rows', r.conv = squeeze'[j].conv, r.summary = FALSE,
                        ~Explained(r)', r.says \subseteq squeeze'[j].seen
                 PROVE  r.says \subseteq squeeze'[j].read
      BY DEF Loaded, RowsOf
    <2>1. r \in rows
      BY <1>2, <1>6
    <2>2. /\ squeeze[j].pc \in {"loaded", "numbered"} /\ squeeze'[j].conv = squeeze[j].conv
          /\ squeeze'[j].read = squeeze[j].read /\ squeeze'[j].seen = squeeze[j].seen
      BY <1>2, <1>9, <1>10
    <2> QED
      BY <1>24, <2>1, <2>2 DEF Loaded, RowsOf
  <1>29. Hidden'
    <2>1. \A j \in Compaction : squeeze'[j].pc \in {"new", "loading"} =>
            squeeze'[j].hides = 0 /\ Knows(j)' = {}
      BY <1>9, <1>10, <1>21 DEF Hidden
    <2>2. ASSUME NEW d \in Conv, Open(d)', NEW m, m = conv'[d].minSeq, m > 0
          PROVE  Hides(d, m)'
      <3>1. CASE d = c
        <4>1. s.hides >= m /\ s.conv = d
          BY <1>5, <1>9, <1>11, <1>16, <2>2, <3>1
        <4> QED
          BY <1>10, <4>1 DEF Hides
      <3>2. CASE d # c
        <4>1. Open(d) /\ m = conv[d].minSeq /\ m \in Nat
          BY <1>11, <1>12, <2>2, <3>2 DEF TypeOK
        <4> QED
          BY <1>24, <2>2, <4>1 DEF Hidden
      <3> QED
        BY <3>1, <3>2
    <2>3. ASSUME NEW j \in Compaction, squeeze'[j].pc = "loading", NEW d, d = squeeze'[j].conv,
                 NEW m, m = squeeze'[j].min, m > 0
          PROVE  Hides(d, m)'
      <3>1. squeeze'[j] = squeeze[j]
        BY <1>9, <1>10, <2>3
      <3>2. m \in Nat /\ Hides(d, m)
        BY <2>3, <3>1 DEF Hidden, TypeOK, CompactionType
      <3> QED
        BY <1>24, <2>3, <3>2
    <2> QED
      BY <2>1, <2>2, <2>3 DEF Hidden, Hides
  <1>30. SummaryOpensWindow'
    <2> SUFFICES ASSUME NEW d \in Conv, Open(d)', conv'[d].minSeq > 0
                 PROVE  \E r \in Window(d)' : r.summary /\ r.seq = conv'[d].minSeq
      BY DEF SummaryOpensWindow
    <2>1. CASE d = c
      BY <1>6, <1>11, <1>25, <2>1
    <2>2. CASE d # c
      <3>1. Open(d) /\ conv'[d].minSeq = conv[d].minSeq
        BY <1>11, <1>12, <2>2
      <3>2. PICK r \in Window(d) : r.summary /\ r.seq = conv[d].minSeq
        BY <3>1 DEF SummaryOpensWindow
      <3> QED
        BY <1>2, <3>1, <3>2 DEF Window, RowsOf
    <2> QED
      BY <2>1, <2>2
  <1> QED
    BY <1>14, <1>17, <1>18, <1>19, <1>22, <1>26, <1>27, <1>28, <1>29, <1>30

-----------------------------------------------------------------------------
(* The invariant holds.                                                    *)

LEMMA InvInit == Init => Inv
  <1> SUFFICES ASSUME Init PROVE Inv
    OBVIOUS
  <1>1. /\ counter = 2 /\ peak = 2 /\ twice = FALSE
        /\ post = [p \in Post |-> Handler("new")]
        /\ agent = [c \in Conv |-> [phase |-> "none", boss |-> NoConv]]
        /\ branch = [b \in Branch |-> [pc |-> "new", read |-> {}]]
    BY DEF Init
  <1>2. conv = [c \in Conv |-> IF c = First THEN NewConv(NoConv) ELSE NoRow("none")]
    BY DEF Init
  <1>3. PICK told, empty :
          /\ told = [conv |-> First, seq |-> 2, says |-> {First}, summary |-> FALSE]
          /\ empty = [conv |-> First, seq |-> 0, says |-> {}, summary |-> FALSE]
          /\ rows = {told} \/ rows = {told, empty}
    <2>1. PICK told, empty : told = Message(First, 2, {First}) /\ empty = Message(First, 0, {})
      OBVIOUS
    <2>2. PICK reports \in SUBSET {empty} : rows = {told} \cup reports
      BY <2>1 DEF Init
    <2>3. rows = {told} \/ rows = {told, empty}
      BY <2>2
    <2> QED
      BY <2>1, <2>3 DEF Message
  <1>4. PICK s : /\ s = [pc |-> "new", conv |-> First, min |-> 0, read |-> {},
                         seen |-> {}, calls |-> 0, seq |-> 0, hides |-> 0, lost |-> FALSE]
                 /\ squeeze = [k \in Compaction |-> s]
    BY DEF Init
  <1>5. s \in CompactionType
    BY <1>4 DEF CompactionType
  <1>6. /\ s.pc = "new" /\ s.conv = First /\ s.read = {} /\ s.seen = {} /\ s.hides = 0
        /\ squeeze \in [Compaction -> CompactionType] /\ \A k \in Compaction : squeeze[k] = s
    BY <1>4, <1>5
  <1>7. /\ conv \in [Conv -> [state : {"none", "open", "deleted"}, parent : Conv \cup {NoConv},
                              minSeq : Nat, latest : Nat]]
        /\ conv[First].state = "open" /\ \A c \in Conv : conv[c].minSeq = 0
        /\ \A c \in Conv : c # First => conv[c].state = "none"
    BY <1>2 DEF NewConv, NoRow
  <1>8. told \in RowType /\ told.conv = First /\ told.seq = 2 /\ told.says = {First}
    <2>1. {First} \in SUBSET Said
      BY DEF Said
    <2> QED
      BY <1>3, <2>1 DEF RowType
  <1>9. empty \in RowType /\ empty.conv = First /\ empty.seq = 0 /\ empty.says = {}
    BY <1>3 DEF RowType
  <1>10. \A r \in rows : r = told \/ r = empty
    BY <1>3
  <1>11. \A p \in Post : post[p] \in PostType /\ post[p].pc = "new" /\ post[p].conv = First
    BY <1>1 DEF Handler, PostType
  <1>12. \A c \in Conv : agent[c].phase = "none"
    BY <1>1
  <1>13. TypeOK
    <2>1. counter \in Nat /\ peak \in Nat /\ twice \in BOOLEAN
      BY <1>1
    <2> QED
      BY <1>1, <1>6, <1>7, <1>8, <1>9, <1>10, <1>11, <2>1 DEF TypeOK, Open
  <1>14. Counted
    <2>1. IsFiniteSet(rows)
      <3>1. IsFiniteSet({told})
        BY FS_Singleton
      <3>2. IsFiniteSet({told} \cup {empty})
        BY <3>1, FS_AddElement
      <3>3. {told} \cup {empty} = {told, empty}
        OBVIOUS
      <3> QED
        BY <1>3, <3>1, <3>2, <3>3
    <2> QED
      BY <1>1, <1>6, <1>8, <1>9, <1>10, <1>11, <2>1 DEF Counted
  <1>15. Known /\ Apart /\ NumberIsFree
    BY <1>6, <1>7, <1>11, <1>12 DEF Known, Apart, NumberIsFree
  <1>16. Copied
    BY <1>1, FS_EmptySet DEF Copied
  <1>17. First \notin Unsaid
    BY <1>7, <1>12 DEF Unsaid
  <1>18. Fresh
    BY <1>1, <1>6, <1>8, <1>9, <1>10, <1>12, <1>17 DEF Fresh, Knows
  <1>19. Kept
    BY <1>7, <1>8, <1>9, <1>10 DEF Kept, Context, Window, RowsOf
  <1>20. Loads /\ Loaded /\ Hidden /\ SummaryOpensWindow
    BY <1>6, <1>7 DEF Loads, Loaded, Hidden, SummaryOpensWindow, Knows
  <1> QED
    BY <1>13, <1>14, <1>15, <1>16, <1>18, <1>19, <1>20 DEF Inv

LEMMA ConversationStepKeeps ==
  ASSUME Inv, ConversationStep
  PROVE  Inv'
  BY CreateKeeps, DeleteKeeps, ReadForBranchKeeps, CommitBranchKeeps DEF ConversationStep

LEMMA StutterKeeps ==
  ASSUME Inv, UNCHANGED vars
  PROVE  Inv'
  <1>1. UNCHANGED <<numberVars, conv, rows, post, agent, squeeze, branch>>
    BY DEF vars
  <1>2. TypeOK' /\ Counted' /\ Known' /\ Apart' /\ Copied'
    BY <1>1 DEF Inv, TypeOK, Open, Counted, Known, Apart, Copied
  <1>3. Fresh'
    BY <1>1 DEF Inv, Fresh, Unsaid, Knows, RowsOf
  <1>4. Kept' /\ Loads' /\ Loaded'
    BY <1>1 DEF Inv, Kept, Loads, Loaded, Explained, Explains, Context, Window, RowsOf,
      SaidIn, From
  <1>5. Hidden' /\ NumberIsFree' /\ SummaryOpensWindow'
    BY <1>1 DEF Inv, Hidden, Hides, Knows, Open, NumberIsFree, SummaryOpensWindow, Window, RowsOf
  <1> QED
    BY <1>2, <1>3, <1>4, <1>5 DEF Inv

LEMMA InvStep ==
  ASSUME Inv, [Next]_vars
  PROVE  Inv'
  <1>1. CASE ConversationStep
    BY <1>1, ConversationStepKeeps
  <1>2. ASSUME NEW p \in Post, PostStep(p) PROVE Inv'
    BY <1>2, NumberKeeps, StoreKeeps, StoreEmptyKeeps, FillKeeps, StoreFailsKeeps DEF PostStep
  <1>3. ASSUME NEW c \in Conv, SubAgentStep(c) PROVE Inv'
    BY <1>3, SpawnKeeps, PromptKeeps, ReportKeeps DEF SubAgentStep
  <1>4. ASSUME NEW k \in Compaction, CompactionStep(k) PROVE Inv'
    BY <1>4, StartKeeps, LoadKeeps, NumberSummaryKeeps, CommitFailsKeeps, CommitSummaryKeeps
    DEF CompactionStep
  <1>5. CASE UNCHANGED vars
    BY <1>5, StutterKeeps
  <1>6. ASSUME NEW n \in Restored, SetBack(n) PROVE Inv'
    BY <1>6, SetBackKeeps
  <1> QED
    BY <1>1, <1>2, <1>3, <1>4, <1>5, <1>6 DEF Next

LEMMA Invariance == Spec => []Inv
  <1>1. Inv /\ [Next]_vars => Inv'
    BY InvStep
  <1> QED
    BY InvInit, <1>1, PTL DEF Spec

-----------------------------------------------------------------------------
(* Theorems.                                                               *)

\* Types: every row belongs to a conversation that exists and has a sequence number
\* of its own in it, after branches, deletions and prompts without a number too.
THEOREM TypesHold == Spec => []TypeOK
  <1>1. Inv => TypeOK
    BY DEF Inv
  <1> QED
    BY Invariance, <1>1, PTL

\* What a message says leaves the context of its conversation only behind a summary
\* of a compression that could not know it or had no model (CompressConversation,
\* SyncSummarizationToDB), however many compressions overlap.
THEOREM ForgettingIsExplained == Spec => []ForgottenIsExplained
  <1>1. Inv => ForgottenIsExplained
    <2> SUFFICES ASSUME Inv PROVE ForgottenIsExplained
      OBVIOUS
    <2>1. \A r \in rows : r.summary \in BOOLEAN
      BY DEF Inv, TypeOK, RowType
    <2>2. \A r \in rows : ~r.summary => r.summary = FALSE
      BY <2>1, Zenon
    <2>3. ASSUME NEW r \in rows, r.summary = FALSE
          PROVE  \/ r.says \subseteq Context(r.conv)
                 \/ \E k \in Compaction :
                      /\ squeeze[k].conv = r.conv
                      /\ squeeze[k].hides > r.seq
                      /\ squeeze[k].lost = TRUE \/ ~(r.says \subseteq squeeze[k].seen)
      BY <2>3 DEF Inv, Kept, Explained, Explains
    <2>4. \A k \in Compaction : squeeze[k].lost = TRUE => squeeze[k].lost
      BY Zenon
    <2> QED
      BY <2>2, <2>3, <2>4, Zenon DEF ForgottenIsExplained
  <1> QED
    BY Invariance, <1>1, PTL

\* Until the counter was set back (ServeHTTP of the WebSocket server) and gave out
\* a number twice, the number that a message or a summary took is still free when
\* it is stored (sendMessageWithRole, insertMessage, write_compressed_context).
THEOREM NumbersAreFree == Spec => []NumberIsFree
  <1>1. Inv => NumberIsFree
    BY DEF Inv
  <1> QED
    BY Invariance, <1>1, PTL

\* The window of a compressed conversation starts with a summary, whichever
\* compression was stored last (SyncSummarizationToDB).
THEOREM WindowOpensWithSummary == Spec => []SummaryOpensWindow
  <1>1. Inv => SummaryOpensWindow
    BY DEF Inv
  <1> QED
    BY Invariance, <1>1, PTL

-----------------------------------------------------------------------------
(* The tree of conversations.  The functions of BuildConversationTree are  *)
(* recursive: induction is the choice of a least number that fails.        *)

LEMMA LeastNumber ==
  ASSUME NEW S \in SUBSET Nat, S # {}
  PROVE  \E m \in S : \A k \in S : m <= k
  <1>1. IsWellFoundedOn(OpToRel(<, Nat), Nat)
    BY NatLessThanWellFounded, Zenon
  <1>2. PICK m \in S : \A k \in S : ~(<<k, m>> \in OpToRel(<, Nat))
    BY <1>1, WFMin, Zenon
  <1>3. \A k \in S : ~(k < m)
    BY <1>2 DEF OpToRel
  <1> QED
    BY <1>3

\* A finite list, and its numbers of steps.
Lists(list) == IsFiniteSet(list) /\ NoConv \notin list
Steps(list) == 0 .. Cardinality(list)

LEMMA StepsAreNumbers ==
  ASSUME NEW list, Lists(list)
  PROVE  /\ Cardinality(list) \in Nat /\ Steps(list) \in SUBSET Nat /\ 0 \in Steps(list)
         /\ \A n \in Steps(list), k \in Nat : k <= n => k \in Steps(list)
         /\ \A n \in Steps(list) : n # 0 => n - 1 \in Steps(list)
  <1>1. Cardinality(list) \in Nat
    BY FS_CardinalityType DEF Lists
  <1> QED
    BY <1>1 DEF Steps

\* The equations of the recursive functions, up to m steps.
AboveIs(f, m, c, up, list) ==
  f = [n \in 0..m |-> IF n = 0 THEN c ELSE Parent(f[n - 1], up, list)]

Below(S, up, list) == {c \in list : Linked(c, up, list) /\ Parent(c, up, list) \in S}

LevelsAre(f, m, up, list) ==
  f = [n \in 0..m |-> IF n = 0 THEN Roots(up, list) ELSE Below(f[n - 1], up, list)]

\* The recursive functions exist, so that they satisfy their equations.
LEMMA AboveExists ==
  ASSUME NEW c, NEW up, NEW list, NEW o \in Nat
  PROVE  \E f : AboveIs(f, o, c, up, list)
  <1> DEFINE Bad == {m \in Nat : ~\E f : AboveIs(f, m, c, up, list)}
  <1>1. SUFFICES ASSUME Bad # {} PROVE FALSE
    OBVIOUS
  <1>2. PICK m \in Bad : \A k \in Bad : m <= k
    BY <1>1, LeastNumber
  <1>3. m \in Nat /\ m # 0
    <2>1. AboveIs([n \in 0..0 |-> c], 0, c, up, list)
      BY DEF AboveIs
    <2> QED
      BY <2>1, <1>2
  <1>4. m - 1 \in Nat /\ m - 1 \notin Bad
    BY <1>2, <1>3
  <1>5. PICK f : AboveIs(f, m - 1, c, up, list)
    BY <1>4
  <1> DEFINE g == [n \in 0..m |-> IF n = m THEN Parent(f[m - 1], up, list) ELSE f[n]]
  <1>6. \A n \in 0..m : g[n] = IF n = 0 THEN c ELSE Parent(g[n - 1], up, list)
    BY <1>3, <1>5 DEF AboveIs
  <1>7. AboveIs(g, m, c, up, list)
    BY <1>6 DEF AboveIs
  <1> QED
    BY <1>7, <1>2

LEMMA LevelsExist ==
  ASSUME NEW up, NEW list, NEW o \in Nat
  PROVE  \E f : LevelsAre(f, o, up, list)
  <1> DEFINE Bad == {m \in Nat : ~\E f : LevelsAre(f, m, up, list)}
  <1>1. SUFFICES ASSUME Bad # {} PROVE FALSE
    OBVIOUS
  <1>2. PICK m \in Bad : \A k \in Bad : m <= k
    BY <1>1, LeastNumber
  <1>3. m \in Nat /\ m # 0
    <2>1. LevelsAre([n \in 0..0 |-> Roots(up, list)], 0, up, list)
      BY DEF LevelsAre
    <2> QED
      BY <2>1, <1>2
  <1>4. m - 1 \in Nat /\ m - 1 \notin Bad
    BY <1>2, <1>3
  <1>5. PICK f : LevelsAre(f, m - 1, up, list)
    BY <1>4
  <1> DEFINE g == [n \in 0..m |-> IF n = m THEN Below(f[m - 1], up, list) ELSE f[n]]
  <1>6. \A n \in 0..m : g[n] = IF n = 0 THEN Roots(up, list) ELSE Below(g[n - 1], up, list)
    BY <1>3, <1>5 DEF LevelsAre
  <1>7. LevelsAre(g, m, up, list)
    BY <1>6 DEF LevelsAre
  <1> QED
    BY <1>7, <1>2

\* f is a walk upwards from c.
Walk(f, c, up, list) ==
  /\ f[0] = c
  /\ \A n \in Steps(list) : n # 0 => f[n] = Parent(f[n - 1], up, list)

LEMMA AboveSteps ==
  ASSUME NEW c, NEW up, NEW list, Lists(list)
  PROVE  Walk(Above(c, up, list), c, up, list)
  <1>1. Cardinality(list) \in Nat
    BY StepsAreNumbers
  <1>2. \E f : f = [n \in 0..Cardinality(list) |->
                      IF n = 0 THEN c ELSE Parent(f[n - 1], up, list)]
    <2>1. PICK f : AboveIs(f, Cardinality(list), c, up, list)
      BY <1>1, AboveExists
    <2> QED
      BY <2>1, Zenon DEF AboveIs
  <1>3. Above(c, up, list) = [n \in 0..Cardinality(list) |->
          IF n = 0 THEN c ELSE Parent(Above(c, up, list)[n - 1], up, list)]
    BY <1>2, Zenon DEF Above
  <1> QED
    BY <1>1, <1>3 DEF Steps, Walk

LEMMA LevelSteps ==
  ASSUME NEW up, NEW list, Lists(list)
  PROVE  /\ DOMAIN Levels(up, list) = Steps(list)
         /\ Levels(up, list)[0] = Roots(up, list)
         /\ \A n \in Steps(list) : n # 0 =>
              Levels(up, list)[n] = Below(Levels(up, list)[n - 1], up, list)
  <1>1. Cardinality(list) \in Nat
    BY StepsAreNumbers
  <1>2. \E f : f = [n \in 0..Cardinality(list) |-> IF n = 0 THEN Roots(up, list)
                       ELSE {c \in list : Linked(c, up, list) /\ Parent(c, up, list) \in f[n - 1]}]
    <2>1. PICK f : LevelsAre(f, Cardinality(list), up, list)
      BY <1>1, LevelsExist
    <2> QED
      BY <2>1, Zenon DEF LevelsAre, Below
  <1>3. Levels(up, list) = [n \in 0..Cardinality(list) |-> IF n = 0 THEN Roots(up, list)
          ELSE {c \in list : Linked(c, up, list) /\ Parent(c, up, list) \in Levels(up, list)[n - 1]}]
    BY <1>2, Zenon DEF Levels
  <1> QED
    BY <1>1, <1>3 DEF Steps, Below

\* A conversation with a parent in the list is in it.
LEMMA ParentIn ==
  ASSUME NEW x, NEW up, NEW list, Lists(list), Parent(x, up, list) # NoConv
  PROVE  x \in list /\ Parent(x, up, list) = up[x] /\ up[x] \in list
  BY DEF Parent

\* The walk to a conversation of the list stays in the list.
LEMMA WalkInList ==
  ASSUME NEW f, NEW c, NEW up, NEW list, Lists(list), Walk(f, c, up, list),
         NEW n \in Steps(list), f[n] \in list, NEW i \in 0..n
  PROVE  f[i] \in list
  <1> DEFINE Bad == {k \in 0..n : f[n - k] \notin list}
  <1>1. n \in Nat /\ Steps(list) \in SUBSET Nat
    BY StepsAreNumbers
  <1>2. ASSUME Bad # {} PROVE FALSE
    <2>0. Bad \in SUBSET Nat
      BY <1>1
    <2>1. PICK k \in Bad : \A o \in Bad : k <= o
      BY <2>0, <1>2, LeastNumber
    <2>2. k \in Nat /\ k # 0 /\ k <= n
      BY <1>1, <2>1
    <2>3. k - 1 \in 0..n /\ k - 1 \notin Bad
      BY <1>1, <2>1, <2>2
    <2>4. f[n - (k - 1)] \in list
      BY <2>3
    <2>5. n - (k - 1) \in Nat /\ n - (k - 1) <= n /\ n - (k - 1) # 0
          /\ (n - (k - 1)) - 1 = n - k
      BY <1>1, <2>2
    <2>6. n - (k - 1) \in Steps(list)
      BY <2>5, StepsAreNumbers
    <2>7. f[n - (k - 1)] = Parent(f[n - k], up, list)
      BY <2>5, <2>6 DEF Walk
    <2>8. f[n - k] \in list
      BY <2>4, <2>7, ParentIn DEF Lists
    <2> QED
      BY <2>1, <2>8
  <1>3. n - i \in 0..n /\ n - (n - i) = i
    BY <1>1
  <1> QED
    BY <1>2, <1>3

\* A walk stays in a set of listed conversations that has their parents.
LEMMA WalkInSet ==
  ASSUME NEW f, NEW c, NEW up, NEW list, Lists(list), Walk(f, c, up, list),
         NEW S \in SUBSET list, c \in S, \A x \in S : up[x] \in S,
         NEW n \in Steps(list)
  PROVE  f[n] \in S
  <1> DEFINE Bad == {k \in Steps(list) : f[k] \notin S}
  <1>1. SUFFICES ASSUME Bad # {} PROVE FALSE
    OBVIOUS
  <1>2. PICK k \in Bad : \A o \in Bad : k <= o
    BY <1>1, LeastNumber, StepsAreNumbers
  <1>3. k \in Steps(list) /\ k # 0
    BY <1>2 DEF Walk
  <1>4. k - 1 \in Steps(list) /\ k \in Nat /\ ~(k <= k - 1)
    BY <1>3, StepsAreNumbers
  <1>5. f[k - 1] \in S
    BY <1>2, <1>4
  <1>6. f[k] = Parent(f[k - 1], up, list)
    BY <1>3 DEF Walk
  <1>7. f[k] \in S
    BY <1>5, <1>6 DEF Parent
  <1> QED
    BY <1>2, <1>7

\* A walk that comes back is on a cycle.
LEMMA CycleOfWalk ==
  ASSUME NEW f, NEW c, NEW up, NEW list, Lists(list), Walk(f, c, up, list),
         NEW i \in Steps(list), NEW j \in Steps(list), i <= j,
         \A k \in i..j : f[k] \in list, up[f[j]] = f[i], NEW n \in i..j
  PROVE  OnCycle(f[n], up, list)
  <1> DEFINE S == {f[k] : k \in i..j}
  <1>1. i \in Nat /\ j \in Nat
    BY StepsAreNumbers
  <1>2. ASSUME NEW k \in i..j, k # i PROVE f[k] = up[f[k - 1]] /\ k - 1 \in i..j
    <2>1. k \in Nat /\ k # 0 /\ k <= j /\ k - 1 \in i..j
      BY <1>1, <1>2
    <2>2. k \in Steps(list)
      BY <2>1, StepsAreNumbers
    <2>3. f[k] = Parent(f[k - 1], up, list)
      BY <2>1, <2>2 DEF Walk
    <2>4. f[k] # NoConv
      BY <1>2 DEF Lists
    <2> QED
      BY <2>1, <2>3, <2>4, ParentIn
  <1>3. ASSUME NEW x \in S PROVE up[x] \in S
    <2>1. PICK k \in i..j : x = f[k]
      OBVIOUS
    <2>2. CASE k = j
      BY <1>1, <2>1, <2>2
    <2>3. CASE k # j
      <3>1. k + 1 \in i..j /\ k + 1 # i /\ (k + 1) - 1 = k
        BY <1>1, <2>3
      <3> QED
        BY <1>2, <2>1, <3>1
    <2> QED
      BY <2>2, <2>3
  <1>4. ASSUME NEW x \in S PROVE \E y \in S : x = up[y]
    <2>1. PICK k \in i..j : x = f[k]
      OBVIOUS
    <2>2. CASE k = i
      <3>1. j \in i..j
        BY <1>1
      <3> QED
        BY <2>1, <2>2, <3>1
    <2>3. CASE k # i
      BY <1>2, <2>1, <2>3
    <2> QED
      BY <2>2, <2>3
  <1>5. f[n] \in S /\ S \in SUBSET list
    OBVIOUS
  <1>6. {up[x] : x \in S} = S
    <2> HIDE DEF S
    <2> QED
      BY <1>3, <1>4
  <1> QED
    BY <1>5, <1>6 DEF OnCycle

\* A walk through a list visits a conversation twice.
LEMMA WalkRepeats ==
  ASSUME NEW f, NEW up, NEW list, Lists(list), NEW S \in SUBSET list,
         \A n \in Steps(list) : f[n] \in S
  PROVE  \E i, j \in Steps(list) : i < j /\ f[i] = f[j]
  <1> DEFINE g == [n \in Steps(list) |-> f[n]]
  <1>1. Cardinality(list) \in Nat /\ IsFiniteSet(list)
    BY StepsAreNumbers DEF Lists
  <1>2. IsFiniteSet(Steps(list)) /\ Cardinality(Steps(list)) = Cardinality(list) + 1
    <2>1. /\ IsFiniteSet(0..Cardinality(list))
          /\ Cardinality(0..Cardinality(list)) =
               IF 0 > Cardinality(list) THEN 0 ELSE Cardinality(list) - 0 + 1
      BY <1>1, FS_Interval
    <2> QED
      BY <1>1, <2>1 DEF Steps
  <1>3. IsFiniteSet(S) /\ Cardinality(S) <= Cardinality(list)
    BY <1>1, FS_Subset
  <1>4. Cardinality(S) < Cardinality(Steps(list))
    BY <1>1, <1>2, <1>3, FS_CardinalityType
  <1>5. g \in [Steps(list) -> S]
    OBVIOUS
  <1>6. PICK x, y \in Steps(list) : x # y /\ g[x] = g[y]
    <2> HIDE DEF g
    <2> QED
      BY <1>2, <1>3, <1>4, <1>5, FS_PigeonHole
  <1>7. x \in Nat /\ y \in Nat /\ f[x] = f[y]
    BY <1>6, StepsAreNumbers
  <1> QED
    BY <1>6, <1>7

\* A conversation on a cycle is above its parent, who is in the list.
LEMMA CycleComesBack ==
  ASSUME NEW c, NEW up, NEW list, Lists(list), OnCycle(c, up, list)
  PROVE  /\ c \in list /\ Parent(c, up, list) = up[c] /\ up[c] # NoConv
         /\ HasAncestor(up[c], c, up, list)
  <1>1. PICK S \in SUBSET list : c \in S /\ {up[x] : x \in S} = S
    BY DEF OnCycle
  <1>2. \A x \in S : up[x] \in S /\ x \in list /\ up[x] \in list /\ up[x] # NoConv
    BY <1>1 DEF Lists
  <1>3. \A x, y \in S : up[x] = up[y] => x = y
    <2> DEFINE u == [x \in S |-> up[x]]
    <2>1. u \in [S -> S]
      BY <1>2
    <2>2. \A y \in S : \E x \in S : u[x] = y
      BY <1>1
    <2>3. u \in Surjection(S, S)
      BY <2>1, <2>2 DEF Surjection
    <2>4. IsFiniteSet(S)
      BY FS_Subset DEF Lists
    <2>5. u \in Injection(S, S)
      <3> HIDE DEF u
      <3> QED
        BY <2>3, <2>4, FS_SurjSameCardinalityImpliesInj
    <2> QED
      BY <2>5 DEF Injection, IsInjective
  <1> DEFINE f == Above(up[c], up, list)
  <1>4. Walk(f, up[c], up, list)
    BY AboveSteps
  <1> HIDE DEF f
  <1>5. \A n \in Steps(list) : f[n] \in S
    BY <1>1, <1>2, <1>4, WalkInSet
  <1>6. \A n \in Steps(list) : n # 0 => f[n] = up[f[n - 1]] /\ n - 1 \in Steps(list)
    BY <1>2, <1>4, <1>5, StepsAreNumbers DEF Walk, Parent
  <1> DEFINE Again == {i \in Steps(list) : \E j \in Steps(list) : i < j /\ f[i] = f[j]}
  <1>7. Again # {} /\ Again \in SUBSET Nat
    BY <1>5, WalkRepeats, StepsAreNumbers
  <1>8. PICK i \in Again : \A k \in Again : i <= k
    BY <1>7, LeastNumber
  <1>9. PICK j \in Steps(list) : i < j /\ f[i] = f[j]
    BY <1>8
  <1>10. i \in Steps(list) /\ i \in Nat /\ j \in Nat /\ j # 0
    BY <1>7, <1>8, <1>9, StepsAreNumbers
  <1>11. i = 0
    <2>1. SUFFICES ASSUME i # 0 PROVE FALSE
      OBVIOUS
    <2>2. f[i - 1] = f[j - 1] /\ i - 1 \in Steps(list) /\ j - 1 \in Steps(list)
      BY <1>3, <1>5, <1>6, <1>9, <1>10, <2>1
    <2>3. i - 1 < j - 1 /\ ~(i <= i - 1)
      BY <1>9, <1>10
    <2> QED
      BY <1>8, <2>2, <2>3
  <1>12. f[0] = up[c]
    BY <1>4 DEF Walk
  <1>13. up[f[j - 1]] = up[c] /\ j - 1 \in Steps(list)
    BY <1>6, <1>9, <1>10, <1>11, <1>12
  <1>14. f[j - 1] = c
    BY <1>1, <1>3, <1>5, <1>13
  <1>15. HasAncestor(up[c], c, up, list)
    BY <1>13, <1>14 DEF HasAncestor, f, Steps
  <1> QED
    BY <1>1, <1>2, <1>15 DEF Parent

\* hasAncestor finds the cycles that a parent would close.
LEMMA LinkedOffCycle ==
  ASSUME NEW c, NEW up, NEW list, Lists(list), c \in list
  PROVE  Linked(c, up, list) <=> up[c] \in list /\ ~OnCycle(c, up, list)
  <1>1. ASSUME Linked(c, up, list) PROVE up[c] \in list /\ ~OnCycle(c, up, list)
    <2>1. Parent(c, up, list) # NoConv /\ ~HasAncestor(Parent(c, up, list), c, up, list)
      BY <1>1 DEF Linked
    <2> QED
      BY <2>1, ParentIn, CycleComesBack
  <1>2. ASSUME up[c] \in list, ~Linked(c, up, list) PROVE OnCycle(c, up, list)
    <2>1. Parent(c, up, list) = up[c] /\ up[c] # NoConv
      BY <1>2 DEF Parent, Lists
    <2>2. HasAncestor(up[c], c, up, list)
      BY <1>2, <2>1 DEF Linked
    <2> DEFINE f == Above(up[c], up, list)
    <2>3. PICK n \in Steps(list) : f[n] = c
      BY <2>2 DEF HasAncestor, Steps
    <2>4. Walk(f, up[c], up, list)
      BY AboveSteps
    <2> HIDE DEF f
    <2>5. \A k \in 0..n : f[k] \in list
      BY <2>3, <2>4, WalkInList
    <2>6. f[0] = up[c] /\ 0 \in Steps(list) /\ n \in Nat /\ 0 <= n /\ n \in 0..n
      BY <2>4, StepsAreNumbers DEF Walk
    <2>7. OnCycle(f[n], up, list)
      BY <2>3, <2>4, <2>5, <2>6, CycleOfWalk
    <2> QED
      BY <2>3, <2>7
  <1> QED
    BY <1>1, <1>2

\* A conversation is on one level.
LEMMA OneLevel ==
  ASSUME NEW up, NEW list, Lists(list), NEW n \in Steps(list), NEW o \in Steps(list),
         NEW c, c \in Levels(up, list)[n], c \in Levels(up, list)[o]
  PROVE  n = o
  <1> DEFINE L == Levels(up, list)
             Two(k) == \E e \in Steps(list) : e # k /\ L[k] \cap L[e] # {}
             Bad == {k \in Steps(list) : Two(k)}
  <1>1. SUFFICES ASSUME n # o PROVE FALSE
    OBVIOUS
  <1>2. n \in Bad
    BY <1>1
  <1>3. PICK k \in Bad : \A e \in Bad : k <= e
    BY <1>2, LeastNumber, StepsAreNumbers
  <1>4. PICK e \in Steps(list) : e # k /\ L[k] \cap L[e] # {}
    BY <1>3
  <1>5. PICK x : x \in L[k] /\ x \in L[e]
    BY <1>4
  <1>6. k \in Steps(list) /\ k \in Nat /\ e \in Nat
    BY <1>3, StepsAreNumbers
  <1>7. L[0] = Roots(up, list)
        /\ \A m \in Steps(list) : m # 0 => L[m] = Below(L[m - 1], up, list)
    BY LevelSteps
  <1> HIDE DEF L
  <1>8. \A m \in Steps(list) : x \in L[m] =>
          (m # 0 <=> Linked(x, up, list))
          /\ (m # 0 => m - 1 \in Steps(list) /\ Parent(x, up, list) \in L[m - 1])
    BY <1>7, StepsAreNumbers DEF Roots, Below
  <1>9. k # 0 /\ e # 0 /\ k - 1 \in Steps(list) /\ e - 1 \in Steps(list)
    BY <1>5, <1>6, <1>8, <1>4
  <1>10. Two(k - 1)
    BY <1>5, <1>6, <1>8, <1>9, <1>4
  <1>11. k - 1 \in Bad
    BY <1>9, <1>10
  <1> QED
    BY <1>3, <1>6, <1>11

\* A conversation is on a level: the walk upwards from it meets a root.
LEMMA SomeLevel ==
  ASSUME NEW up, NEW list, Lists(list), NEW c \in list
  PROVE  \E n \in Steps(list) : c \in Levels(up, list)[n]
  <1> DEFINE f == Above(c, up, list)
             L == Levels(up, list)
             Good == {i \in Steps(list) : f[i] \notin list \/ f[i] \in Roots(up, list)}
  <1>1. Walk(f, c, up, list)
    BY AboveSteps
  <1>2. L[0] = Roots(up, list)
        /\ \A m \in Steps(list) : m # 0 => L[m] = Below(L[m - 1], up, list)
    BY LevelSteps
  <1> HIDE DEF f, L
  <1>3. ASSUME Good = {} PROVE FALSE
    <2>1. \A i \in Steps(list) : f[i] \in list /\ Linked(f[i], up, list)
      BY <1>3 DEF Roots
    <2>2. PICK i, j \in Steps(list) : i < j /\ f[i] = f[j]
      BY <2>1, WalkRepeats
    <2>3. i \in Nat /\ j \in Nat /\ j # 0 /\ j - 1 \in Steps(list) /\ i <= j - 1
      BY <2>2, StepsAreNumbers
    <2>4. f[j] = Parent(f[j - 1], up, list) /\ f[j] # NoConv
      BY <1>1, <2>1, <2>3 DEF Walk, Lists
    <2>5. up[f[j - 1]] = f[i]
      BY <2>2, <2>4, ParentIn
    <2>6. \A k \in i..(j - 1) : f[k] \in list
      <3>1. \A k \in i..(j - 1) : k \in Nat /\ k <= j
        BY <2>3
      <3> QED
        BY <2>1, <3>1, StepsAreNumbers
    <2>7. i \in i..(j - 1)
      BY <2>3
    <2>8. OnCycle(f[i], up, list)
      BY <1>1, <2>3, <2>5, <2>6, <2>7, CycleOfWalk
    <2> QED
      BY <2>1, <2>8, LinkedOffCycle
  <1>4. PICK i \in Good : \A k \in Good : i <= k
    BY <1>3, LeastNumber, StepsAreNumbers
  <1>5. i \in Steps(list) /\ i \in Nat
    BY <1>4, StepsAreNumbers
  <1>6. ASSUME NEW k \in Nat, k < i
        PROVE  k \in Steps(list) /\ f[k] \in list /\ Linked(f[k], up, list)
    <2>1. k \in Steps(list)
      BY <1>5, <1>6, StepsAreNumbers
    <2>2. k \notin Good
      BY <1>4, <1>5, <1>6
    <2> QED
      BY <2>1, <2>2 DEF Roots
  <1>7. f[i] \in Roots(up, list)
    <2>1. CASE i = 0
      <3>1. f[i] \in list
        BY <1>1, <2>1 DEF Walk
      <3> QED
        BY <1>4, <3>1
    <2>2. CASE i # 0
      <3>1. i - 1 \in Nat /\ i - 1 < i
        BY <1>5, <2>2
      <3>2. f[i] = Parent(f[i - 1], up, list)
        BY <1>1, <1>5, <2>2 DEF Walk
      <3>3. f[i] # NoConv
        BY <1>6, <3>1, <3>2 DEF Linked
      <3>4. f[i] \in list
        BY <3>2, <3>3, ParentIn
      <3> QED
        BY <1>4, <3>4
    <2> QED
      BY <2>1, <2>2
  <1> DEFINE Off == {k \in 0..i : f[i - k] \notin L[k]}
  <1>8. ASSUME Off # {} PROVE FALSE
    <2>1. Off \in SUBSET Nat
      OBVIOUS
    <2>2. PICK k \in Off : \A e \in Off : k <= e
      BY <1>8, <2>1, LeastNumber
    <2>3. k \in Nat /\ k <= i /\ f[i - k] \notin L[k]
      BY <1>5, <2>2
    <2>4. k # 0
      BY <1>2, <1>5, <1>7, <2>3
    <2>5. k - 1 \in 0..i /\ ~(k <= k - 1)
      BY <1>5, <2>3, <2>4
    <2>6. f[i - (k - 1)] \in L[k - 1]
      BY <2>2, <2>5
    <2>7. /\ i - k \in Nat /\ i - k < i /\ i - (k - 1) = (i - k) + 1
          /\ (i - k) + 1 \in Nat /\ (i - k) + 1 <= i /\ (i - k) + 1 # 0 /\ ((i - k) + 1) - 1 = i - k
      BY <1>5, <2>3, <2>4
    <2>8. (i - k) + 1 \in Steps(list) /\ k \in Steps(list)
      BY <1>5, <2>3, <2>7, StepsAreNumbers
    <2>9. f[(i - k) + 1] = Parent(f[i - k], up, list)
      BY <1>1, <2>7, <2>8 DEF Walk
    <2>10. f[i - k] \in Below(L[k - 1], up, list)
      BY <1>6, <2>6, <2>7, <2>9 DEF Below
    <2> QED
      BY <1>2, <2>3, <2>4, <2>8, <2>10
  <1>9. f[0] \in L[i]
    <2>1. i \in 0..i /\ i - i = 0
      BY <1>5
    <2> QED
      BY <1>8, <2>1
  <1> QED
    BY <1>1, <1>5, <1>9 DEF Walk, L

\* BuildConversationTree shows each conversation of any finite list once, at the
\* top exactly when its parent is not in the list or it is its own ancestor, and
\* right below its parent otherwise.
THEOREM TreeIsRight ==
  ASSUME NEW up, NEW list, Lists(list)
  PROVE  RightTree(up, list)
  <1> DEFINE L == Levels(up, list)
  <1>1. /\ DOMAIN L = Steps(list) /\ L[0] = Roots(up, list)
        /\ \A n \in Steps(list) : n # 0 => L[n] = Below(L[n - 1], up, list)
    BY LevelSteps
  <1>2. \A c \in list : \E n \in Steps(list) :
          c \in L[n] /\ \A o \in Steps(list) \ {n} : c \notin L[o]
    <2> TAKE c \in list
    <2>1. PICK n \in Steps(list) : c \in L[n]
      BY SomeLevel
    <2>2. \A o \in Steps(list) \ {n} : c \notin L[o]
      BY <2>1, OneLevel
    <2> QED
      BY <2>1, <2>2
  <1>3. L[0] = {c \in list : up[c] \notin list \/ OnCycle(c, up, list)}
    <2>1. \A c \in list : c \in Roots(up, list) <=> up[c] \notin list \/ OnCycle(c, up, list)
      BY LinkedOffCycle DEF Roots
    <2>2. Roots(up, list) \subseteq list
      BY DEF Roots
    <2> QED
      BY <1>1, <2>1, <2>2
  <1>4. \A n \in Steps(list) \ {0} : {up[c] : c \in L[n]} \subseteq L[n - 1]
    <2> TAKE n \in Steps(list) \ {0}
    <2>1. \A c \in Below(L[n - 1], up, list) : up[c] \in L[n - 1]
      BY ParentIn DEF Below, Linked
    <2> QED
      BY <1>1, <2>1
  <1> QED
    BY <1>1, <1>2, <1>3, <1>4 DEF RightTree

\* Finitely many conversations exist: a step adds one at most.
Opened == {c \in Conv : Open(c)}

LEMMA OpensOne ==
  ASSUME TypeOK, Next
  PROVE  \E x \in Conv : Opened' \subseteq Opened \cup {x}
  <1>1. \A c \in Conv : conv[c].state = "open" <=> c \in Opened
    BY DEF Opened, Open
  <1>2. \A c \in Conv : conv'[c].state = "open" <=> c \in Opened'
    BY DEF Opened, Open
  <1>3. Opened \subseteq Conv /\ Opened' \subseteq Conv
    BY DEF Opened
  <1>4. ASSUME conv' = conv PROVE Opened' \subseteq Opened
    BY <1>1, <1>2, <1>3, <1>4
  <1>5. ASSUME NEW x \in Conv, \A c \in Conv \ {x} : conv'[c] = conv[c]
        PROVE  Opened' \subseteq Opened \cup {x}
    BY <1>1, <1>2, <1>3, <1>5
  <1>6. ASSUME NEW x \in Conv, NEW v, conv' = [conv EXCEPT ![x] = v]
        PROVE  Opened' \subseteq Opened \cup {x}
    BY <1>5, <1>6 DEF TypeOK
  <1>7. CASE ConversationStep
    <2>1. ASSUME NEW c \in Conv, NEW parent \in Conv \cup {NoConv}, CreateConversation(c, parent)
          PROVE  Opened' \subseteq Opened \cup {c}
      BY <1>6, <2>1 DEF CreateConversation
    <2>2. ASSUME NEW c \in Conv, DeleteConversation(c) PROVE Opened' \subseteq Opened \cup {c}
      <3>1. \A x \in Conv \ {c} : conv'[x].state = conv[x].state
        BY <2>2 DEF DeleteConversation, TypeOK
      <3> QED
        BY <1>1, <1>2, <1>3, <3>1
    <2>3. ASSUME NEW b \in Branch, NEW c \in Conv, NEW seq \in 0..peak,
                 ReadForBranch(b, c, seq)
          PROVE  Opened' \subseteq Opened
      BY <1>4, <2>3 DEF ReadForBranch
    <2>4. ASSUME NEW b \in Branch, NEW c \in Conv, CommitBranch(b, c)
          PROVE  Opened' \subseteq Opened \cup {c}
      BY <1>6, <2>4 DEF CommitBranch
    <2> QED
      BY <1>7, <2>1, <2>2, <2>3, <2>4 DEF ConversationStep
  <1>8. ASSUME NEW p \in Post, PostStep(p) PROVE Opened' \subseteq Opened
    BY <1>4, <1>8 DEF PostStep, Number, Store, StoreEmpty, Fill, StoreFails
  <1>9. ASSUME NEW c \in Conv, SubAgentStep(c) PROVE Opened' \subseteq Opened \cup {c}
    <2>1. ASSUME NEW parent \in Conv, Spawn(c, parent) PROVE Opened' \subseteq Opened \cup {c}
      BY <1>6, <2>1 DEF Spawn
    <2>2. ASSUME NEW a \in BOOLEAN, NEW n \in BOOLEAN, Prompt(c, a, n) PROVE Opened' \subseteq Opened
      BY <1>4, <2>2 DEF Prompt
    <2>3. ASSUME NEW live \in BOOLEAN, Report(c, live) PROVE Opened' \subseteq Opened
      BY <1>4, <2>3 DEF Report
    <2> QED
      BY <1>9, <2>1, <2>2, <2>3 DEF SubAgentStep
  <1>10. ASSUME NEW k \in Compaction, CompactionStep(k)
         PROVE  \E x \in Conv : Opened' \subseteq Opened \cup {x}
    <2>1. CASE conv' = conv
      BY <1>4, <2>1
    <2>2. CASE \E written \in {squeeze[k].read, {}} : CommitSummary(k, written)
      <3>1. squeeze[k].conv \in Conv
        BY DEF TypeOK, CompactionType
      <3>2. \A c \in Conv \ {squeeze[k].conv} : conv'[c] = conv[c]
        BY <2>2 DEF CommitSummary, TypeOK
      <3> QED
        BY <1>5, <3>1, <3>2
    <2> QED
      BY <1>10, <2>1, <2>2
      DEF CompactionStep, StartCompaction, LoadMessages, NumberSummary, CommitFails
  <1>11. ASSUME NEW n \in Restored, SetBack(n) PROVE Opened' \subseteq Opened
    BY <1>4, <1>11 DEF SetBack
  <1> QED
    BY <1>7, <1>8, <1>9, <1>10, <1>11 DEF Next

\* The tree of any list of conversations, also one whose parents are deleted or in
\* another project, shows each conversation of it once, under its parent.
THEOREM TreesShowEach == Spec => []TreeShowsEach
  <1>1. Init => IsFiniteSet(Opened)
    <2>1. ASSUME Init PROVE Opened \subseteq {First}
      BY <2>1 DEF Init, Opened, Open, NoRow, NewConv
    <2> QED
      BY <2>1, FS_Singleton, FS_Subset
  <1>2. Inv /\ IsFiniteSet(Opened) /\ [Next]_vars => IsFiniteSet(Opened)'
    <2> SUFFICES ASSUME Inv, IsFiniteSet(Opened), [Next]_vars PROVE IsFiniteSet(Opened')
      OBVIOUS
    <2>1. CASE Next
      <3>1. PICK x \in Conv : Opened' \subseteq Opened \cup {x}
        BY <2>1, OpensOne DEF Inv
      <3>2. IsFiniteSet(Opened \cup {x})
        BY FS_AddElement
      <3> QED
        BY <3>1, <3>2, FS_Subset
    <2>2. CASE UNCHANGED vars
      BY <2>2 DEF vars, Opened, Open
    <2> QED
      BY <2>1, <2>2
  <1>3. EveryTreeIsRight
    <2> SUFFICES ASSUME NEW up \in [Listed -> Listed \cup {NoConv}], NEW list \in SUBSET Listed
                 PROVE  RightTree(up, list)
      BY DEF EveryTreeIsRight
    <2>1. Lists(list)
      BY TreeAssumption, FS_Subset DEF Lists
    <2> QED
      BY <2>1, TreeIsRight
  <1>4. ASSUME IsFiniteSet(Opened), NEW list \in SUBSET Opened
        PROVE  RightTree([c \in Conv |-> conv[c].parent], list)
    <2>1. Lists(list)
      <3>1. NoConv \notin Opened
        BY DEF Opened
      <3> QED
        BY <1>4, <3>1, FS_Subset DEF Lists
    <2> QED
      BY <2>1, TreeIsRight
  <1>5. IsFiniteSet(Opened) => TreeShowsEach
    BY <1>3, <1>4 DEF TreeShowsEach, Opened
  <1> QED
    BY <1>1, <1>2, <1>5, Invariance, PTL DEF Spec

=============================================================================
