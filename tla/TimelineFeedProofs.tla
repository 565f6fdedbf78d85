-------------------------- MODULE TimelineFeedProofs --------------------------
(***************************************************************************)
(* Theorems about TimelineFeed, for any number of events and openings, any *)
(* stride and any window: the log keeps up with what is said (LogKeepsUp), *)
(* the view shows all of it once it is at rest (NothingIsLost), with the   *)
(* requests that are open (RequestsAreShown), its cursor passes nothing    *)
(* that is missing (CursorIsSafe), and it implements the lagging copy      *)
(* (StreamLags).                                                           *)
(*                                                                         *)
(* The log holds back the frames of one text at a time. What it has of     *)
(* that text is the size the text had when it was last written, so it is   *)
(* less than the stride behind; of every other text it has all, except of  *)
(* one that was held back as the session ended.                            *)
(*                                                                         *)
(* For the view the invariant says where everything is: each line of the   *)
(* log is on the screen or reached by an event on its way, and the lines   *)
(* before an event's own by one said no later; so the cursor, which jumps  *)
(* to the line of the event that is applied, leaves nothing behind it.     *)
(* A read that was answered counts as merged, and what was said before it  *)
(* is not owed by the events any more. That events arrive in the order     *)
(* they were said, and that nobody answers a request twice, is what keeps  *)
(* the requests right.                                                     *)
(***************************************************************************)
EXTENDS TimelineFeed, SequenceTheorems, FiniteSetTheorems, WellFoundedInduction, TLAPS

LineTypes == [kind : Kinds, id : Nat, size : Nat]

EntryTypes == [Ids -> Nat]

AskTypes == SUBSET Ids

SaidTypes == [entries : EntryTypes, asks : AskTypes, count : Nat]

\* The part of the types the argument needs.
FeedTyped ==
    /\ log \in Seq(LineTypes)
    /\ pending \in [id : Nat, size : Nat, persisted : Nat]
    /\ said \in SaidTypes

TextOf(line, id) == line.kind = "text" /\ line.id = id

Textless(s, id) == \A i \in 1..Len(s) : ~TextOf(s[i], id)

\* The longest line of a text.
Longest(s, id, n) ==
    /\ \E i \in 1..Len(s) : TextOf(s[i], id) /\ s[i].size = n
    /\ \A i \in 1..Len(s) : TextOf(s[i], id) => s[i].size <= n

\* What begins next was never heard of.
NextIsNew ==
    /\ pending.id <= said.count
    /\ \A id \in Ids : id > said.count => Textless(log, id) /\ said.entries[id] = 0

\* The text that is held back.
HeldBack ==
    IF pending.id = 0 THEN pending.size <= pending.persisted
    ELSE /\ pending.id \in Ids
         /\ Longest(log, pending.id, pending.persisted)
         /\ pending.persisted <= pending.size /\ pending.size < pending.persisted + Stride
         /\ said.entries[pending.id] = pending.size

\* What the log has of any other.
Written(s, id, size, cut) ==
    \/ Textless(s, id)
    \/ \E n \in Nat : /\ Longest(s, id, n)
                      /\ \/ size = n
                         \/ cut /\ size < n + Stride

OthersWritten ==
    \A id \in Ids \ {pending.id} : Written(log, id, said.entries[id], "cut" \in odd)

LogInv == FeedTyped /\ NextIsNew /\ HeldBack /\ OthersWritten

(***************************************************************************)
(* Lines.                                                                  *)
(***************************************************************************)
LEMMA LineAppended ==
    ASSUME NEW s \in Seq(LineTypes), NEW line \in LineTypes
    PROVE  /\ Append(s, line) \in Seq(LineTypes)
           /\ Len(s) \in Nat /\ Len(Append(s, line)) = Len(s) + 1
           /\ Append(s, line)[Len(s) + 1] = line
           /\ \A i \in 1..Len(s) : Append(s, line)[i] = s[i] /\ s[i] \in LineTypes
  BY AppendProperties, LenProperties

\* A line of something else changes nothing of a text.
LEMMA OtherLine ==
    ASSUME NEW s \in Seq(LineTypes), NEW line \in LineTypes, NEW id, ~TextOf(line, id)
    PROVE  /\ Textless(s, id) => Textless(Append(s, line), id)
           /\ \A n \in Nat : Longest(s, id, n) => Longest(Append(s, line), id, n)
  <1> DEFINE t == Append(s, line)
  <1>1. /\ Len(s) \in Nat /\ Len(t) = Len(s) + 1 /\ t[Len(s) + 1] = line
        /\ \A i \in 1..Len(s) : t[i] = s[i]
    BY LineAppended
  <1>2. 1..Len(t) = 1..Len(s) \cup {Len(s) + 1}
    BY <1>1
  <1> HIDE DEF t
  <1>3. Textless(s, id) => Textless(t, id)
    BY <1>1, <1>2 DEF Textless
  <1>4. ASSUME NEW n \in Nat, Longest(s, id, n)
        PROVE  Longest(t, id, n)
    <2>1. PICK i \in 1..Len(s) : TextOf(s[i], id) /\ s[i].size = n
      BY <1>4 DEF Longest
    <2>2. i \in 1..Len(t) /\ TextOf(t[i], id) /\ t[i].size = n
      BY <2>1, <1>1, <1>2
    <2>3. \A j \in 1..Len(t) : TextOf(t[j], id) => t[j].size <= n
      BY <1>1, <1>2, <1>4 DEF Longest
    <2> QED
      BY <2>2, <2>3 DEF Longest
  <1> QED
    BY <1>3, <1>4 DEF t

\* A line of a text that has not become shorter is its longest.
LEMMA TextLine ==
    ASSUME NEW s \in Seq(LineTypes), NEW line \in LineTypes, NEW id, TextOf(line, id),
           Textless(s, id) \/ \E n \in Nat : Longest(s, id, n) /\ n <= line.size
    PROVE  Longest(Append(s, line), id, line.size)
  <1> DEFINE t == Append(s, line)
  <1>1. /\ Len(s) \in Nat /\ Len(t) = Len(s) + 1 /\ t[Len(s) + 1] = line
        /\ \A i \in 1..Len(s) : t[i] = s[i] /\ s[i] \in LineTypes
    BY LineAppended
  <1>2. 1..Len(t) = 1..Len(s) \cup {Len(s) + 1} /\ Len(s) + 1 \in 1..Len(t)
    BY <1>1
  <1>3. line.size \in Nat /\ \A i \in 1..Len(s) : s[i].size \in Nat
    BY <1>1 DEF LineTypes
  <1> HIDE DEF t
  <1>4. ASSUME NEW i \in 1..Len(s), TextOf(s[i], id)
        PROVE  s[i].size <= line.size
    <2>1. PICK n \in Nat : Longest(s, id, n) /\ n <= line.size
      BY <1>4 DEF Textless
    <2>2. s[i].size <= n
      BY <2>1, <1>4 DEF Longest
    <2> QED
      BY <2>1, <2>2, <1>3
  <1>5. \A j \in 1..Len(t) : TextOf(t[j], id) => t[j].size <= line.size
    BY <1>1, <1>2, <1>3, <1>4
  <1>6. Longest(t, id, line.size)
    BY <1>1, <1>2, <1>5 DEF Longest
  <1> QED
    BY <1>6 DEF t

\* The held back text goes to the log: then all of it is there.
LEMMA Flushed ==
    ASSUME LogInv
    PROVE  /\ FlushPending \in Seq(LineTypes)
           /\ pending.id # 0 => Longest(FlushPending, pending.id, pending.size)
           /\ \A id \in Ids \ {pending.id} :
                Written(FlushPending, id, said.entries[id], "cut" \in odd)
           /\ \A id \in Ids : id > said.count => Textless(FlushPending, id)
  <1> USE DEF LogInv
  <1>1. /\ log \in Seq(LineTypes) /\ pending.id \in Nat /\ pending.size \in Nat
        /\ pending.persisted \in Nat
    BY DEF FeedTyped, SaidTypes, EntryTypes
  <1>2. CASE pending.size > pending.persisted
    <2>1. PICK line : line = [kind |-> "text", id |-> pending.id, size |-> pending.size]
      OBVIOUS
    <2>2. line \in LineTypes /\ TextOf(line, pending.id) /\ line.size = pending.size
      BY <2>1, <1>1 DEF LineTypes, Kinds, EntryKinds, TextOf
    <2>3. FlushPending = Append(log, line)
      BY <1>2, <2>1 DEF FlushPending
    <2>4. pending.id # 0 /\ pending.id \in Ids /\ Longest(log, pending.id, pending.persisted)
      BY <1>1, <1>2 DEF HeldBack
    <2>5. Longest(FlushPending, pending.id, pending.size)
      <3>1. pending.persisted <= line.size
        BY <1>1, <1>2, <2>2
      <3>2. Longest(Append(log, line), pending.id, line.size)
        BY <1>1, <2>2, <2>4, <3>1, TextLine
      <3> QED
        BY <2>2, <2>3, <3>2
    <2>6. ASSUME NEW id, id # pending.id
          PROVE  /\ Textless(log, id) => Textless(FlushPending, id)
                 /\ \A n \in Nat : Longest(log, id, n) => Longest(FlushPending, id, n)
      <3>1. ~TextOf(line, id)
        BY <2>1, <2>6 DEF TextOf
      <3> QED
        BY <1>1, <2>2, <2>3, <3>1, OtherLine
    <2>7. \A id \in Ids \ {pending.id} :
            Written(FlushPending, id, said.entries[id], "cut" \in odd)
      BY <2>6 DEF OthersWritten, Written
    <2>8. \A id \in Ids : id > said.count => Textless(FlushPending, id)
      <3>1. ASSUME NEW id \in Ids, id > said.count
            PROVE  id # pending.id /\ Textless(log, id)
        BY <3>1, <1>1 DEF NextIsNew, FeedTyped, SaidTypes, EntryTypes
      <3> QED
        BY <3>1, <2>6
    <2>9. FlushPending \in Seq(LineTypes)
      BY <1>1, <2>2, <2>3, LineAppended
    <2> QED
      BY <2>5, <2>7, <2>8, <2>9
  <1>3. CASE ~(pending.size > pending.persisted)
    <2>1. FlushPending = log
      BY <1>3 DEF FlushPending
    <2>2. pending.id # 0 => pending.size = pending.persisted
      BY <1>1, <1>3 DEF HeldBack
    <2> QED
      BY <1>1, <2>1, <2>2 DEF HeldBack, OthersWritten, NextIsNew
  <1> QED
    BY <1>2, <1>3

(***************************************************************************)
(* Steps.                                                                  *)
(***************************************************************************)
\* An event that is no text: what was held back is written before it.
LEMMA WholeKept ==
    ASSUME LogInv, NEW line \in LineTypes, line.kind # "text",
           log' = Append(FlushPending, line),
           pending' = [pending EXCEPT !.persisted = pending.size],
           FeedTyped', said'.count = said.count + 1, odd' = odd,
           \A id \in Ids : said'.entries[id] = said.entries[id] \/ id = said.count + 1
    PROVE  LogInv'
  <1> USE DEF LogInv
  <1>1. /\ said.count \in Nat /\ pending.id \in Nat /\ pending.size \in Nat /\ Stride \in Nat \ {0}
        /\ pending'.id = pending.id /\ pending'.size = pending.size
        /\ pending'.persisted = pending.size
    BY FeedAssumption DEF FeedTyped, SaidTypes, EntryTypes
  <1>2. /\ FlushPending \in Seq(LineTypes)
        /\ pending.id # 0 => Longest(FlushPending, pending.id, pending.size)
        /\ \A id \in Ids \ {pending.id} :
             Written(FlushPending, id, said.entries[id], "cut" \in odd)
        /\ \A id \in Ids : id > said.count => Textless(FlushPending, id)
    BY Flushed
  <1>3. ASSUME NEW id
        PROVE  /\ Textless(FlushPending, id) => Textless(log', id)
               /\ \A n \in Nat : Longest(FlushPending, id, n) => Longest(log', id, n)
    <2>1. ~TextOf(line, id)
      BY DEF TextOf
    <2> QED
      BY <1>2, <2>1, OtherLine
  <1>4. NextIsNew'
    <2>1. ASSUME NEW id \in Ids, id > said.count + 1
          PROVE  Textless(log', id) /\ said'.entries[id] = 0
      <3>1. id > said.count /\ id # said.count + 1
        BY <1>1, <2>1 DEF Ids
      <3> QED
        BY <1>2, <1>3, <3>1 DEF NextIsNew
    <2>2. pending'.id <= said'.count
      BY <1>1 DEF NextIsNew
    <2> QED
      BY <2>1, <2>2 DEF NextIsNew
  <1>5. HeldBack'
    <2>1. CASE pending.id = 0
      BY <1>1, <2>1 DEF HeldBack
    <2>2. CASE pending.id # 0
      <3>1. pending.id \in Ids /\ said.entries[pending.id] = pending.size
        BY <2>2 DEF HeldBack
      <3>2. pending.id # said.count + 1
        BY <1>1 DEF NextIsNew
      <3>3. said'.entries[pending.id] = pending.size
        BY <3>1, <3>2
      <3>4. Longest(log', pending.id, pending.size)
        BY <1>1, <1>2, <1>3, <2>2
      <3>5. pending.size < pending.size + Stride
        BY <1>1
      <3> QED
        BY <1>1, <2>2, <3>1, <3>3, <3>4, <3>5 DEF HeldBack
    <2> QED
      BY <2>1, <2>2
  <1>6. OthersWritten'
    <2>1. ASSUME NEW id \in Ids, id # pending.id
          PROVE  Written(log', id, said'.entries[id], "cut" \in odd')
      <3>1. CASE id = said.count + 1
        <4>1. Textless(FlushPending, id)
          BY <1>1, <1>2, <3>1
        <4> QED
          BY <1>3, <4>1 DEF Written
      <3>2. CASE id # said.count + 1
        <4>1. said'.entries[id] = said.entries[id] /\ Written(FlushPending, id, said.entries[id], "cut" \in odd)
          BY <1>2, <2>1, <3>2
        <4> QED
          BY <1>3, <4>1 DEF Written
      <3> QED
        BY <3>1, <3>2
    <2> QED
      BY <1>1, <2>1 DEF OthersWritten
  <1> QED
    BY <1>4, <1>5, <1>6

\* A line of a text, written or held back.
LEMMA TextKept ==
    ASSUME LogInv, NEW text \in Ids, NEW size \in Nat, NEW persisted \in Nat,
           Longest(log', text, persisted), persisted <= size, size < persisted + Stride,
           pending' = [id |-> text, size |-> size, persisted |-> persisted],
           FeedTyped', said'.count = said.count + 1, odd' = odd, text <= said.count + 1,
           said'.entries[text] = size,
           \A id \in Ids \ {text} : said'.entries[id] = said.entries[id],
           \A id \in Ids \ {text} : id > said.count => Textless(log', id),
           \A id \in Ids \ {text} : Written(log', id, said.entries[id], "cut" \in odd)
    PROVE  LogInv'
  <1>1. said.count \in Nat /\ pending'.id = text /\ pending'.size = size /\ pending'.persisted = persisted
    BY DEF LogInv, FeedTyped, SaidTypes, EntryTypes
  <1>2. NextIsNew'
    <2>1. ASSUME NEW id \in Ids, id > said.count + 1
          PROVE  Textless(log', id) /\ said'.entries[id] = 0
      <3>1. id > said.count /\ id # text
        BY <1>1, <2>1 DEF Ids
      <3>2. said.entries[id] = 0
        BY <3>1 DEF LogInv, NextIsNew
      <3> QED
        BY <3>1, <3>2
    <2> QED
      BY <1>1, <2>1 DEF NextIsNew
  <1>3. HeldBack'
    <2>1. text # 0
      BY DEF Ids
    <2> QED
      BY <1>1, <2>1 DEF HeldBack
  <1>4. OthersWritten'
    BY <1>1 DEF OthersWritten
  <1> QED
    BY <1>2, <1>3, <1>4 DEF LogInv

\* Nothing is said, and no text is cut off.
LEMMA SilentKept ==
    ASSUME LogInv, UNCHANGED <<log, pending, said>>, "cut" \in odd => "cut" \in odd'
    PROVE  LogInv'
  <1>1. FeedTyped' /\ NextIsNew' /\ HeldBack'
    BY DEF LogInv, FeedTyped, SaidTypes, EntryTypes, NextIsNew, HeldBack
  <1>2. OthersWritten'
    BY DEF LogInv, OthersWritten, Written
  <1> QED
    BY <1>1, <1>2 DEF LogInv

\* One more event is said.
LEMMA SaidMore ==
    ASSUME said \in SaidTypes, NEW entries \in EntryTypes, NEW asks \in AskTypes,
           said' = [entries |-> entries, asks |-> asks, count |-> said.count + 1]
    PROVE  said' \in SaidTypes /\ said'.count = said.count + 1 /\ said'.entries = entries
  BY DEF SaidTypes

LEMMA TextStep ==
    ASSUME LogInv, NEW id \in Ids, SayText(id)
    PROVE  LogInv'
  <1> DEFINE size == said.entries[id] + 1
  <1>t. /\ log \in Seq(LineTypes) /\ said.count \in Nat /\ said.entries \in [Ids -> Nat]
        /\ pending.id \in Nat /\ pending.size \in Nat /\ pending.persisted \in Nat
        /\ Stride \in Nat \ {0}
    BY FeedAssumption DEF LogInv, FeedTyped, SaidTypes, EntryTypes
  <1>1. /\ id \in {NewId, pending.id} \ {0} /\ PersistText("agent", id, size)
        /\ said' = [said EXCEPT !.count = @ + 1, !.entries[id] = @ + 1] /\ odd' = odd
    BY DEF SayText
  <1>2. /\ said' \in SaidTypes
        /\ said'.count = said.count + 1 /\ said'.entries[id] = size
        /\ \A i \in Ids \ {id} : said'.entries[i] = said.entries[i]
    <2>1. said \in SaidTypes
      BY DEF LogInv, FeedTyped, SaidTypes, EntryTypes
    <2>2. said' = [entries |-> [said.entries EXCEPT ![id] = size], asks |-> said.asks,
                   count |-> said.count + 1]
      BY <1>1, <2>1 DEF SaidTypes
    <2>3. [said.entries EXCEPT ![id] = size] \in EntryTypes
      BY <1>t DEF EntryTypes
    <2>4. said.asks \in AskTypes
      BY <2>1 DEF SaidTypes
    <2> HIDE DEF size
    <2>5. /\ said' \in SaidTypes /\ said'.count = said.count + 1
          /\ said'.entries = [said.entries EXCEPT ![id] = size]
      BY <2>1, <2>2, <2>3, <2>4, SaidMore
    <2> QED
      BY <1>t, <2>5
  <1>3. size \in Nat /\ id \in Nat
    BY <1>t, FeedAssumption DEF Ids
  <1>4. id <= said.count + 1
    BY <1>1, <1>t DEF NewId, LogInv, NextIsNew
  <1>5. PICK line : line = [kind |-> "text", id |-> id, size |-> size]
    OBVIOUS
  <1>6. line \in LineTypes /\ TextOf(line, id) /\ line.size = size
    BY <1>3, <1>5 DEF LineTypes, Kinds, EntryKinds, TextOf
  <1>7. ASSUME NEW i, i # id
        PROVE  ~TextOf(line, i)
    BY <1>5, <1>7 DEF TextOf
  <1> HIDE DEF size
  <1>8. CASE pending.id = id
    <2>1. /\ Longest(log, id, pending.persisted) /\ pending.persisted <= pending.size
          /\ pending.size < pending.persisted + Stride /\ said.entries[id] = pending.size
      BY <1>3, <1>8 DEF LogInv, HeldBack, Ids
    <2>2. size = pending.size + 1 /\ pending.persisted <= size
      BY <1>t, <2>1 DEF size
    <2>3. CASE pending.persisted = 0 \/ size >= pending.persisted + Stride
      <3>1. /\ log' = Append(log, line)
            /\ pending' = [id |-> id, size |-> size, persisted |-> size]
        BY <1>1, <1>5, <1>8, <2>3 DEF PersistText
      <3>2. Longest(log', id, size)
        <4>1. Longest(Append(log, line), id, line.size)
          BY <1>t, <1>6, <2>1, <2>2, TextLine
        <4> QED
          BY <4>1, <3>1, <1>6
      <3>3. ASSUME NEW i \in Ids \ {id}
            PROVE  /\ i > said.count => Textless(log', i)
                   /\ Written(log', i, said.entries[i], "cut" \in odd)
        <4>1. /\ Textless(log, i) => Textless(log', i)
              /\ \A n \in Nat : Longest(log, i, n) => Longest(log', i, n)
          BY <1>t, <1>6, <1>7, <3>1, OtherLine
        <4> QED
          BY <4>1, <1>8 DEF LogInv, NextIsNew, OthersWritten, Written
      <3>4. FeedTyped'
        BY <1>t, <1>2, <1>3, <1>6, <3>1, LineAppended DEF FeedTyped, SaidTypes, EntryTypes
      <3>5. size <= size /\ size < size + Stride
        BY <1>t, <1>3
      <3> QED
        BY <1>1, <1>2, <1>3, <1>4, <3>1, <3>2, <3>3, <3>4, <3>5, TextKept
    <2>4. CASE ~(pending.persisted = 0 \/ size >= pending.persisted + Stride)
      <3>1. /\ log' = log
            /\ pending' = [id |-> id, size |-> size, persisted |-> pending.persisted]
        BY <1>1, <1>8, <2>4 DEF PersistText
      <3>2. FeedTyped'
        BY <1>t, <1>2, <1>3, <3>1 DEF FeedTyped, SaidTypes, EntryTypes
      <3>3. ASSUME NEW i \in Ids \ {id}
            PROVE  /\ i > said.count => Textless(log', i)
                   /\ Written(log', i, said.entries[i], "cut" \in odd)
        BY <3>1, <1>8 DEF LogInv, NextIsNew, OthersWritten
      <3>4. size < pending.persisted + Stride
        BY <1>t, <1>3, <2>4
      <3> QED
        BY <1>t, <1>1, <1>2, <1>3, <1>4, <2>1, <2>2, <3>1, <3>2, <3>3, <3>4, TextKept
    <2> QED
      BY <2>3, <2>4
  <1>9. CASE pending.id # id
    <2>1. id = said.count + 1
      BY <1>1, <1>9 DEF NewId
    <2>2. /\ log' = Append(FlushPending, line)
          /\ pending' = [id |-> id, size |-> size, persisted |-> size]
      BY <1>1, <1>5, <1>9 DEF PersistText
    <2>3. /\ FlushPending \in Seq(LineTypes)
          /\ pending.id # 0 => Longest(FlushPending, pending.id, pending.size)
          /\ \A i \in Ids \ {pending.id} :
               Written(FlushPending, i, said.entries[i], "cut" \in odd)
          /\ \A i \in Ids : i > said.count => Textless(FlushPending, i)
      BY Flushed
    <2>4. Longest(log', id, size)
      <3>1. Textless(FlushPending, id)
        BY <1>t, <2>1, <2>3
      <3>2. Longest(Append(FlushPending, line), id, line.size)
        BY <1>6, <2>3, <3>1, TextLine
      <3> QED
        BY <3>2, <2>2, <1>6
    <2>5. ASSUME NEW i \in Ids \ {id}
          PROVE  /\ i > said.count => Textless(log', i)
                 /\ Written(log', i, said.entries[i], "cut" \in odd)
      <3>1. /\ Textless(FlushPending, i) => Textless(log', i)
            /\ \A n \in Nat : Longest(FlushPending, i, n) => Longest(log', i, n)
        BY <1>6, <1>7, <2>2, <2>3, OtherLine
      <3>2. CASE i = pending.id
        <4>1. i # 0
          BY DEF Ids
        <4>2. said.entries[i] = pending.size /\ Longest(log', i, pending.size)
          BY <1>t, <2>3, <3>1, <3>2, <4>1 DEF LogInv, HeldBack
        <4>3. Written(log', i, said.entries[i], "cut" \in odd)
          BY <1>t, <4>2 DEF Written
        <4> QED
          BY <2>3, <3>1, <4>3
      <3>3. CASE i # pending.id
        BY <2>3, <3>1, <3>3 DEF Written
      <3> QED
        BY <3>2, <3>3
    <2>6. FeedTyped'
      BY <1>2, <1>3, <1>6, <2>2, <2>3, LineAppended DEF FeedTyped, SaidTypes, EntryTypes
    <2>7. size <= size /\ size < size + Stride
      BY <1>t, <1>3
    <2> QED
      BY <1>1, <1>2, <1>3, <1>4, <2>2, <2>4, <2>5, <2>6, <2>7, TextKept
  <1> QED
    BY <1>8, <1>9

LEMMA WholeStep ==
    ASSUME LogInv,
           NEW t, NEW kind \in Kinds \ {"text"}, NEW id \in Ids, PersistWhole(t, kind, id),
           said' \in SaidTypes,
           said'.count = said.count + 1, odd' = odd,
           \A i \in Ids : said'.entries[i] = said.entries[i] \/ i = said.count + 1
    PROVE  LogInv'
  <1>1. PICK line : line = [kind |-> kind, id |-> id, size |-> 1]
    OBVIOUS
  <1>2. line \in LineTypes /\ line.kind # "text"
    BY <1>1 DEF LineTypes, Ids
  <1>3. /\ log' = Append(FlushPending, line)
        /\ pending' = [pending EXCEPT !.persisted = pending.size]
    BY <1>1 DEF PersistWhole
  <1>4. FlushPending \in Seq(LineTypes)
    BY Flushed
  <1>5. FeedTyped'
    <2>1. log' \in Seq(LineTypes)
      BY <1>2, <1>3, <1>4, LineAppended
    <2>2. pending' \in [id : Nat, size : Nat, persisted : Nat]
      BY <1>3 DEF LogInv, FeedTyped, SaidTypes, EntryTypes
    <2> QED
      BY <2>1, <2>2 DEF FeedTyped, SaidTypes, EntryTypes
  <1> QED
    BY <1>2, <1>3, <1>5, WholeKept

LEMMA EndStep ==
    ASSUME LogInv, Shutdown
    PROVE  LogInv'
  <1>1. /\ pending' = NoText /\ UNCHANGED <<log, said>>
        /\ odd' = IF pending.size > pending.persisted THEN odd \cup {"cut"} ELSE odd
    BY DEF Shutdown
  <1>2. /\ pending.size \in Nat /\ pending.persisted \in Nat /\ said.count \in Nat
        /\ pending'.id = 0 /\ pending'.size = 0 /\ pending'.persisted = 0
    BY <1>1 DEF LogInv, FeedTyped, SaidTypes, EntryTypes, NoText
  <1>3. FeedTyped'
    BY <1>1 DEF LogInv, FeedTyped, SaidTypes, EntryTypes, NoText
  <1>4. NextIsNew' /\ HeldBack'
    BY <1>1, <1>2 DEF LogInv, NextIsNew, HeldBack
  <1>5. ASSUME NEW id \in Ids
        PROVE  Written(log, id, said.entries[id], "cut" \in odd')
    <2>1. CASE id = pending.id
      <3>1. /\ Longest(log, id, pending.persisted) /\ pending.persisted <= pending.size
            /\ pending.size < pending.persisted + Stride /\ said.entries[id] = pending.size
        BY <2>1 DEF LogInv, HeldBack, Ids
      <3>2. said.entries[id] = pending.persisted \/ "cut" \in odd'
        BY <1>1, <1>2, <3>1
      <3> QED
        BY <1>2, <3>1, <3>2 DEF Written
    <2>2. CASE id # pending.id
      BY <1>1, <2>2 DEF LogInv, OthersWritten, Written
    <2> QED
      BY <2>1, <2>2
  <1>6. OthersWritten'
    BY <1>1, <1>5 DEF OthersWritten
  <1> QED
    BY <1>3, <1>4, <1>6 DEF LogInv

LEMMA LogStep ==
    ASSUME LogInv, [Next]_vars
    PROVE  LogInv'
  <1>t. said \in SaidTypes
    BY DEF LogInv, FeedTyped, SaidTypes, EntryTypes
  <1>id. ASSUME NEW t, MaySay(t)
         PROVE  NewId \in Ids
    BY <1>id, <1>t, FeedAssumption DEF MaySay, NewId, Ids, SaidTypes
  <1>1. ASSUME NEW t \in Threads, NEW kind \in {"tool", "message"}, SayEntry(t, kind)
        PROVE  LogInv'
    <2>1. /\ NewId \in Ids /\ PersistWhole(t, kind, NewId) /\ odd' = odd
          /\ said' = [said EXCEPT !.count = @ + 1, !.entries[NewId] = 1]
      BY <1>1, <1>id DEF SayEntry
    <2>2. /\ said' \in SaidTypes
          /\ said'.count = said.count + 1
          /\ \A i \in Ids : said'.entries[i] = said.entries[i] \/ i = said.count + 1
      <3>1. said' = [entries |-> [said.entries EXCEPT ![NewId] = 1], asks |-> said.asks,
                     count |-> said.count + 1]
        BY <1>t, <2>1 DEF SaidTypes
      <3>2. [said.entries EXCEPT ![NewId] = 1] \in EntryTypes /\ said.asks \in AskTypes
        BY <1>t DEF EntryTypes, SaidTypes
      <3>3. /\ said' \in SaidTypes /\ said'.count = said.count + 1
            /\ said'.entries = [said.entries EXCEPT ![NewId] = 1]
        BY <1>t, <3>1, <3>2, SaidMore
      <3> QED
        BY <1>t, <3>3 DEF SaidTypes, EntryTypes, NewId
    <2>3. kind \in Kinds \ {"text"}
      BY DEF Kinds, EntryKinds
    <2> QED
      BY <2>1, <2>2, <2>3, WholeStep
  <1>2. ASSUME SayModel PROVE LogInv'
    <2>1. /\ NewId \in Ids /\ PersistWhole("agent", "model", NewId) /\ odd' = odd
          /\ said' = [said EXCEPT !.count = @ + 1]
      BY <1>2, <1>id DEF SayModel
    <2>2. /\ said' \in SaidTypes
          /\ said'.count = said.count + 1 /\ said'.entries = said.entries
      <3>1. said' = [entries |-> said.entries, asks |-> said.asks, count |-> said.count + 1]
        BY <1>t, <2>1 DEF SaidTypes
      <3>2. said.entries \in EntryTypes /\ said.asks \in AskTypes
        BY <1>t DEF SaidTypes
      <3> QED
        BY <1>t, <3>1, <3>2, SaidMore
    <2> QED
      BY <2>1, <2>2, WholeStep DEF Kinds, EntryKinds
  <1>3. ASSUME Ask PROVE LogInv'
    <2>1. /\ NewId \in Ids /\ PersistWhole("agent", "ask", NewId) /\ odd' = odd
          /\ said' = [said EXCEPT !.count = @ + 1, !.asks = @ \cup {NewId}]
      BY <1>3, <1>id DEF Ask
    <2>2. /\ said' \in SaidTypes
          /\ said'.count = said.count + 1 /\ said'.entries = said.entries
      <3>1. PICK asks \in AskTypes :
              said' = [entries |-> said.entries, asks |-> asks, count |-> said.count + 1]
        BY <1>t, <2>1 DEF SaidTypes, AskTypes
      <3>2. said.entries \in EntryTypes
        BY <1>t DEF SaidTypes
      <3> QED
        BY <1>t, <3>1, <3>2, SaidMore
    <2> QED
      BY <2>1, <2>2, WholeStep DEF Kinds, EntryKinds
  <1>4. ASSUME NEW id \in Ids, Answer(id) PROVE LogInv'
    <2>1. /\ PersistWhole("user", "answer", id) /\ odd' = odd
          /\ said' = [said EXCEPT !.count = @ + 1, !.asks = @ \ {id}]
      BY <1>4 DEF Answer
    <2>2. /\ said' \in SaidTypes
          /\ said'.count = said.count + 1 /\ said'.entries = said.entries
      <3>1. PICK asks \in AskTypes :
              said' = [entries |-> said.entries, asks |-> asks, count |-> said.count + 1]
        BY <1>t, <2>1 DEF SaidTypes, AskTypes
      <3>2. said.entries \in EntryTypes
        BY <1>t DEF SaidTypes
      <3> QED
        BY <1>t, <3>1, <3>2, SaidMore
    <2> QED
      BY <2>1, <2>2, WholeStep DEF Kinds, EntryKinds
  <1>5. ASSUME \/ \E t \in Threads : Deliver(t)
               \/ Open \/ Read \/ ReadFails \/ Apply \/ Subscribe \/ Flush \/ Close \/ Evict
               \/ UNCHANGED vars
        PROVE  LogInv'
    <2>1. UNCHANGED <<log, pending, said>>
      BY <1>5 DEF Deliver, Open, Read, ReadFails, Apply, Subscribe, Flush, Close, Evict, vars
    <2>2. "cut" \in odd => "cut" \in odd'
      BY <1>5 DEF Deliver, Open, Read, ReadFails, Apply, Subscribe, Flush, Close, Evict, vars
    <2> QED
      BY <2>1, <2>2, SilentKept
  <1> QED
    BY <1>1, <1>2, <1>3, <1>4, <1>5, TextStep, EndStep DEF Next

LEMMA LogInit == Init => LogInv
  <1> SUFFICES ASSUME Init PROVE LogInv
    OBVIOUS
  <1>1. FeedTyped
    <2>1. Nothing \in EntryTypes /\ {} \in AskTypes
      BY DEF Nothing, EntryTypes, AskTypes
    <2>2. said \in SaidTypes
      BY <2>1 DEF Init, SaidTypes
    <2> QED
      BY <2>2, EmptySeq DEF Init, FeedTyped, NoText
  <1>2. NextIsNew /\ HeldBack
    BY EmptySeq DEF Init, NextIsNew, HeldBack, NoText, Textless, Nothing
  <1>3. OthersWritten
    BY EmptySeq DEF Init, OthersWritten, Written, Textless
  <1> QED
    BY <1>1, <1>2, <1>3 DEF LogInv

(***************************************************************************)
(* The theorem.                                                            *)
(***************************************************************************)
\* The longest line is the maximum the property computes.
LEMMA LongestIsLogged ==
    ASSUME log \in Seq(LineTypes), NEW id, NEW n \in Nat, Longest(log, id, n)
    PROVE  LoggedSize(id) = n
  <1> DEFINE sizes == {0} \cup {log[i].size : i \in {j \in DOMAIN log :
                                    log[j].kind = "text" /\ log[j].id = id}}
  <1>1. DOMAIN log = 1..Len(log)
    BY LenProperties
  <1>2. n \in sizes
    BY <1>1 DEF Longest, TextOf
  <1>3. \A m \in sizes : m <= n
    BY <1>1 DEF Longest, TextOf
  <1>4. \A i \in 1..Len(log) : log[i] \in LineTypes
    BY <1>1, ElementOfSeq
  <1>5. \A m \in sizes : m \in Nat
    BY <1>1, <1>4 DEF LineTypes
  <1>6. LoggedSize(id) = CHOOSE m \in sizes : \A k \in sizes : m >= k
    BY DEF LoggedSize, Max
  <1> HIDE DEF sizes
  <1>7. \A k \in sizes : n >= k
    BY <1>3, <1>5
  <1>8. \A m \in sizes : (\A k \in sizes : m >= k) => m = n
    BY <1>2, <1>3, <1>5
  <1> QED
    BY <1>2, <1>6, <1>7, <1>8

\* The log is never behind of a text by the stride or more, and only of the
\* text held back, or cut off, last (session_log_coalesce.rs): for any stride.
THEOREM LogKeepsUp == Spec => []LogCatchesUp
  <1>1. ASSUME LogInv PROVE LogCatchesUp
    <2> SUFFICES ASSUME NEW id \in Ids, \E i \in DOMAIN log : log[i].id = id /\ log[i].kind = "text"
                 PROVE  \/ LoggedSize(id) = said.entries[id]
                        \/ /\ said.entries[id] < LoggedSize(id) + Stride
                           /\ id = pending.id \/ "cut" \in odd
      BY DEF LogCatchesUp
    <2>1. log \in Seq(LineTypes) /\ DOMAIN log = 1..Len(log) /\ pending.persisted \in Nat
      BY <1>1, LenProperties DEF LogInv, FeedTyped, SaidTypes, EntryTypes
    <2>2. ~Textless(log, id)
      BY <2>1 DEF Textless, TextOf
    <2>3. CASE id = pending.id
      <3>1. /\ Longest(log, id, pending.persisted) /\ said.entries[id] = pending.size
            /\ pending.size < pending.persisted + Stride
        BY <1>1, <2>3 DEF LogInv, HeldBack, Ids
      <3>2. LoggedSize(id) = pending.persisted
        BY <2>1, <3>1, LongestIsLogged
      <3> QED
        BY <2>3, <3>1, <3>2
    <2>4. CASE id # pending.id
      <3>1. PICK n \in Nat : /\ Longest(log, id, n)
                             /\ \/ said.entries[id] = n
                                \/ "cut" \in odd /\ said.entries[id] < n + Stride
        BY <1>1, <2>2, <2>4 DEF LogInv, OthersWritten, Written
      <3>2. LoggedSize(id) = n
        BY <2>1, <3>1, LongestIsLogged
      <3> QED
        BY <3>1, <3>2
    <2> QED
      BY <2>3, <2>4
  <1> QED
    BY LogInit, LogStep, <1>1, PTL DEF Spec

(***************************************************************************)
(* Induction over a sequence, as the existence of a least number at which  *)
(* something fails: sets of numbers correspond to sets of intervals, which *)
(* are well founded by inclusion.                                          *)
(***************************************************************************)
\* A set of numbers up to N that is not empty has a least member.
LEMMA LeastNat ==
    ASSUME NEW N \in Nat, NEW T, T \subseteq 0..N, T # {}
    PROVE  \E n \in T : \A m \in 0..N : m < n => m \notin T
  <1> DEFINE S == 1..N
             R == StrictSubsetOrdering(S)
             I == {1..n : n \in T}
  <1>1. IsFiniteSet(S)
    BY FS_Interval
  <1>2. IsWellFoundedOn(R, SUBSET S)
    BY <1>1, FS_FiniteSubsetsOfFinite, FS_StrictSubsetOrderingWellFounded
  <1>3. I \subseteq SUBSET S /\ I # {}
    <2>1. \A n \in T : 1..n \subseteq 1..N
      OBVIOUS
    <2>2. PICK n \in T : TRUE
      OBVIOUS
    <2>3. 1..n \in I
      BY <2>2
    <2> QED
      BY <2>1, <2>3
  <1>4. PICK x \in I : \A y \in I : ~(<<y, x>> \in R)
    <2> HIDE DEF R, I, S
    <2> QED
      BY <1>2, <1>3, WFMin
  <1>5. PICK n \in T : x = 1..n
    BY <1>4
  <1>6. ASSUME NEW m \in 0..N, m < n, m \in T
        PROVE  FALSE
    <2>1. 1..m \subseteq 1..n /\ n \in 1..n /\ n \notin 1..m
      BY <1>5, <1>6
    <2>2. 1..m \in SUBSET S /\ 1..n \in SUBSET S
      OBVIOUS
    <2>3. <<1..m, 1..n>> \in R
      BY <2>1, <2>2 DEF StrictSubsetOrdering
    <2> QED
      BY <2>3, <1>4, <1>5, <1>6
  <1> QED
    BY <1>6

\* A set of numbers up to N that is not empty has a greatest member.
LEMMA GreatestNat ==
    ASSUME NEW N \in Nat, NEW T, T \subseteq 0..N, T # {}
    PROVE  \E n \in T : \A m \in T : m <= n
  <1> DEFINE U == {N - n : n \in T}
  <1>1. U \subseteq 0..N /\ U # {}
    <2>1. \A n \in T : N - n \in 0..N
      OBVIOUS
    <2> QED
      BY <2>1
  <1>2. PICK u \in U : \A m \in 0..N : m < u => m \notin U
    <2> HIDE DEF U
    <2> QED
      BY <1>1, LeastNat
  <1>3. PICK n \in T : u = N - n
    BY <1>2
  <1>4. ASSUME NEW m \in T, ~(m <= n)
        PROVE  FALSE
    <2>1. N - m \in U /\ N - m \in 0..N /\ N - m < N - n
      BY <1>1, <1>4
    <2> QED
      BY <2>1, <1>2, <1>3
  <1> QED
    BY <1>4

(***************************************************************************)
(* The events of a frame are applied one after the other.                  *)
(***************************************************************************)
Posts == [kind : Kinds \cup {"none"}, id : Nat, size : Nat, line : Nat, at : Nat]

\* An event about something the session has said.
Events == {e \in Posts : e.kind # "none" /\ e.id \in Ids}

Views == [entries : EntryTypes, asks : AskTypes, cursor : Nat, initialized : BOOLEAN]

\* f gives what is shown after each of the first n events.
Shows(f, v, events, n) ==
    f = [i \in 0..n |-> IF i = 0 THEN v ELSE AfterEvent(f[i - 1], events[i])]

\* What AllApplied computes is reached by a step per event.
LEMMA AppliedStepwise ==
    ASSUME NEW v, NEW events, Len(events) \in Nat
    PROVE  \E f : /\ f[0] = v
                  /\ \A n \in 1..Len(events) : f[n] = AfterEvent(f[n - 1], events[n])
                  /\ AllApplied(v, events) = f[Len(events)]
  <1> DEFINE N == Len(events)
             T == {n \in 0..N : ~ \E f : Shows(f, v, events, n)}
  <1>1. T = {}
    <2> SUFFICES ASSUME T # {}
                 PROVE  FALSE
      OBVIOUS
    <2>1. PICK n \in T : \A m \in 0..N : m < n => m \notin T
      <3> HIDE DEF T
      <3>1. T \subseteq 0..N
        BY DEF T
      <3> QED
        BY <3>1, LeastNat
    <2>2. CASE n = 0
      <3> DEFINE f == [i \in 0..0 |-> v]
      <3>1. Shows(f, v, events, 0)
        BY DEF Shows
      <3> QED
        BY <2>1, <2>2, <3>1
    <2>3. CASE n # 0
      <3>1. n - 1 \in 0..N /\ n \in 0..N
        BY <2>1, <2>3
      <3>2. PICK g : Shows(g, v, events, n - 1)
        BY <2>1, <3>1
      <3> DEFINE f == [i \in 0..n |-> IF i < n THEN g[i] ELSE AfterEvent(g[n - 1], events[n])]
      <3>3. \A i \in 0..(n - 1) : f[i] = g[i]
        BY <3>1
      <3>4. \A i \in 0..n : f[i] = IF i = 0 THEN v ELSE AfterEvent(f[i - 1], events[i])
        <4> SUFFICES ASSUME NEW i \in 0..n
                     PROVE  f[i] = IF i = 0 THEN v ELSE AfterEvent(f[i - 1], events[i])
          OBVIOUS
        <4>1. CASE i = n
          <5>1. f[n] = AfterEvent(g[n - 1], events[n]) /\ f[n - 1] = g[n - 1]
            BY <3>1, <3>3, <2>3
          <5> QED
            BY <5>1, <4>1, <2>3
        <4>2. CASE i # n
          <5>1. i \in 0..(n - 1) /\ (i # 0 => i - 1 \in 0..(n - 1))
            BY <4>2, <3>1
          <5>2. g[i] = IF i = 0 THEN v ELSE AfterEvent(g[i - 1], events[i])
            BY <5>1, <3>2 DEF Shows
          <5> QED
            BY <5>1, <5>2, <3>3
        <4> QED
          BY <4>1, <4>2
      <3>5. Shows(f, v, events, n)
        <4>1. f = [i \in 0..n |-> f[i]]
          OBVIOUS
        <4> HIDE DEF f
        <4> QED
          BY <4>1, <3>4 DEF Shows
      <3> QED
        BY <2>1, <3>5
    <2> QED
      BY <2>2, <2>3
  <1>2. PICK g : Shows(g, v, events, N)
    <2>1. N \in 0..N
      OBVIOUS
    <2> QED
      BY <1>1, <2>1
  <1> DEFINE after == CHOOSE f : f = [i \in 0..N |-> IF i = 0 THEN v ELSE AfterEvent(f[i - 1], events[i])]
  <1>3. after = [i \in 0..N |-> IF i = 0 THEN v ELSE AfterEvent(after[i - 1], events[i])]
    BY <1>2 DEF Shows
  <1>4. AllApplied(v, events) = after[N]
    BY DEF AllApplied
  <1> HIDE DEF after
  <1> QED
    BY <1>3, <1>4

\* What an event changes.
LEMMA AfterFacts ==
    ASSUME NEW v \in Views, NEW e \in Events
    PROVE  /\ AfterEvent(v, e) \in Views
           /\ \A id \in Ids : AfterEvent(v, e).entries[id] =
                IF e.kind \in EntryKinds /\ e.id = id THEN e.size ELSE v.entries[id]
           /\ AfterEvent(v, e).cursor =
                IF e.kind \in EntryKinds /\ e.line > v.cursor THEN e.line ELSE v.cursor
           /\ AfterEvent(v, e).asks =
                IF e.kind = "ask" THEN v.asks \cup {e.id}
                ELSE IF e.kind = "answer" THEN v.asks \ {e.id} ELSE v.asks
  <1>1. e.id \in Ids /\ e.size \in Nat /\ e.line \in Nat
    BY DEF Events, Posts
  <1>2. /\ v.entries \in [Ids -> Nat] /\ v.asks \subseteq Ids /\ v.cursor \in Nat
        /\ v.initialized \in BOOLEAN
        /\ v = [entries |-> v.entries, asks |-> v.asks, cursor |-> v.cursor,
                initialized |-> v.initialized]
    BY DEF Views, EntryTypes, AskTypes
  <1>3. "ask" \notin EntryKinds /\ "answer" \notin EntryKinds /\ "ask" # "answer"
    BY DEF EntryKinds
  <1>4. CASE e.kind \in EntryKinds
    <2>1. AfterEvent(v, e) = [v EXCEPT !.entries[e.id] = e.size,
                                       !.cursor = IF e.line > @ THEN e.line ELSE @]
      BY <1>3, <1>4 DEF AfterEvent
    <2>2. AfterEvent(v, e) = [entries |-> [v.entries EXCEPT ![e.id] = e.size], asks |-> v.asks,
                              cursor |-> IF e.line > v.cursor THEN e.line ELSE v.cursor,
                              initialized |-> v.initialized]
      BY <2>1, <1>2
    <2>3. [v.entries EXCEPT ![e.id] = e.size] \in [Ids -> Nat]
      BY <1>1, <1>2
    <2> QED
      BY <2>2, <2>3, <1>1, <1>2, <1>3, <1>4 DEF Views, EntryTypes, AskTypes
  <1>5. CASE e.kind = "ask"
    <2>1. AfterEvent(v, e) = [v EXCEPT !.asks = @ \cup {e.id}]
      BY <1>3, <1>5 DEF AfterEvent
    <2>2. AfterEvent(v, e) = [entries |-> v.entries, asks |-> v.asks \cup {e.id},
                              cursor |-> v.cursor, initialized |-> v.initialized]
      BY <2>1, <1>2
    <2> QED
      BY <2>2, <1>1, <1>2, <1>3, <1>5 DEF Views, EntryTypes, AskTypes
  <1>6. CASE e.kind = "answer"
    <2>1. AfterEvent(v, e) = [v EXCEPT !.asks = @ \ {e.id}]
      BY <1>3, <1>6 DEF AfterEvent
    <2>2. AfterEvent(v, e) = [entries |-> v.entries, asks |-> v.asks \ {e.id},
                              cursor |-> v.cursor, initialized |-> v.initialized]
      BY <2>1, <1>2
    <2> QED
      BY <2>2, <1>1, <1>2, <1>3, <1>6 DEF Views, EntryTypes, AskTypes
  <1>7. CASE e.kind \notin EntryKinds /\ e.kind # "ask" /\ e.kind # "answer"
    <2>1. AfterEvent(v, e) = v
      BY <1>7 DEF AfterEvent
    <2> QED
      BY <2>1, <1>7
  <1> QED
    BY <1>4, <1>5, <1>6, <1>7

(***************************************************************************)
(* What is on its way, and what the view shows or is about to show.        *)
(***************************************************************************)
IsEntry(line) == line.kind \in EntryKinds

Held == Events \cup {NoMail}

\* Emitted and not applied, or persisted and not emitted.
OnWay == {e \in Events : \/ \E t \in Threads : mail[t] = e
                         \/ \E i \in 1..Len(queue) : queue[i] = e}

\* What the last read cannot have found.
Fresh == {e \in OnWay : e.at > reply.at}

Following == phase \in {"answered", "applied", "live"}

\* Nothing went wrong for the entries; nothing for the requests.
EntriesSound == Orderly(Deviations \ {"quiet", "cut"})

AsksSound == Orderly(Deviations \ {"unflushed", "cut"})

Behind == BehindCursor(LinesRead, view.cursor)

Merged == EntriesAfter(view.entries, Behind)

\* A read that was answered counts as applied.
Seen == IF phase = "answered" THEN Merged ELSE view.entries

SeenAsks ==
    IF phase = "answered" THEN IF reply.quiet THEN {} ELSE AsksIn(LinesRead) ELSE view.asks

Brings(e, id, n) == IsEntry(e) /\ e.id = id /\ e.size >= n

\* A size of an entry is shown, or an event on its way shows it: one of those
\* that were said no later than f.
Reached(id, n) == Seen[id] >= n \/ \E e \in Fresh : Brings(e, id, n)

ReachedBy(f, id, n) == Seen[id] >= n \/ \E e \in Fresh : e.at <= f.at /\ Brings(e, id, n)

(***************************************************************************)
(* The invariant: of the log and what was said,                            *)
(***************************************************************************)
LogNumbers ==
    /\ said.count <= MaxEvents
    /\ \A id \in Ids : said.entries[id] <= said.count
    /\ \A i \in 1..Len(log) : log[i].id \in 1..said.count

LogSizes ==
    /\ \A i \in 1..Len(log) : IsEntry(log[i]) => log[i].size <= said.entries[log[i].id]
    /\ \A i, j \in 1..Len(log) :
         IsEntry(log[i]) /\ IsEntry(log[j]) /\ i < j /\ log[i].id = log[j].id =>
            log[i].size <= log[j].size

Logged ==
    \A id \in Ids :
        \/ said.entries[id] = 0
        \/ \E i \in 1..Len(log) : /\ IsEntry(log[i]) /\ log[i].id = id
                                  /\ log[i].kind = "text" \/ log[i].size = said.entries[id]

AsksLogged == AsksIn(1..Len(log)) = said.asks

SayInv == LogNumbers /\ LogSizes /\ Logged /\ AsksLogged

(***************************************************************************)
(* of what is on its way,                                                  *)
(***************************************************************************)
WayTyped ==
    /\ mail \in [Threads -> Held]
    /\ queue \in Seq(Events)
    /\ view \in Views
    /\ reply.upto \in Nat /\ reply.at \in Nat

WayNumbers ==
    /\ \A e \in OnWay : e.at \in 1..said.count /\ e.id <= said.count /\ e.line <= Len(log)
    /\ \A t, u \in Threads : t # u /\ mail[t].kind # "none" /\ mail[u].kind # "none" =>
                                mail[t].at # mail[u].at
    /\ reply.at <= said.count /\ reply.upto <= Len(log) /\ view.cursor <= Len(log)
    /\ phase # "live" => queue = <<>>
    /\ phase = "live" => reply.at = 0

\* What is about to be emitted is the latest of its entry.
MailSize ==
    /\ \A t \in Threads : IsEntry(mail[t]) => mail[t].size = said.entries[mail[t].id]
    /\ IsEntry(mail["user"]) => mail["user"].id # pending.id

WaySizes ==
    /\ \A id \in Ids : view.entries[id] <= said.entries[id]
    /\ \A p \in 1..Len(queue) : IsEntry(queue[p]) =>
         /\ view.entries[queue[p].id] <= queue[p].size
         /\ queue[p].size <= said.entries[queue[p].id]
    /\ \A p, q \in 1..Len(queue) :
         p < q /\ IsEntry(queue[p]) /\ IsEntry(queue[q]) /\ queue[p].id = queue[q].id =>
            queue[p].size <= queue[q].size

InOrder ==
    "disorder" \notin odd =>
        /\ \A p, q \in 1..Len(queue) : p < q => queue[p].at < queue[q].at
        /\ \A p \in 1..Len(queue), t \in Threads :
             mail[t].kind # "none" => queue[p].at < mail[t].at

AskOrder ==
    \A e, f \in OnWay : e.kind = "ask" /\ f.kind = "answer" /\ e.id = f.id => e.at < f.at

AnsweredOnce == \A e \in OnWay : e.kind = "answer" => e.id \notin said.asks

WayInv == WayTyped /\ WayNumbers /\ MailSize /\ WaySizes /\ InOrder /\ AskOrder /\ AnsweredOnce

(***************************************************************************)
(* and of the view: nothing that was said is neither shown nor on its way. *)
(***************************************************************************)
LinesCovered == \A i \in 1..Len(log) : IsEntry(log[i]) => Reached(log[i].id, log[i].size)

OrderCovered ==
    \A f \in OnWay : \A i \in 1..Len(log) :
        i <= f.line /\ IsEntry(log[i]) => ReachedBy(f, log[i].id, log[i].size)

TextCovered == pending.id # 0 => Reached(pending.id, pending.size)

Covered == Following /\ EntriesSound => LinesCovered /\ OrderCovered /\ TextCovered

InWindow ==
    phase = "answered" /\ EntriesSound =>
        \A i \in LastOfEntries(1..reply.upto) : i > view.cursor => i \in LinesRead

Forward == phase = "answered" /\ odd = {} => \A id \in Ids : Seen[id] >= view.entries[id]

QueuedAsk(id) == \E p \in 1..Len(queue) : queue[p].kind = "ask" /\ queue[p].id = id

AsksArrive ==
    \A id \in said.asks : id \in SeenAsks \/ \E e \in Fresh : e.kind = "ask" /\ e.id = id

AsksLeave ==
    \A id \in Ids \ said.asks :
        id \in SeenAsks \/ QueuedAsk(id) => \E e \in Fresh : e.kind = "answer" /\ e.id = id

AsksCovered == Following /\ AsksSound => AsksArrive /\ AsksLeave

ViewInv == Covered /\ InWindow /\ Forward /\ AsksCovered /\ CursorCovers

FeedInv == SayInv /\ WayInv /\ ViewInv

(***************************************************************************)
(* What a read finds.                                                      *)
(***************************************************************************)
\* A number of tool calls goes back to one of them.
LEMMA WindowBegins ==
    ASSUME NEW n \in Nat
    PROVE  WindowStart(n) \in Nat /\ 1 <= WindowStart(n)
  <1> DEFINE T == ToolLines(n)
             From(i) == T \cap i..n
  <1>1. T \subseteq 1..n /\ IsFiniteSet(T)
    <2>1. T \subseteq 1..n /\ IsFiniteSet(1..n)
      BY FS_Interval DEF ToolLines
    <2> QED
      BY <2>1, FS_Subset
  <1>2. Window \in Nat /\ Window >= 1
    BY FeedAssumption
  <1>3. CASE Cardinality(T) < Window
    <2>1. WindowStart(n) = 1
      BY <1>3 DEF WindowStart
    <2> QED
      BY <2>1
  <1>4. CASE ~(Cardinality(T) < Window)
    <2>1. WindowStart(n) = CHOOSE i \in T : Cardinality(From(i)) = Window
      BY <1>4 DEF WindowStart
    <2> HIDE DEF T
    <2>2. \A i : IsFiniteSet(From(i)) /\ Cardinality(From(i)) \in Nat
      <3>1. \A i : From(i) \subseteq T
        OBVIOUS
      <3> QED
        BY <1>1, <3>1, FS_Subset, FS_CardinalityType
    <2> DEFINE P == {i \in 1..n : Cardinality(From(i)) >= Window}
    <2>3. From(1) = T
      BY <1>1
    <2>4. T # {} /\ Cardinality(T) \in Nat /\ Cardinality(T) >= Window
      BY <1>1, <1>2, <1>4, FS_CardinalityType, FS_EmptySet
    <2>5. 1 \in P
      <3>1. 1 \in 1..n
        <4>1. PICK x \in T : TRUE
          BY <2>4
        <4>2. x \in 1..n
          BY <1>1
        <4> QED
          BY <4>2
      <3> QED
        BY <2>3, <2>4, <3>1
    <2>6. PICK i \in P : \A m \in P : m <= i
      <3> HIDE DEF P
      <3>1. P \subseteq 0..n
        BY DEF P
      <3> QED
        BY <2>5, <3>1, GreatestNat
    <2>7. i \in 1..n /\ Cardinality(From(i)) >= Window
      BY <2>6
    <2>8. Cardinality(From(i + 1)) < Window
      <3>1. CASE i + 1 \in 1..n
        <4> HIDE DEF From
        <4>1. ~(Cardinality(From(i + 1)) >= Window)
          BY <2>6, <2>7, <3>1
        <4>2. Cardinality(From(i + 1)) \in Nat
          BY <2>2
        <4> QED
          BY <4>1, <4>2, <1>2
      <3>2. CASE i + 1 \notin 1..n
        <4>1. From(i + 1) = {}
          BY <3>2, <2>7
        <4> QED
          BY <4>1, <1>2, FS_EmptySet
      <3> QED
        BY <3>1, <3>2
    <2>9. From(i) \subseteq From(i + 1) \cup {i} /\ From(i + 1) \subseteq From(i) /\ i \notin From(i + 1)
      BY <2>7
    <2>10. i \in T
      <3> SUFFICES ASSUME i \notin T
                   PROVE  FALSE
        OBVIOUS
      <3>1. From(i) = From(i + 1)
        BY <2>9
      <3> HIDE DEF From
      <3> QED
        BY <3>1, <2>2, <2>7, <2>8, <1>2
    <2>11. From(i) = From(i + 1) \cup {i}
      BY <2>7, <2>9, <2>10
    <2>12. Cardinality(From(i)) = Cardinality(From(i + 1)) + 1
      <3> HIDE DEF From
      <3> QED
        BY <2>2, <2>9, <2>11, FS_AddElement
    <2>13. Cardinality(From(i)) = Window
      <3> HIDE DEF From
      <3> QED
        BY <2>2, <2>7, <2>8, <2>12, <1>2
    <2>14. WindowStart(n) \in T
      <3> HIDE DEF From
      <3> QED
        BY <2>1, <2>10, <2>13
    <2>15. WindowStart(n) \in 1..n
      BY <1>1, <2>14
    <2> QED
      BY <2>15
  <1> QED
    BY <1>3, <1>4

LEMMA LinesExist ==
    ASSUME reply.upto \in Nat
    PROVE  LinesRead \subseteq 1..reply.upto
  <1>1. WindowStart(reply.upto) \in Nat /\ 1 <= WindowStart(reply.upto)
    BY WindowBegins
  <1> QED
    BY <1>1 DEF LinesRead

\* An entry has a last line among the first n.
LEMMA LastLine ==
    ASSUME NEW n \in Nat, NEW i \in 1..n, IsEntry(log[i])
    PROVE  \E k \in LastOfEntries(1..n) : log[k].id = log[i].id /\ i <= k
  <1> DEFINE T == {j \in 1..n : IsEntry(log[j]) /\ log[j].id = log[i].id}
  <1>1. i \in T /\ T \subseteq 0..n
    OBVIOUS
  <1>2. PICK k \in T : \A m \in T : m <= k
    <2> HIDE DEF T
    <2> QED
      BY <1>1, GreatestNat
  <1>3. k \in LastOfEntries(1..n)
    BY <1>2 DEF LastOfEntries, IsEntry
  <1> QED
    BY <1>1, <1>2, <1>3

\* What is merged of an entry is the size of its line.
LEMMA MergedEntry ==
    ASSUME NEW v, NEW B, NEW id \in Ids, NEW j \in B,
           log[j].id = id, \A i \in B : log[i].id = id => i = j
    PROVE  EntriesAfter(v, B)[id] = log[j].size
  <1>1. EntriesAfter(v, B)[id] = IF \E i \in B : log[i].id = id
                                 THEN log[CHOOSE i \in B : log[i].id = id].size
                                 ELSE v[id]
    BY DEF EntriesAfter
  <1>2. j = CHOOSE i \in B : log[i].id = id
    OBVIOUS
  <1> QED
    BY <1>1, <1>2

\* What has no line is left as it was.
LEMMA UnmergedEntry ==
    ASSUME NEW v, NEW B, NEW id \in Ids, \A j \in B : log[j].id # id
    PROVE  EntriesAfter(v, B)[id] = v[id]
  BY DEF EntriesAfter

\* The cursor is the old one or a line that was read, and behind none of them.
LEMMA CursorIs ==
    ASSUME NEW n \in Nat, NEW lines, NEW c \in Nat, lines \subseteq 1..n
    PROVE  /\ CursorAfter(c, lines) \in {c} \cup lines
           /\ \A i \in {c} \cup lines : i <= CursorAfter(c, lines)
  <1> DEFINE T == {c} \cup lines
  <1>1. T \subseteq 0..(n + c) /\ T # {}
    OBVIOUS
  <1>2. PICK m \in T : \A i \in T : i <= m
    <2> HIDE DEF T
    <2>1. n + c \in Nat
      OBVIOUS
    <2> QED
      BY <1>1, <2>1, GreatestNat
  <1>3. CursorAfter(c, lines) = CHOOSE x \in T : \A y \in T : x >= y
    BY DEF CursorAfter, Max
  <1>4. \A x, y \in T : x >= y <=> y <= x
    BY <1>1
  <1> HIDE DEF T
  <1>5. CursorAfter(c, lines) \in T /\ \A i \in T : i <= CursorAfter(c, lines)
    BY <1>2, <1>3, <1>4
  <1> QED
    BY <1>5 DEF T

\* Lines that come later change nothing of a read.
LEMMA ReadKept ==
    ASSUME reply.upto \in Nat, \A i \in 1..reply.upto : log'[i] = log[i],
           reply' = reply, view' = view
    PROVE  /\ LinesRead' = LinesRead /\ Behind' = Behind
           /\ Merged' = Merged /\ AsksIn(LinesRead)' = AsksIn(LinesRead)
           /\ LastOfEntries(1..reply.upto)' = LastOfEntries(1..reply.upto)
  <1>1. PICK n \in Nat : n = reply.upto
    OBVIOUS
  <1>2. ToolLines(n)' = ToolLines(n)
    BY <1>1 DEF ToolLines
  <1>3. WindowStart(n)' = WindowStart(n)
    BY <1>2 DEF WindowStart
  <1>4. LinesRead' = LinesRead
    BY <1>1, <1>3 DEF LinesRead
  <1>5. PICK lines : lines = LinesRead
    OBVIOUS
  <1>6. lines \subseteq 1..n
    BY <1>1, <1>5, LinesExist
  <1>7. \A i \in 1..n : log'[i] = log[i]
    BY <1>1
  <1>8. LastOfEntries(lines)' = LastOfEntries(lines) /\ LastOfEntries(1..n)' = LastOfEntries(1..n)
    BY <1>6, <1>7 DEF LastOfEntries
  <1>9. PICK c : c = view.cursor
    OBVIOUS
  <1>10. BehindCursor(lines, c)' = BehindCursor(lines, c)
    BY <1>8 DEF BehindCursor
  <1>11. Behind' = Behind /\ Behind = BehindCursor(lines, c)
    BY <1>4, <1>5, <1>9, <1>10 DEF Behind
  <1>12. PICK B : B = Behind
    OBVIOUS
  <1>13. B \subseteq 1..n
    BY <1>6, <1>11, <1>12 DEF BehindCursor, LastOfEntries
  <1>14. PICK v : v = view.entries
    OBVIOUS
  <1>15. EntriesAfter(v, B)' = EntriesAfter(v, B)
    <2>1. \A id \in Ids : \A i \in B : log'[i].id = id <=> log[i].id = id
      BY <1>7, <1>13
    <2>2. \A id \in Ids : (\E i \in B : log[i].id = id) =>
            /\ (CHOOSE i \in B : log'[i].id = id) = CHOOSE i \in B : log[i].id = id
            /\ (CHOOSE i \in B : log[i].id = id) \in B
      BY <2>1
    <2>3. ASSUME NEW id \in Ids
          PROVE  (IF \E i \in B : log'[i].id = id
                  THEN log'[CHOOSE i \in B : log'[i].id = id].size ELSE v[id])
                 = IF \E i \in B : log[i].id = id
                   THEN log[CHOOSE i \in B : log[i].id = id].size ELSE v[id]
      <3>1. CASE \E i \in B : log[i].id = id
        <4>1. PICK k \in B : k = CHOOSE i \in B : log[i].id = id
          BY <3>1
        <4>2. k = CHOOSE i \in B : log'[i].id = id
          BY <2>2, <3>1, <4>1
        <4>3. log'[k].size = log[k].size
          BY <1>7, <1>13
        <4> QED
          BY <2>1, <3>1, <4>1, <4>2, <4>3
      <3>2. CASE ~ \E i \in B : log[i].id = id
        BY <2>1, <3>2
      <3> QED
        BY <3>1, <3>2
    <2> QED
      BY <2>3 DEF EntriesAfter
  <1>16. Merged' = Merged
    BY <1>11, <1>12, <1>14, <1>15 DEF Merged
  <1>17. AsksIn(lines)' = AsksIn(lines)
    BY <1>6, <1>7 DEF AsksIn
  <1> QED
    BY <1>1, <1>4, <1>5, <1>8, <1>11, <1>16, <1>17

(***************************************************************************)
(* A step that says something.                                             *)
(***************************************************************************)
OwnLine(line, e) == line.kind = e.kind /\ line.id = e.id /\ line.size = e.size

HeldLine(line) ==
    /\ line.kind = "text" /\ line.id = pending.id /\ line.size = pending.size
    /\ pending.id \in Ids /\ said.entries[pending.id] = pending.size

\* The thread t has persisted the event e.
Heard(t, e) ==
    /\ t \in Threads /\ mail[t].kind = "none" /\ e \in Events
    /\ mail' = [mail EXCEPT ![t] = e]
    /\ e.at = said.count + 1 /\ e.line <= Len(log')
    /\ UNCHANGED <<view, phase, reply, queue, odd>>

\* The log has got the text that was held back, the event, both or neither.
Grown(e) ==
    /\ log' \in Seq(LineTypes) /\ Len(log') \in Nat /\ Len(log) <= Len(log')
    /\ \A i \in 1..Len(log) : log'[i] = log[i]
    /\ \A i \in (Len(log) + 1)..Len(log') :
         \/ OwnLine(log'[i], e)
         \/ HeldLine(log'[i]) /\ (IsEntry(e) => e.id # pending.id)
    /\ e.kind # "text" => \E i \in (Len(log) + 1)..Len(log') : OwnLine(log'[i], e)
    /\ e.kind = "text" => \E i \in 1..Len(log') : TextOf(log'[i], e.id)

Spoken(t, e) ==
    /\ said'.count = said.count + 1 /\ said'.count <= MaxEvents /\ e.id <= said'.count
    /\ \A id \in Ids : said'.entries[id] = said.entries[id] \/ (IsEntry(e) /\ e.id = id)
    /\ IsEntry(e) => /\ e.size = said'.entries[e.id] /\ e.size <= said'.count
                     /\ said.entries[e.id] <= e.size
                     /\ e.id = said'.count \/ (e.id = pending.id /\ t = "agent")
    /\ said'.asks = IF e.kind = "ask" THEN said.asks \cup {e.id}
                    ELSE IF e.kind = "answer" THEN said.asks \ {e.id} ELSE said.asks
    /\ e.kind = "ask" => e.id = said'.count
    /\ \/ pending'.id = pending.id /\ pending'.size = pending.size
       \/ e.kind = "text" /\ t = "agent" /\ pending'.id = e.id /\ pending'.size = e.size

Says(t, e) == Heard(t, e) /\ Grown(e) /\ Spoken(t, e)

LEMMA NothingElse == Kinds = {"tool", "message", "text", "ask", "answer", "model"}
  BY DEF Kinds, EntryKinds

\* The text that was held back is the only line of its writing.
LEMMA HeldIsWritten ==
    ASSUME LogInv
    PROVE  /\ FlushPending \in Seq(LineTypes) /\ Len(FlushPending) \in Nat
           /\ Len(log) \in Nat /\ Len(log) <= Len(FlushPending)
           /\ \A i \in 1..Len(log) : FlushPending[i] = log[i]
           /\ \A i \in (Len(log) + 1)..Len(FlushPending) : HeldLine(FlushPending[i])
  <1>1. /\ log \in Seq(LineTypes) /\ pending.id \in Nat /\ pending.size \in Nat
        /\ pending.persisted \in Nat /\ Len(log) \in Nat
    BY LenProperties DEF LogInv, FeedTyped, SaidTypes, EntryTypes
  <1>2. FlushPending \in Seq(LineTypes)
    BY Flushed
  <1>3. CASE pending.size > pending.persisted
    <2>1. PICK line : line = [kind |-> "text", id |-> pending.id, size |-> pending.size]
      OBVIOUS
    <2>2. line \in LineTypes
      BY <2>1, <1>1, NothingElse DEF LineTypes
    <2>3. FlushPending = Append(log, line)
      BY <1>3, <2>1 DEF FlushPending
    <2>4. pending.id \in Ids /\ said.entries[pending.id] = pending.size
      BY <1>1, <1>3 DEF LogInv, HeldBack
    <2>5. HeldLine(line)
      BY <2>1, <2>4 DEF HeldLine
    <2>6. /\ Len(FlushPending) = Len(log) + 1 /\ FlushPending[Len(log) + 1] = line
          /\ \A i \in 1..Len(log) : FlushPending[i] = log[i]
      BY <1>1, <2>2, <2>3, LineAppended
    <2>7. \A i \in (Len(log) + 1)..Len(FlushPending) : FlushPending[i] = line
      <3>1. \A i \in (Len(log) + 1)..Len(FlushPending) : i = Len(log) + 1
        BY <1>1, <2>6
      <3> QED
        BY <2>6, <3>1
    <2> QED
      BY <1>1, <1>2, <2>5, <2>6, <2>7
  <1>4. CASE ~(pending.size > pending.persisted)
    <2>1. FlushPending = log
      BY <1>4 DEF FlushPending
    <2>2. \A i \in (Len(log) + 1)..Len(log) : FALSE
      BY <1>1
    <2> QED
      BY <1>1, <1>2, <2>1, <2>2
  <1> QED
    BY <1>3, <1>4

\* A line is written behind others.
LEMMA OwnIsWritten ==
    ASSUME NEW s \in Seq(LineTypes), NEW line \in LineTypes, NEW n \in Nat, n <= Len(s),
           log' = Append(s, line)
    PROVE  /\ log' \in Seq(LineTypes) /\ Len(log') \in Nat /\ Len(s) \in Nat
           /\ Len(log') = Len(s) + 1
           /\ n <= Len(log') /\ log'[Len(log')] = line /\ Len(log') \in (n + 1)..Len(log')
           /\ \A i \in 1..Len(s) : log'[i] = s[i]
           /\ \A i \in (n + 1)..Len(log') : i = Len(log') \/ i \in (n + 1)..Len(s)
  <1>1. /\ log' \in Seq(LineTypes) /\ Len(s) \in Nat /\ Len(log') = Len(s) + 1
        /\ log'[Len(s) + 1] = line /\ \A i \in 1..Len(s) : log'[i] = s[i]
    BY LineAppended
  <1>2. /\ Len(log') \in Nat /\ n <= Len(log') /\ Len(log') \in (n + 1)..Len(log')
        /\ \A i \in (n + 1)..Len(log') : i = Len(log') \/ i \in (n + 1)..Len(s)
    BY <1>1
  <1> QED
    BY <1>1, <1>2

\* The log after the line of an event.
LEMMA GrownBy ==
    ASSUME LogInv, NEW e \in Events, NEW line \in LineTypes, OwnLine(line, e),
           NEW s, log' = Append(s, line),
           s = log \/ (s = FlushPending /\ (IsEntry(e) => e.id # pending.id))
    PROVE  Grown(e) /\ Len(log') \in Nat
  <1>1. /\ s \in Seq(LineTypes) /\ Len(s) \in Nat
        /\ Len(log) \in Nat /\ Len(log) <= Len(s)
        /\ \A i \in 1..Len(log) : s[i] = log[i]
        /\ \A i \in (Len(log) + 1)..Len(s) :
             HeldLine(s[i]) /\ (IsEntry(e) => e.id # pending.id)
    <2>1. CASE s = log
      <3>1. log \in Seq(LineTypes) /\ Len(log) \in Nat
        BY LenProperties DEF LogInv, FeedTyped
      <3>2. \A i \in (Len(log) + 1)..Len(log) : FALSE
        BY <3>1
      <3> QED
        BY <2>1, <3>1, <3>2
    <2>2. CASE s = FlushPending /\ (IsEntry(e) => e.id # pending.id)
      BY <2>2, HeldIsWritten
    <2> QED
      BY <2>1, <2>2
  <1>2. /\ log' \in Seq(LineTypes) /\ Len(log') \in Nat
        /\ Len(log) <= Len(log') /\ log'[Len(log')] = line
        /\ Len(log') \in (Len(log) + 1)..Len(log')
        /\ \A i \in 1..Len(s) : log'[i] = s[i]
        /\ \A i \in (Len(log) + 1)..Len(log') :
             i = Len(log') \/ i \in (Len(log) + 1)..Len(s)
    BY <1>1, OwnIsWritten
  <1>3. \A i \in 1..Len(log) : log'[i] = log[i]
    <2>1. \A i \in 1..Len(log) : i \in 1..Len(s)
      BY <1>1
    <2> QED
      BY <2>1, <1>1, <1>2
  <1>4. ASSUME NEW i \in (Len(log) + 1)..Len(log')
        PROVE  OwnLine(log'[i], e) \/ (HeldLine(log'[i]) /\ (IsEntry(e) => e.id # pending.id))
    <2>1. CASE i = Len(log')
      <3>1. log'[i] = line
        BY <2>1, <1>2
      <3> QED
        BY <3>1
    <2>2. CASE i \in (Len(log) + 1)..Len(s)
      <3>1. i \in 1..Len(s)
        BY <1>1, <2>2
      <3> QED
        BY <1>1, <1>2, <2>2, <3>1
    <2> QED
      BY <2>1, <2>2, <1>2
  <1>5. \E i \in (Len(log) + 1)..Len(log') : OwnLine(log'[i], e)
    BY <1>2
  <1>6. e.kind = "text" => \E i \in 1..Len(log') : TextOf(log'[i], e.id)
    <2>1. Len(log') \in 1..Len(log')
      BY <1>1, <1>2
    <2>2. OwnLine(log'[Len(log')], e)
      BY <1>2
    <2> QED
      BY <2>1, <2>2 DEF TextOf, OwnLine
  <1> QED
    BY <1>2, <1>3, <1>4, <1>5, <1>6 DEF Grown

\* What is persisted of an event that is no text.
LEMMA WholeSaid ==
    ASSUME LogInv, NEW t \in Threads, NEW kind \in Kinds \ {"text"}, NEW id \in Ids,
           PersistWhole(t, kind, id), mail[t].kind = "none",
           kind \in EntryKinds => id # pending.id,
           UNCHANGED <<view, phase, reply, queue, odd>>
    PROVE  \E e \in Events : /\ Heard(t, e) /\ Grown(e)
                             /\ e.kind = kind /\ e.id = id /\ e.size = 1
                             /\ pending'.id = pending.id /\ pending'.size = pending.size
  <1>1. PICK line : line = [kind |-> kind, id |-> id, size |-> 1]
    OBVIOUS
  <1>2. PICK e : e = [kind |-> kind, id |-> id, size |-> 1, line |-> Len(log'), at |-> said.count + 1]
    OBVIOUS
  <1>3. /\ log' = Append(FlushPending, line)
        /\ pending' = [pending EXCEPT !.persisted = pending.size]
        /\ mail' = [mail EXCEPT ![t] = e]
    BY <1>1, <1>2 DEF PersistWhole, Told
  <1>4. line \in LineTypes
    BY <1>1 DEF LineTypes, Ids
  <1>5. OwnLine(line, e)
    BY <1>1, <1>2 DEF OwnLine
  <1>6. Len(log') \in Nat
    <2>1. log' \in Seq(LineTypes)
      BY <1>3, <1>4, HeldIsWritten, LineAppended
    <2> QED
      BY <2>1, LenProperties
  <1>7. e \in Events
    <2>1. kind # "none" /\ said.count \in Nat
      BY NothingElse DEF LogInv, FeedTyped, SaidTypes
    <2> QED
      BY <1>2, <1>6, <2>1 DEF Events, Posts, Ids
  <1>8. Grown(e)
    <2>1. IsEntry(e) => e.id # pending.id
      BY <1>2 DEF IsEntry
    <2> QED
      BY <1>3, <1>4, <1>5, <1>7, <2>1, GrownBy
  <1>9. Heard(t, e)
    <2>1. e.at = said.count + 1 /\ e.line = Len(log')
      BY <1>2
    <2> QED
      BY <2>1, <1>3, <1>6, <1>7 DEF Heard
  <1>10. pending'.id = pending.id /\ pending'.size = pending.size
    BY <1>3 DEF LogInv, FeedTyped
  <1> QED
    BY <1>2, <1>7, <1>8, <1>9, <1>10

\* What is persisted of a text.
LEMMA TextSaid ==
    ASSUME LogInv, NEW id \in Ids, NEW size \in Nat, PersistText("agent", id, size),
           mail["agent"].kind = "none", UNCHANGED <<view, phase, reply, queue, odd>>
    PROVE  \E e \in Events : /\ Heard("agent", e) /\ Grown(e)
                             /\ e.kind = "text" /\ e.id = id /\ e.size = size
                             /\ pending'.id = id /\ pending'.size = size
  <1>1. PICK line : line = [kind |-> "text", id |-> id, size |-> size]
    OBVIOUS
  <1>2. line \in LineTypes /\ id \in Nat /\ id # 0
    BY <1>1, NothingElse DEF LineTypes, Ids
  <1>3. /\ said.count \in Nat /\ "text" \in Kinds \ {"none"} /\ "agent" \in Threads
        /\ log \in Seq(LineTypes) /\ Len(log) \in Nat
    BY NothingElse, LenProperties DEF LogInv, FeedTyped, SaidTypes, Threads
  <1>4. ASSUME NEW s, NEW e, log' = Append(s, line),
               s = log \/ (s = FlushPending /\ id # pending.id),
               e = [kind |-> "text", id |-> id, size |-> size, line |-> Len(log'),
                    at |-> said.count + 1],
               mail' = [mail EXCEPT !["agent"] = e]
        PROVE  /\ Heard("agent", e) /\ Grown(e) /\ e \in Events
               /\ e.kind = "text" /\ e.id = id /\ e.size = size
    <2>1. Len(log') \in Nat
      <3>1. s \in Seq(LineTypes)
        BY <1>3, <1>4, HeldIsWritten
      <3>2. log' \in Seq(LineTypes)
        BY <1>2, <1>4, <3>1, LineAppended
      <3> QED
        BY <3>2, LenProperties
    <2>2. e \in Events
      BY <1>2, <1>3, <1>4, <2>1 DEF Events, Posts
    <2>3. OwnLine(line, e) /\ e.id = id
      BY <1>1, <1>4 DEF OwnLine
    <2>4. Grown(e)
      BY <1>2, <1>4, <2>2, <2>3, GrownBy
    <2>5. e.at = said.count + 1 /\ e.line = Len(log') /\ e.kind = "text" /\ e.size = size
      BY <1>4
    <2> QED
      BY <1>3, <1>4, <2>1, <2>2, <2>3, <2>4, <2>5 DEF Heard
  <1>5. CASE pending.id = id
    <2>1. CASE pending.persisted = 0 \/ size >= pending.persisted + Stride
      <3>1. PICK e : e = [kind |-> "text", id |-> id, size |-> size, line |-> Len(log'),
                          at |-> said.count + 1]
        OBVIOUS
      <3>2. /\ log' = Append(log, line)
            /\ pending' = [id |-> id, size |-> size, persisted |-> size]
            /\ mail' = [mail EXCEPT !["agent"] = e]
        BY <1>1, <1>5, <2>1, <3>1 DEF PersistText, Told
      <3> QED
        BY <1>4, <3>1, <3>2
    <2>2. CASE ~(pending.persisted = 0 \/ size >= pending.persisted + Stride)
      <3>1. PICK e : e = [kind |-> "text", id |-> id, size |-> size, line |-> 0,
                          at |-> said.count + 1]
        OBVIOUS
      <3>2. /\ log' = log
            /\ pending' = [id |-> id, size |-> size, persisted |-> pending.persisted]
            /\ mail' = [mail EXCEPT !["agent"] = e]
        BY <1>5, <2>2, <3>1 DEF PersistText, Told
      <3>3. e \in Events
        BY <1>2, <1>3, <3>1 DEF Events, Posts
      <3>4. e.kind = "text" /\ e.id = id /\ e.size = size /\ e.at = said.count + 1 /\ e.line = 0
        BY <3>1
      <3>5. Heard("agent", e)
        BY <1>3, <3>2, <3>3, <3>4 DEF Heard
      <3>6. Grown(e)
        <4>1. \A i \in (Len(log) + 1)..Len(log) : FALSE
          BY <1>3
        <4>2. \E i \in 1..Len(log) : TextOf(log[i], id)
          BY <1>5, <1>2 DEF LogInv, HeldBack, Longest
        <4> QED
          BY <1>3, <3>2, <3>4, <4>1, <4>2 DEF Grown
      <3> QED
        BY <3>2, <3>3, <3>4, <3>5, <3>6
    <2> QED
      BY <2>1, <2>2
  <1>6. CASE pending.id # id
    <2>1. PICK e : e = [kind |-> "text", id |-> id, size |-> size, line |-> Len(log'),
                        at |-> said.count + 1]
      OBVIOUS
    <2>2. /\ log' = Append(FlushPending, line)
          /\ pending' = [id |-> id, size |-> size, persisted |-> size]
          /\ mail' = [mail EXCEPT !["agent"] = e]
      BY <1>1, <1>6, <2>1 DEF PersistText, Told
    <2> QED
      BY <1>4, <1>6, <2>1, <2>2
  <1> QED
    BY <1>5, <1>6

LEMMA SayingIsTyped ==
    ASSUME LogInv, NEW t, MaySay(t)
    PROVE  /\ said.count \in Nat /\ said.count + 1 <= MaxEvents /\ NewId \in Ids
           /\ NewId = said.count + 1 /\ NewId \notin {pending.id}
           /\ mail[t].kind = "none" /\ said.entries[NewId] = 0
           /\ said.entries \in [Ids -> Nat] /\ said.asks \subseteq Ids
           /\ said = [entries |-> said.entries, asks |-> said.asks, count |-> said.count]
  <1>1. /\ said.count \in Nat /\ said.entries \in [Ids -> Nat] /\ said.asks \subseteq Ids
        /\ said = [entries |-> said.entries, asks |-> said.asks, count |-> said.count]
    BY DEF LogInv, FeedTyped, SaidTypes, EntryTypes, AskTypes
  <1>2. /\ said.count < MaxEvents /\ mail[t].kind = "none" /\ NewId = said.count + 1
        /\ MaxEvents \in Nat
    BY FeedAssumption DEF MaySay, NewId
  <1>3. NewId \in Ids /\ NewId > said.count /\ said.count + 1 <= MaxEvents
    BY <1>1, <1>2 DEF Ids
  <1>4. pending.id <= said.count /\ said.entries[NewId] = 0 /\ pending.id \in Nat
    BY <1>3 DEF LogInv, FeedTyped, NextIsNew
  <1>5. NewId \notin {pending.id}
    BY <1>1, <1>3, <1>4
  <1> QED
    BY <1>1, <1>2, <1>3, <1>4, <1>5

LEMMA SayEntrySays ==
    ASSUME LogInv, LogNumbers, NEW t \in Threads, NEW kind \in {"tool", "message"},
           SayEntry(t, kind)
    PROVE  \E e \in Events : Says(t, e)
  <1>1. /\ MaySay(t) /\ PersistWhole(t, kind, NewId)
        /\ said' = [said EXCEPT !.count = @ + 1, !.entries[NewId] = 1]
        /\ UNCHANGED <<view, phase, reply, queue, odd>>
    BY DEF SayEntry
  <1>2. /\ said.count \in Nat /\ said.count + 1 <= MaxEvents /\ NewId \in Ids
        /\ NewId = said.count + 1 /\ NewId \notin {pending.id}
        /\ mail[t].kind = "none" /\ said.entries[NewId] = 0
        /\ said.entries \in [Ids -> Nat] /\ said.asks \subseteq Ids
        /\ said = [entries |-> said.entries, asks |-> said.asks, count |-> said.count]
    BY <1>1, SayingIsTyped
  <1>3. kind \in Kinds \ {"text"} /\ kind \in EntryKinds /\ kind # "ask" /\ kind # "answer"
    BY NothingElse DEF EntryKinds
  <1>4. PICK e \in Events : /\ Heard(t, e) /\ Grown(e)
                            /\ e.kind = kind /\ e.id = NewId /\ e.size = 1
                            /\ pending'.id = pending.id /\ pending'.size = pending.size
    BY <1>1, <1>2, <1>3, WholeSaid
  <1>5. /\ said'.count = said.count + 1 /\ said'.asks = said.asks
        /\ said'.entries = [said.entries EXCEPT ![NewId] = 1]
    BY <1>1, <1>2
  <1>6. /\ \A id \in Ids : said'.entries[id] = said.entries[id] \/ e.id = id
        /\ said'.entries[e.id] = 1
    BY <1>2, <1>4, <1>5
  <1>7. Spoken(t, e)
    BY <1>2, <1>3, <1>4, <1>5, <1>6 DEF Spoken, IsEntry
  <1> QED
    BY <1>4, <1>7 DEF Says

LEMMA SayModelSays ==
    ASSUME LogInv, LogNumbers, SayModel
    PROVE  \E e \in Events : Says("agent", e)
  <1>1. /\ MaySay("agent") /\ PersistWhole("agent", "model", NewId)
        /\ said' = [said EXCEPT !.count = @ + 1]
        /\ UNCHANGED <<view, phase, reply, queue, odd>>
    BY DEF SayModel
  <1>2. /\ said.count \in Nat /\ said.count + 1 <= MaxEvents /\ NewId \in Ids
        /\ NewId = said.count + 1 /\ NewId \notin {pending.id}
        /\ mail["agent"].kind = "none"
        /\ said = [entries |-> said.entries, asks |-> said.asks, count |-> said.count]
    BY <1>1, SayingIsTyped
  <1>3. "model" \in Kinds \ {"text"} /\ "model" \notin EntryKinds /\ "agent" \in Threads
    BY NothingElse DEF EntryKinds, Threads
  <1>4. PICK e \in Events : /\ Heard("agent", e) /\ Grown(e)
                            /\ e.kind = "model" /\ e.id = NewId /\ e.size = 1
                            /\ pending'.id = pending.id /\ pending'.size = pending.size
    BY <1>1, <1>2, <1>3, WholeSaid
  <1>5. /\ said'.count = said.count + 1 /\ said'.asks = said.asks /\ said'.entries = said.entries
    BY <1>1, <1>2
  <1>6. Spoken("agent", e)
    BY <1>2, <1>3, <1>4, <1>5 DEF Spoken, IsEntry
  <1> QED
    BY <1>4, <1>6 DEF Says

LEMMA AskSays ==
    ASSUME LogInv, LogNumbers, Ask
    PROVE  \E e \in Events : Says("agent", e)
  <1>1. /\ MaySay("agent") /\ PersistWhole("agent", "ask", NewId)
        /\ said' = [said EXCEPT !.count = @ + 1, !.asks = @ \cup {NewId}]
        /\ UNCHANGED <<view, phase, reply, queue, odd>>
    BY DEF Ask
  <1>2. /\ said.count \in Nat /\ said.count + 1 <= MaxEvents /\ NewId \in Ids
        /\ NewId = said.count + 1 /\ NewId \notin {pending.id}
        /\ mail["agent"].kind = "none"
        /\ said = [entries |-> said.entries, asks |-> said.asks, count |-> said.count]
    BY <1>1, SayingIsTyped
  <1>3. "ask" \in Kinds \ {"text"} /\ "ask" \notin EntryKinds /\ "agent" \in Threads
    BY NothingElse DEF EntryKinds, Threads
  <1>4. PICK e \in Events : /\ Heard("agent", e) /\ Grown(e)
                            /\ e.kind = "ask" /\ e.id = NewId /\ e.size = 1
                            /\ pending'.id = pending.id /\ pending'.size = pending.size
    BY <1>1, <1>2, <1>3, WholeSaid
  <1>5. /\ said'.count = said.count + 1 /\ said'.asks = said.asks \cup {NewId}
        /\ said'.entries = said.entries
    BY <1>1, <1>2
  <1>6. Spoken("agent", e)
    BY <1>2, <1>3, <1>4, <1>5 DEF Spoken, IsEntry
  <1> QED
    BY <1>4, <1>6 DEF Says

LEMMA AnswerSays ==
    ASSUME LogInv, LogNumbers, NEW id \in Ids, Answer(id), \A a \in said.asks : a <= said.count
    PROVE  \E e \in Events : Says("user", e)
  <1>1. /\ MaySay("user") /\ PersistWhole("user", "answer", id) /\ id \in said.asks
        /\ said' = [said EXCEPT !.count = @ + 1, !.asks = @ \ {id}]
        /\ UNCHANGED <<view, phase, reply, queue, odd>>
    BY DEF Answer
  <1>2. /\ said.count \in Nat /\ said.count + 1 <= MaxEvents
        /\ mail["user"].kind = "none"
        /\ said = [entries |-> said.entries, asks |-> said.asks, count |-> said.count]
    BY <1>1, SayingIsTyped
  <1>3. "answer" \in Kinds \ {"text"} /\ "answer" \notin EntryKinds /\ "user" \in Threads
    BY NothingElse DEF EntryKinds, Threads
  <1>4. PICK e \in Events : /\ Heard("user", e) /\ Grown(e)
                            /\ e.kind = "answer" /\ e.id = id /\ e.size = 1
                            /\ pending'.id = pending.id /\ pending'.size = pending.size
    BY <1>1, <1>2, <1>3, WholeSaid
  <1>5. /\ said'.count = said.count + 1 /\ said'.asks = said.asks \ {id}
        /\ said'.entries = said.entries
    BY <1>1, <1>2
  <1>6. id <= said'.count
    BY <1>1, <1>2, <1>5 DEF Ids
  <1>7. Spoken("user", e)
    BY <1>2, <1>3, <1>4, <1>5, <1>6 DEF Spoken, IsEntry
  <1> QED
    BY <1>4, <1>7 DEF Says

LEMMA SayTextSays ==
    ASSUME LogInv, LogNumbers, NEW id \in Ids, SayText(id)
    PROVE  \E e \in Events : Says("agent", e)
  <1>1. /\ MaySay("agent") /\ PersistText("agent", id, said.entries[id] + 1)
        /\ id \in {NewId, pending.id} \ {0}
        /\ said' = [said EXCEPT !.count = @ + 1, !.entries[id] = @ + 1]
        /\ UNCHANGED <<view, phase, reply, queue, odd>>
    BY DEF SayText
  <1>2. /\ said.count \in Nat /\ said.count + 1 <= MaxEvents
        /\ NewId = said.count + 1
        /\ mail["agent"].kind = "none" /\ said.entries \in [Ids -> Nat]
        /\ said = [entries |-> said.entries, asks |-> said.asks, count |-> said.count]
    BY <1>1, SayingIsTyped
  <1>3. PICK size \in Nat : size = said.entries[id] + 1
    BY <1>2
  <1>4. PICK e \in Events : /\ Heard("agent", e) /\ Grown(e)
                            /\ e.kind = "text" /\ e.id = id /\ e.size = size
                            /\ pending'.id = id /\ pending'.size = size
    BY <1>1, <1>2, <1>3, TextSaid
  <1>5. /\ said'.count = said.count + 1 /\ said'.asks = said.asks
        /\ said'.entries = [said.entries EXCEPT ![id] = size]
    BY <1>1, <1>2, <1>3
  <1>6. /\ \A i \in Ids : said'.entries[i] = said.entries[i] \/ e.id = i
        /\ said'.entries[e.id] = size
    BY <1>2, <1>4, <1>5
  <1>7. said.entries[id] \in Nat /\ said.entries[id] <= said.count
    BY <1>2 DEF LogNumbers
  <1>8. said.entries[id] <= size /\ size <= said.count + 1
    BY <1>2, <1>3, <1>7
  <1>9. pending.id <= said.count /\ pending.id \in Nat
    BY DEF LogInv, FeedTyped, NextIsNew
  <1>10. id <= said.count + 1 /\ (id = said.count + 1 \/ id = pending.id)
    BY <1>1, <1>2, <1>9
  <1>11. "text" \in EntryKinds /\ "text" # "ask" /\ "text" # "answer"
    BY DEF EntryKinds
  <1>12. Spoken("agent", e)
    BY <1>2, <1>4, <1>5, <1>6, <1>8, <1>10, <1>11 DEF Spoken, IsEntry
  <1> QED
    BY <1>4, <1>12 DEF Says

\* A line of a kind about an id.
InLog(kind, id) == \E i \in 1..Len(log) : log[i].kind = kind /\ log[i].id = id

LEMMA AsksAre ==
    ASSUME NEW lines, NEW id
    PROVE  id \in AsksIn(lines) <=>
              /\ \E i \in lines : log[i].kind = "ask" /\ log[i].id = id
              /\ ~ \E i \in lines : log[i].kind = "answer" /\ log[i].id = id
  BY DEF AsksIn

LEMMA EventSaid ==
    ASSUME LogInv, SayInv,
           \/ \E t \in Threads : \E kind \in {"tool", "message"} : SayEntry(t, kind)
           \/ SayModel
           \/ \E id \in Ids : SayText(id) \/ Answer(id)
           \/ Ask
    PROVE  \E t \in Threads : \E e \in Events : Says(t, e)
  <1>1. LogNumbers
    BY DEF SayInv
  <1>2. \A a \in said.asks : a <= said.count
    <2> SUFFICES ASSUME NEW a \in said.asks
                 PROVE  a <= said.count
      OBVIOUS
    <2>1. PICK i \in 1..Len(log) : log[i].id = a
      BY AsksAre DEF SayInv, AsksLogged
    <2>2. said.count \in Nat
      BY DEF LogInv, FeedTyped, SaidTypes
    <2> QED
      BY <1>1, <2>1, <2>2 DEF LogNumbers
  <1>3. "agent" \in Threads /\ "user" \in Threads
    BY DEF Threads
  <1>4. CASE \E t \in Threads : \E kind \in {"tool", "message"} : SayEntry(t, kind)
    BY <1>1, <1>4, SayEntrySays
  <1>5. CASE SayModel
    BY <1>1, <1>3, <1>5, SayModelSays
  <1>6. CASE Ask
    BY <1>1, <1>3, <1>6, AskSays
  <1>7. CASE \E id \in Ids : SayText(id)
    BY <1>1, <1>3, <1>7, SayTextSays
  <1>8. CASE \E id \in Ids : Answer(id)
    BY <1>1, <1>2, <1>3, <1>8, AnswerSays
  <1> QED
    BY <1>4, <1>5, <1>6, <1>7, <1>8

\* The new lines, and what was there before.
LEMMA NewLines ==
    ASSUME LogInv, NEW t, NEW e \in Events, Says(t, e)
    PROVE  /\ Len(log) \in Nat /\ Len(log') \in Nat /\ Len(log) <= Len(log')
           /\ 1..Len(log') = 1..Len(log) \cup (Len(log) + 1)..Len(log')
           /\ \A i \in 1..Len(log) : log'[i] = log[i]
           /\ \A i \in (Len(log) + 1)..Len(log') :
                OwnLine(log'[i], e) \/ (HeldLine(log'[i]) /\ (IsEntry(e) => e.id # pending.id))
           /\ \A i \in (Len(log) + 1)..Len(log') :
                IsEntry(log'[i]) => log'[i].size = said'.entries[log'[i].id]
           /\ \A i \in (Len(log) + 1)..Len(log') : log'[i].id \in 1..said'.count
           /\ \A id \in Ids : said.entries[id] \in Nat /\ said.entries[id] <= said'.entries[id]
  <1>1. /\ said.count \in Nat /\ said.entries \in [Ids -> Nat] /\ Len(log) \in Nat
        /\ \A id \in Ids : id \in Nat /\ 1 <= id
        /\ pending.id <= said.count
    BY LenProperties, FeedAssumption DEF LogInv, NextIsNew, FeedTyped, SaidTypes, EntryTypes, Ids
  <1>2. /\ Len(log') \in Nat /\ Len(log) <= Len(log')
        /\ \A i \in 1..Len(log) : log'[i] = log[i]
        /\ \A i \in (Len(log) + 1)..Len(log') :
             OwnLine(log'[i], e) \/ (HeldLine(log'[i]) /\ (IsEntry(e) => e.id # pending.id))
    BY DEF Says, Grown
  <1>3. e.id \in Ids /\ e.size \in Nat
    BY DEF Events, Posts
  <1>4. /\ said'.count = said.count + 1 /\ e.id <= said'.count
        /\ \A id \in Ids : said'.entries[id] = said.entries[id] \/ (IsEntry(e) /\ e.id = id)
        /\ IsEntry(e) => e.size = said'.entries[e.id] /\ said.entries[e.id] <= e.size
    BY DEF Says, Spoken
  <1>5. 1..Len(log') = 1..Len(log) \cup (Len(log) + 1)..Len(log')
    BY <1>1, <1>2
  <1>6. ASSUME NEW i \in (Len(log) + 1)..Len(log')
        PROVE  /\ IsEntry(log'[i]) => log'[i].size = said'.entries[log'[i].id]
               /\ log'[i].id \in 1..said'.count
    <2>1. CASE OwnLine(log'[i], e)
      <3>1. log'[i].kind = e.kind /\ log'[i].id = e.id /\ log'[i].size = e.size
        BY <2>1 DEF OwnLine
      <3> QED
        BY <3>1, <1>1, <1>3, <1>4 DEF IsEntry
    <2>2. CASE HeldLine(log'[i]) /\ (IsEntry(e) => e.id # pending.id)
      <3>1. /\ log'[i].id = pending.id /\ log'[i].size = pending.size
            /\ pending.id \in Ids /\ said.entries[pending.id] = pending.size
        BY <2>2 DEF HeldLine
      <3>2. said'.entries[pending.id] = said.entries[pending.id]
        BY <1>4, <2>2, <3>1
      <3> QED
        BY <3>1, <3>2, <1>1, <1>4
    <2> QED
      BY <1>2, <2>1, <2>2
  <1>7. ASSUME NEW id \in Ids
        PROVE  said.entries[id] \in Nat /\ said.entries[id] <= said'.entries[id]
    BY <1>1, <1>4
  <1> QED
    BY <1>1, <1>2, <1>5, <1>6, <1>7

LEMMA SaysKeepsSay ==
    ASSUME LogInv, SayInv, NEW t, NEW e \in Events, Says(t, e)
    PROVE  SayInv'
  <1>1. /\ Len(log) \in Nat /\ Len(log') \in Nat /\ Len(log) <= Len(log')
        /\ 1..Len(log') = 1..Len(log) \cup (Len(log) + 1)..Len(log')
        /\ \A i \in 1..Len(log) : log'[i] = log[i]
        /\ \A i \in (Len(log) + 1)..Len(log') :
             OwnLine(log'[i], e) \/ (HeldLine(log'[i]) /\ (IsEntry(e) => e.id # pending.id))
        /\ \A i \in (Len(log) + 1)..Len(log') :
             IsEntry(log'[i]) => log'[i].size = said'.entries[log'[i].id]
        /\ \A i \in (Len(log) + 1)..Len(log') : log'[i].id \in 1..said'.count
        /\ \A id \in Ids : said.entries[id] \in Nat /\ said.entries[id] <= said'.entries[id]
    BY NewLines
  <1>2. said.count \in Nat /\ said'.count = said.count + 1 /\ said'.count <= MaxEvents
    BY DEF LogInv, FeedTyped, SaidTypes, Says, Spoken
  <1>3. /\ e.id <= said'.count
        /\ \A id \in Ids : said'.entries[id] = said.entries[id] \/ (IsEntry(e) /\ e.id = id)
        /\ IsEntry(e) => e.size = said'.entries[e.id] /\ e.size <= said'.count
    BY DEF Says, Spoken
  <1>4. e.id \in Ids /\ e.id \in Nat
    BY DEF Events, Posts
  <1>5. LogNumbers'
    <2>1. \A id \in Ids : said'.entries[id] <= said'.count
      <3> SUFFICES ASSUME NEW id \in Ids
                   PROVE  said'.entries[id] <= said'.count
        OBVIOUS
      <3>1. said.entries[id] <= said.count /\ said.entries[id] \in Nat
        BY <1>1 DEF SayInv, LogNumbers
      <3> QED
        BY <3>1, <1>2, <1>3
    <2>2. \A i \in 1..Len(log) : log'[i].id \in 1..said'.count
      <3> SUFFICES ASSUME NEW i \in 1..Len(log)
                   PROVE  log'[i].id \in 1..said'.count
        OBVIOUS
      <3>1. log[i].id \in 1..said.count /\ log'[i] = log[i]
        BY <1>1 DEF SayInv, LogNumbers
      <3> QED
        BY <3>1, <1>2
    <2>3. \A i \in 1..Len(log') : log'[i].id \in 1..said'.count
      BY <1>1, <2>2
    <2> QED
      BY <1>2, <2>1, <2>3 DEF LogNumbers
  <1>6. LogSizes'
    <2>1. ASSUME NEW i \in 1..Len(log), IsEntry(log'[i])
          PROVE  /\ log'[i].size <= said.entries[log'[i].id]
                 /\ log'[i].size <= said'.entries[log'[i].id]
                 /\ log'[i].size \in Nat /\ log'[i].id \in Ids
      <3>1. log'[i] = log[i] /\ log[i].size <= said.entries[log[i].id] /\ log[i].id \in 1..said.count
        BY <1>1, <2>1 DEF SayInv, LogSizes, LogNumbers
      <3>2. log[i].id \in Ids
        BY <3>1, <1>2, FeedAssumption DEF Ids
      <3>3. log[i].size \in Nat
        <4>1. log[i] \in LineTypes
          BY <1>1, ElementOfSeq DEF LogInv, FeedTyped
        <4> QED
          BY <4>1 DEF LineTypes
      <3>4. said.entries[log[i].id] \in Nat /\ said.entries[log[i].id] <= said'.entries[log[i].id]
        BY <1>1, <3>2
      <3>5. said'.entries[log[i].id] \in Nat
        BY <3>2, <1>1, <1>3, <3>4 DEF Events, Posts
      <3> QED
        BY <3>1, <3>2, <3>3, <3>4, <3>5
    <2>2. \A i \in 1..Len(log') : IsEntry(log'[i]) => log'[i].size <= said'.entries[log'[i].id]
      <3> SUFFICES ASSUME NEW i \in 1..Len(log'), IsEntry(log'[i])
                   PROVE  log'[i].size <= said'.entries[log'[i].id]
        OBVIOUS
      <3>1. CASE i \in 1..Len(log)
        BY <3>1, <2>1
      <3>2. CASE i \in (Len(log) + 1)..Len(log')
        <4>1. log'[i].size = said'.entries[log'[i].id] /\ log'[i].id \in 1..said'.count
          BY <3>2, <1>1
        <4>2. log'[i].id \in Ids
          BY <4>1, <1>2, FeedAssumption DEF Ids
        <4>3. said'.entries[log'[i].id] \in Nat
          BY <4>2, <1>1, <1>3 DEF Events, Posts
        <4> QED
          BY <4>1, <4>3
      <3> QED
        BY <1>1, <3>1, <3>2
    <2>3. ASSUME NEW i \in 1..Len(log'), NEW j \in 1..Len(log'), IsEntry(log'[i]), IsEntry(log'[j]),
                 i < j, log'[i].id = log'[j].id
          PROVE  log'[i].size <= log'[j].size
      <3>1. CASE j \in (Len(log) + 1)..Len(log')
        <4>1. log'[j].size = said'.entries[log'[j].id]
          BY <3>1, <2>3, <1>1
        <4>2. log'[i].size <= said'.entries[log'[i].id]
          BY <2>2, <2>3
        <4> QED
          BY <4>1, <4>2, <2>3
      <3>2. CASE j \in 1..Len(log)
        <4>1. i \in 1..Len(log)
          BY <3>2, <2>3, <1>1
        <4>2. log'[i] = log[i] /\ log'[j] = log[j]
          BY <4>1, <3>2, <1>1
        <4> QED
          BY <4>1, <4>2, <3>2, <2>3 DEF SayInv, LogSizes
      <3> QED
        BY <1>1, <3>1, <3>2
    <2> QED
      BY <2>2, <2>3 DEF LogSizes
  <1>7. Logged'
    <2> SUFFICES ASSUME NEW id \in Ids, said'.entries[id] # 0
                 PROVE  \E i \in 1..Len(log') : /\ IsEntry(log'[i]) /\ log'[i].id = id
                                                /\ log'[i].kind = "text" \/ log'[i].size = said'.entries[id]
      BY DEF Logged
    <2>1. CASE IsEntry(e) /\ e.id = id
      <3>1. CASE e.kind = "text"
        <4>1. PICK i \in 1..Len(log') : TextOf(log'[i], e.id)
          BY <3>1 DEF Says, Grown
        <4>2. log'[i].kind = "text" /\ log'[i].id = id /\ IsEntry(log'[i])
          BY <4>1, <2>1 DEF TextOf, IsEntry, EntryKinds
        <4> QED
          BY <4>2
      <3>2. CASE e.kind # "text"
        <4>1. PICK i \in (Len(log) + 1)..Len(log') : OwnLine(log'[i], e)
          BY <3>2 DEF Says, Grown
        <4>2. i \in 1..Len(log') /\ IsEntry(log'[i]) /\ log'[i].id = id /\ log'[i].size = said'.entries[id]
          BY <4>1, <2>1, <1>1, <1>3 DEF OwnLine, IsEntry
        <4> QED
          BY <4>2
      <3> QED
        BY <3>1, <3>2
    <2>2. CASE ~(IsEntry(e) /\ e.id = id)
      <3>1. said'.entries[id] = said.entries[id]
        BY <2>2, <1>3
      <3>2. PICK i \in 1..Len(log) : /\ IsEntry(log[i]) /\ log[i].id = id
                                     /\ log[i].kind = "text" \/ log[i].size = said.entries[id]
        BY <3>1 DEF SayInv, Logged
      <3>3. log'[i] = log[i] /\ i \in 1..Len(log')
        BY <1>1
      <3> QED
        BY <3>1, <3>2, <3>3
    <2> QED
      BY <2>1, <2>2
  <1>8. AsksLogged'
    <2>1. ASSUME NEW kind \in {"ask", "answer"}, NEW id
          PROVE  InLog(kind, id)' <=> InLog(kind, id) \/ (e.kind = kind /\ e.id = id)
      <3>1. ASSUME InLog(kind, id)'
            PROVE  InLog(kind, id) \/ (e.kind = kind /\ e.id = id)
        <4>1. PICK i \in 1..Len(log') : log'[i].kind = kind /\ log'[i].id = id
          BY <3>1 DEF InLog
        <4>2. CASE i \in 1..Len(log)
          BY <4>1, <4>2, <1>1 DEF InLog
        <4>3. CASE i \in (Len(log) + 1)..Len(log')
          <5>1. log'[i].kind # "text"
            BY <4>1
          <5>2. OwnLine(log'[i], e)
            BY <4>3, <5>1, <1>1 DEF HeldLine
          <5> QED
            BY <4>1, <5>2 DEF OwnLine
        <4> QED
          BY <1>1, <4>2, <4>3
      <3>2. ASSUME InLog(kind, id)
            PROVE  InLog(kind, id)'
        <4>1. PICK i \in 1..Len(log) : log[i].kind = kind /\ log[i].id = id
          BY <3>2 DEF InLog
        <4>2. log'[i] = log[i] /\ i \in 1..Len(log')
          BY <1>1
        <4> QED
          BY <4>1, <4>2 DEF InLog
      <3>3. ASSUME e.kind = kind, e.id = id
            PROVE  InLog(kind, id)'
        <4>1. e.kind # "text"
          BY <3>3
        <4>2. PICK i \in (Len(log) + 1)..Len(log') : OwnLine(log'[i], e)
          BY <4>1 DEF Says, Grown
        <4>3. i \in 1..Len(log')
          BY <1>1
        <4> QED
          BY <3>3, <4>2, <4>3 DEF InLog, OwnLine
      <3> QED
        BY <3>1, <3>2, <3>3
    <2>2. \A id : id \in said.asks <=> InLog("ask", id) /\ ~InLog("answer", id)
      BY AsksAre DEF SayInv, AsksLogged, InLog
    <2>3. said'.asks = IF e.kind = "ask" THEN said.asks \cup {e.id}
                       ELSE IF e.kind = "answer" THEN said.asks \ {e.id} ELSE said.asks
      BY DEF Says, Spoken
    <2>4. e.kind = "ask" => ~InLog("answer", e.id)
      <3> SUFFICES ASSUME e.kind = "ask", InLog("answer", e.id)
                   PROVE  FALSE
        OBVIOUS
      <3>1. PICK i \in 1..Len(log) : log[i].id = e.id
        BY DEF InLog
      <3>2. log[i].id \in 1..said.count /\ e.id = said.count + 1
        BY <1>2 DEF SayInv, LogNumbers, Says, Spoken
      <3> QED
        BY <3>1, <3>2, <1>2
    <2>5. \A id : id \in said'.asks <=> InLog("ask", id)' /\ ~InLog("answer", id)'
      <3> SUFFICES ASSUME NEW id
                   PROVE  id \in said'.asks <=> InLog("ask", id)' /\ ~InLog("answer", id)'
        OBVIOUS
      <3>1. InLog("ask", id)' <=> InLog("ask", id) \/ (e.kind = "ask" /\ e.id = id)
        BY <2>1
      <3>2. InLog("answer", id)' <=> InLog("answer", id) \/ (e.kind = "answer" /\ e.id = id)
        BY <2>1
      <3> QED
        BY <3>1, <3>2, <2>2, <2>3, <2>4
    <2>6. \A id : id \in AsksIn(1..Len(log))' <=> InLog("ask", id)' /\ ~InLog("answer", id)'
      BY DEF AsksIn, InLog
    <2> QED
      BY <2>5, <2>6 DEF AsksLogged
  <1> QED
    BY <1>5, <1>6, <1>7, <1>8 DEF SayInv

LEMMA SilentKeepsSay ==
    ASSUME SayInv, UNCHANGED <<log, said>>
    PROVE  SayInv'
  <1>1. LogNumbers' /\ LogSizes' /\ Logged'
    BY DEF SayInv, LogNumbers, LogSizes, Logged
  <1>2. AsksLogged'
    BY DEF SayInv, AsksLogged, AsksIn
  <1> QED
    BY <1>1, <1>2 DEF SayInv

(***************************************************************************)
(* What is on its way.                                                     *)
(***************************************************************************)
LEMMA OnWayIs ==
    ASSUME WayTyped
    PROVE  /\ \A t \in Threads : mail[t].kind # "none" => mail[t] \in Events /\ mail[t] \in OnWay
           /\ \A t \in Threads : mail[t] \in Events => mail[t].kind # "none"
           /\ \A t \in Threads : IsEntry(mail[t]) => mail[t].kind # "none"
           /\ Len(queue) \in Nat /\ \A p \in 1..Len(queue) : queue[p] \in Events /\ queue[p] \in OnWay
           /\ NoMail \notin Events /\ NoMail.kind = "none" /\ ~IsEntry(NoMail)
           /\ \A e \in Events : /\ e.kind # "none" /\ e.kind \in Kinds /\ e.id \in Ids /\ e.id \in Nat
                                /\ e.size \in Nat /\ e.line \in Nat /\ e.at \in Nat
  <1>1. mail \in [Threads -> Held] /\ queue \in Seq(Events)
    BY DEF WayTyped
  <1>2. NoMail.kind = "none"
    BY DEF NoMail
  <1>3. \A e \in Events : /\ e.kind # "none" /\ e.kind \in Kinds /\ e.id \in Ids /\ e.id \in Nat
                          /\ e.size \in Nat /\ e.line \in Nat /\ e.at \in Nat
    BY DEF Events, Posts
  <1>4. NoMail \notin Events
    BY <1>2, <1>3
  <1>5. \A t \in Threads : mail[t] \in Events \/ mail[t] = NoMail
    BY <1>1 DEF Held
  <1>6. \A t \in Threads : mail[t].kind # "none" => mail[t] \in Events /\ mail[t] \in OnWay
    BY <1>2, <1>5 DEF OnWay
  <1>7. Len(queue) \in Nat /\ \A p \in 1..Len(queue) : queue[p] \in Events
    BY <1>1, LenProperties, ElementOfSeq
  <1>8. \A p \in 1..Len(queue) : queue[p] \in OnWay
    BY <1>7 DEF OnWay
  <1>9. "none" \notin EntryKinds
    BY DEF EntryKinds
  <1> QED
    BY <1>2, <1>3, <1>4, <1>6, <1>7, <1>8, <1>9 DEF IsEntry

\* What is said is on its way, with the number after all others.
LEMMA WaySaid ==
    ASSUME LogInv, WayTyped, WayNumbers, NEW t, NEW e \in Events, Says(t, e)
    PROVE  /\ OnWay' = OnWay \cup {e}
           /\ \A f \in OnWay : f \in Events /\ f.at \in Nat /\ f.at < e.at /\ f.at <= said.count
           /\ said.count \in Nat /\ e.at = said.count + 1 /\ said'.count = said.count + 1
           /\ t \in Threads /\ mail'[t] = e /\ \A u \in Threads \ {t} : mail'[u] = mail[u]
           /\ mail' \in [Threads -> Held]
           /\ Len(log) \in Nat /\ Len(log') \in Nat /\ Len(log) <= Len(log')
  <1>1. /\ mail \in [Threads -> Held] /\ t \in Threads /\ mail' = [mail EXCEPT ![t] = e]
        /\ mail[t].kind = "none" /\ queue' = queue /\ e.at = said.count + 1
        /\ said'.count = said.count + 1
    BY DEF WayTyped, Says, Heard, Spoken
  <1>2. said.count \in Nat
    BY DEF LogInv, FeedTyped, SaidTypes
  <1>3. \A f \in OnWay : f \in Events /\ f.at \in 1..said.count
    BY DEF OnWay, WayNumbers
  <1>4. mail'[t] = e /\ \A u \in Threads \ {t} : mail'[u] = mail[u]
    BY <1>1
  <1>5. mail' \in [Threads -> Held]
    BY <1>1 DEF Held
  <1>6. mail[t] \notin Events
    BY <1>1, OnWayIs
  <1>7. OnWay' = OnWay \cup {e}
    <2>1. \A f : f \in OnWay' => f \in OnWay \cup {e}
      BY <1>1, <1>4 DEF OnWay
    <2>2. \A f : f \in OnWay => f \in OnWay'
      BY <1>1, <1>4, <1>6 DEF OnWay
    <2>3. e \in OnWay'
      BY <1>1, <1>4 DEF OnWay
    <2> QED
      BY <2>1, <2>2, <2>3
  <1> QED
    BY <1>1, <1>2, <1>3, <1>4, <1>5, <1>7, NewLines

LEMMA SaysKeepsWay ==
    ASSUME LogInv, SayInv, WayInv, NEW t, NEW e \in Events, Says(t, e)
    PROVE  WayInv'
  <1>0. WayTyped /\ WayNumbers
    BY DEF WayInv
  <1>1. /\ OnWay' = OnWay \cup {e}
        /\ \A f \in OnWay : f \in Events /\ f.at \in Nat /\ f.at < e.at /\ f.at <= said.count
        /\ said.count \in Nat /\ e.at = said.count + 1 /\ said'.count = said.count + 1
        /\ t \in Threads /\ mail'[t] = e /\ \A u \in Threads \ {t} : mail'[u] = mail[u]
        /\ mail' \in [Threads -> Held]
        /\ Len(log) \in Nat /\ Len(log') \in Nat /\ Len(log) <= Len(log')
    BY <1>0, WaySaid
  <1>2. UNCHANGED <<view, phase, reply, queue, odd>>
    BY DEF Says, Heard
  <1>3. \A id \in Ids : said.entries[id] \in Nat /\ said.entries[id] <= said'.entries[id]
    BY NewLines
  <1>4. /\ e.id <= said'.count /\ e.line <= Len(log')
        /\ \A id \in Ids : said'.entries[id] = said.entries[id] \/ (IsEntry(e) /\ e.id = id)
        /\ IsEntry(e) => /\ e.size = said'.entries[e.id]
                         /\ e.id = said'.count \/ (e.id = pending.id /\ t = "agent")
        /\ e.kind = "ask" => e.id = said'.count
        /\ said'.asks = IF e.kind = "ask" THEN said.asks \cup {e.id}
                        ELSE IF e.kind = "answer" THEN said.asks \ {e.id} ELSE said.asks
        /\ \/ pending'.id = pending.id
           \/ e.kind = "text" /\ t = "agent" /\ pending'.id = e.id
    BY DEF Says, Heard, Spoken
  <1>5. /\ \A u \in Threads : mail[u].kind # "none" => mail[u] \in Events /\ mail[u] \in OnWay
        /\ \A u \in Threads : IsEntry(mail[u]) => mail[u].kind # "none"
        /\ Len(queue) \in Nat /\ \A p \in 1..Len(queue) : queue[p] \in Events /\ queue[p] \in OnWay
        /\ \A f \in Events : f.id \in Ids /\ f.id \in Nat /\ f.line \in Nat
    BY <1>0, OnWayIs
  <1>6. \A f \in OnWay : f.at \in 1..said.count /\ f.id <= said.count /\ f.line <= Len(log)
    BY <1>0 DEF WayNumbers
  <1>7. pending.id \in Nat /\ pending.id <= said.count
    BY DEF LogInv, FeedTyped, NextIsNew
  <1>8. WayTyped'
    BY <1>0, <1>1, <1>2 DEF WayTyped
  <1>9. WayNumbers'
    <2>1. ASSUME NEW f \in OnWay'
          PROVE  f.at \in 1..said'.count /\ f.id <= said'.count /\ f.line <= Len(log')
      <3>1. CASE f = e
        BY <3>1, <1>1, <1>4
      <3>2. CASE f \in OnWay
        <4>1. f.at \in 1..said.count /\ f.id <= said.count /\ f.line <= Len(log)
          BY <3>2, <1>6
        <4>2. f.id \in Nat /\ f.line \in Nat
          BY <3>2, <1>1, <1>5
        <4> QED
          BY <4>1, <4>2, <1>1
      <3> QED
        BY <1>1, <3>1, <3>2
    <2>2. ASSUME NEW u \in Threads, NEW w \in Threads, u # w, mail'[u].kind # "none", mail'[w].kind # "none"
          PROVE  mail'[u].at # mail'[w].at
      <3>1. \A x \in Threads \ {t} : mail'[x].kind # "none" => mail'[x] \in OnWay /\ mail'[x].at < e.at /\ mail'[x].at \in Nat
        BY <1>1, <1>5
      <3>2. CASE u = t
        BY <3>1, <3>2, <2>2, <1>1
      <3>3. CASE w = t
        BY <3>1, <3>3, <2>2, <1>1
      <3>4. CASE u # t /\ w # t
        BY <3>4, <2>2, <1>0, <1>1 DEF WayNumbers
      <3> QED
        BY <3>2, <3>3, <3>4
    <2>3. /\ reply'.at <= said'.count /\ reply'.upto <= Len(log') /\ view'.cursor <= Len(log')
          /\ phase' # "live" => queue' = <<>>
          /\ phase' = "live" => reply'.at = 0
      <3>1. /\ reply.at \in Nat /\ reply.upto \in Nat /\ view.cursor \in Nat
            /\ reply.at <= said.count /\ reply.upto <= Len(log) /\ view.cursor <= Len(log)
        BY <1>0 DEF WayTyped, WayNumbers, Views
      <3>2. /\ phase # "live" => queue = <<>>
            /\ phase = "live" => reply.at = 0
        BY <1>0 DEF WayNumbers
      <3>3. reply.at <= said'.count /\ reply.upto <= Len(log') /\ view.cursor <= Len(log')
        BY <3>1, <1>1
      <3> QED
        BY <3>2, <3>3, <1>2
    <2> QED
      BY <2>1, <2>2, <2>3 DEF WayNumbers
  <1>10. MailSize'
    <2>1. ASSUME NEW u \in Threads, IsEntry(mail'[u])
          PROVE  mail'[u].size = said'.entries[mail'[u].id]
      <3>1. CASE u = t
        BY <3>1, <2>1, <1>1, <1>4
      <3>2. CASE u # t
        <4>1. mail'[u] = mail[u]
          BY <1>1, <3>2
        <4>2. IsEntry(mail[u]) /\ mail[u].size = said.entries[mail[u].id] /\ mail[u] \in OnWay
          BY <4>1, <2>1, <1>5 DEF WayInv, MailSize
        <4>3. mail[u].id <= said.count /\ mail[u].id \in Ids /\ mail[u].id \in Nat
          BY <4>2, <1>1, <1>5, <1>6
        <4>4. ~(IsEntry(e) /\ e.id = mail[u].id)
          <5> SUFFICES ASSUME IsEntry(e), e.id = mail[u].id
                       PROVE  FALSE
            OBVIOUS
          <5>1. e.id # said'.count
            BY <1>1, <4>3
          <5>2. e.id = pending.id /\ t = "agent"
            BY <5>1, <1>4
          <5>3. u = "user"
            BY <5>2, <3>2 DEF Threads
          <5> QED
            BY <5>2, <5>3, <4>2 DEF WayInv, MailSize
        <4>5. said'.entries[mail[u].id] = said.entries[mail[u].id]
          BY <4>3, <4>4, <1>4
        <4> QED
          BY <4>1, <4>2, <4>5
      <3> QED
        BY <3>1, <3>2
    <2>2. ASSUME IsEntry(mail'["user"])
          PROVE  mail'["user"].id # pending'.id
      <3>1. "user" \in Threads
        BY DEF Threads
      <3>2. CASE t = "user"
        <4>1. mail'["user"] = e /\ pending'.id = pending.id /\ e.id = said'.count
          BY <3>2, <1>1, <1>4, <2>2
        <4> QED
          BY <4>1, <1>1, <1>7
      <3>3. CASE t # "user"
        <4>1. mail'["user"] = mail["user"]
          BY <3>1, <3>3, <1>1
        <4>2. mail["user"].id # pending.id /\ mail["user"] \in OnWay
          BY <4>1, <2>2, <3>1, <1>5 DEF WayInv, MailSize
        <4>3. mail["user"].id <= said.count /\ mail["user"].id \in Nat
          BY <4>2, <1>1, <1>5, <1>6
        <4>4. IsEntry(e) => e.id = said'.count \/ e.id = pending.id
          BY <1>4
        <4>5. e.kind = "text" => IsEntry(e)
          BY DEF IsEntry, EntryKinds
        <4>6. mail["user"].id # said'.count
          BY <4>3, <1>1
        <4> QED
          BY <4>1, <4>2, <4>4, <4>5, <4>6, <1>4
      <3> QED
        BY <3>2, <3>3
    <2> QED
      BY <2>1, <2>2 DEF MailSize
  <1>11. WaySizes'
    <2>1. \A id \in Ids : view.entries[id] \in Nat
      BY <1>0 DEF WayTyped, Views, EntryTypes
    <2>2. ASSUME NEW id \in Ids
          PROVE  view.entries[id] <= said'.entries[id]
      <3>1. view.entries[id] <= said.entries[id]
        BY DEF WayInv, WaySizes
      <3>2. said'.entries[id] \in Nat
        BY <1>3, <1>4 DEF Events, Posts
      <3> QED
        BY <3>1, <3>2, <2>1, <1>3
    <2>3. ASSUME NEW p \in 1..Len(queue), IsEntry(queue[p])
          PROVE  /\ view.entries[queue[p].id] <= queue[p].size
                 /\ queue[p].size <= said'.entries[queue[p].id]
      <3>1. view.entries[queue[p].id] <= queue[p].size /\ queue[p].size <= said.entries[queue[p].id]
        BY <2>3 DEF WayInv, WaySizes
      <3>2. queue[p].id \in Ids /\ queue[p].size \in Nat
        BY <1>5 DEF Events, Posts
      <3>3. said.entries[queue[p].id] \in Nat /\ said.entries[queue[p].id] <= said'.entries[queue[p].id]
        BY <3>2, <1>3
      <3>4. said'.entries[queue[p].id] \in Nat
        BY <3>2, <3>3, <1>4 DEF Events, Posts
      <3> QED
        BY <3>1, <3>2, <3>3, <3>4
    <2>4. \A p, q \in 1..Len(queue) :
            p < q /\ IsEntry(queue[p]) /\ IsEntry(queue[q]) /\ queue[p].id = queue[q].id =>
               queue[p].size <= queue[q].size
      BY DEF WayInv, WaySizes
    <2> QED
      BY <2>2, <2>3, <2>4, <1>2 DEF WaySizes
  <1>12. InOrder'
    <2> SUFFICES ASSUME "disorder" \notin odd
                 PROVE  /\ \A p, q \in 1..Len(queue) : p < q => queue[p].at < queue[q].at
                        /\ \A p \in 1..Len(queue), u \in Threads :
                             mail'[u].kind # "none" => queue[p].at < mail'[u].at
      BY <1>2 DEF InOrder
    <2>1. ASSUME NEW p \in 1..Len(queue), NEW u \in Threads, mail'[u].kind # "none"
          PROVE  queue[p].at < mail'[u].at
      <3>1. CASE u = t
        BY <3>1, <1>1, <1>5
      <3>2. CASE u # t
        BY <3>2, <2>1, <1>1 DEF WayInv, InOrder
      <3> QED
        BY <3>1, <3>2
    <2> QED
      BY <2>1 DEF WayInv, InOrder
  <1>13. AskOrder'
    <2> SUFFICES ASSUME NEW f \in OnWay', NEW g \in OnWay', f.kind = "ask", g.kind = "answer", f.id = g.id
                 PROVE  f.at < g.at
      BY DEF AskOrder
    <2>1. CASE f \in OnWay /\ g \in OnWay
      BY <2>1 DEF WayInv, AskOrder
    <2>2. CASE g = e /\ f \in OnWay
      BY <2>2, <1>1
    <2>3. CASE f = e /\ g \in OnWay
      <3>1. e.id = said.count + 1 /\ g.id <= said.count /\ g.id \in Nat
        BY <2>3, <1>1, <1>4, <1>5, <1>6
      <3> QED
        BY <3>1, <2>3, <1>1
    <2>4. CASE f = e /\ g = e
      BY <2>4
    <2> QED
      BY <2>1, <2>2, <2>3, <2>4, <1>1
  <1>14. AnsweredOnce'
    <2> SUFFICES ASSUME NEW f \in OnWay', f.kind = "answer"
                 PROVE  f.id \notin said'.asks
      BY DEF AnsweredOnce
    <2>1. CASE f = e
      BY <2>1, <1>4
    <2>2. CASE f \in OnWay
      <3>1. f.id \notin said.asks /\ f.id <= said.count /\ f.id \in Nat
        BY <2>2, <1>1, <1>5, <1>6 DEF WayInv, AnsweredOnce
      <3>2. e.kind = "ask" => f.id # e.id
        BY <3>1, <1>1, <1>4
      <3> QED
        BY <3>1, <3>2, <1>4
    <2> QED
      BY <2>1, <2>2, <1>1
  <1> QED
    BY <1>8, <1>9, <1>10, <1>11, <1>12, <1>13, <1>14 DEF WayInv

\* A step that says nothing, emits nothing, and at most empties the queue.
LEMMA QuietKeepsWay ==
    ASSUME LogInv, WayInv, UNCHANGED <<log, said, mail>>, pending' = pending \/ pending'.id = 0,
           view' \in Views, reply'.upto \in Nat, reply'.at \in Nat,
           reply'.at <= said.count, reply'.upto <= Len(log), view'.cursor <= Len(log),
           \A id \in Ids : view'.entries[id] <= said.entries[id],
           \/ queue' = <<>>
           \/ queue' = queue /\ view'.entries = view.entries /\ odd \subseteq odd',
           phase' # "live" => queue' = <<>>, phase' = "live" => reply'.at = 0
    PROVE  WayInv' /\ OnWay' \subseteq OnWay
  <1>0. WayTyped /\ WayNumbers
    BY DEF WayInv
  <1>1. /\ Len(queue) \in Nat /\ \A p \in 1..Len(queue) : queue[p] \in Events
        /\ \A u \in Threads : IsEntry(mail[u]) => mail[u].kind # "none"
        /\ \A u \in Threads : mail[u].kind # "none" => mail[u] \in Events
    BY <1>0, OnWayIs
  <1>2. queue' = <<>> => \A p : p \notin 1..Len(queue')
    <2>1. Len(<<>>) = 0
      BY EmptySeq
    <2>2. \A p : p \notin 1..0
      OBVIOUS
    <2> QED
      BY <2>1, <2>2
  <1>3. OnWay' \subseteq OnWay
    BY <1>2 DEF OnWay
  <1>4. WayTyped'
    <2>1. <<>> \in Seq(Events)
      BY EmptySeq
    <2>2. queue \in Seq(Events) /\ mail \in [Threads -> Held]
      BY <1>0 DEF WayTyped
    <2>3. queue' \in Seq(Events)
      BY <2>1, <2>2
    <2> QED
      BY <2>2, <2>3 DEF WayTyped
  <1>5. WayNumbers'
    <2>1. \A f \in OnWay' : f.at \in 1..said'.count /\ f.id <= said'.count /\ f.line <= Len(log')
      BY <1>0, <1>3 DEF WayNumbers
    <2>2. \A u, w \in Threads : u # w /\ mail'[u].kind # "none" /\ mail'[w].kind # "none" =>
                                   mail'[u].at # mail'[w].at
      BY <1>0 DEF WayNumbers
    <2> QED
      BY <2>1, <2>2 DEF WayNumbers
  <1>6. MailSize'
    <2>1. IsEntry(mail'["user"]) => mail'["user"].id # pending'.id
      <3>1. IsEntry(mail["user"]) => mail["user"].id # pending.id /\ mail["user"].id # 0
        <4>1. "user" \in Threads
          BY DEF Threads
        <4>2. IsEntry(mail["user"]) => mail["user"].id \in Ids
          BY <1>1, <4>1 DEF Events
        <4>3. 0 \notin Ids
          BY FeedAssumption DEF Ids
        <4> QED
          BY <4>2, <4>3 DEF WayInv, MailSize
      <3> QED
        BY <3>1
    <2> QED
      BY <2>1 DEF WayInv, MailSize
  <1>7. WaySizes'
    <2>1. CASE queue' = <<>>
      BY <1>2, <2>1 DEF WaySizes
    <2>2. CASE queue' = queue /\ view'.entries = view.entries
      BY <2>2 DEF WayInv, WaySizes
    <2> QED
      BY <2>1, <2>2
  <1>8. InOrder'
    <2>1. CASE queue' = <<>>
      BY <1>2, <2>1 DEF InOrder
    <2>2. CASE queue' = queue /\ odd \subseteq odd'
      BY <2>2 DEF WayInv, InOrder
    <2> QED
      BY <2>1, <2>2
  <1>9. AskOrder' /\ AnsweredOnce'
    BY <1>3 DEF WayInv, AskOrder, AnsweredOnce
  <1> QED
    BY <1>3, <1>4, <1>5, <1>6, <1>7, <1>8, <1>9 DEF WayInv

\* An event is emitted: it is queued, or nobody hears it.
LEMMA Delivered ==
    ASSUME WayInv, NEW t \in Threads, Deliver(t)
    PROVE  /\ mail[t] \in Events /\ mail[t] \in OnWay
           /\ mail'[t] = NoMail /\ \A u \in Threads \ {t} : mail'[u] = mail[u]
           /\ mail' \in [Threads -> Held]
           /\ OnWay' \subseteq OnWay /\ OnWay \subseteq OnWay' \cup {mail[t]}
           /\ odd \subseteq odd'
           /\ phase = "live" => /\ OnWay' = OnWay
                                /\ queue' = Append(queue, mail[t]) /\ Len(queue') = Len(queue) + 1
                                /\ queue'[Len(queue) + 1] = mail[t]
                                /\ \A p \in 1..Len(queue) : queue'[p] = queue[p]
                                /\ 1..Len(queue') = 1..Len(queue) \cup {Len(queue) + 1}
                                /\ "disorder" \notin odd' => ~OutOfOrder(t) /\ "disorder" \notin odd
           /\ phase # "live" => queue' = queue
           /\ phase \in {"answered", "applied"} /\ "gap" \notin odd' => ~(mail[t].at > reply.at)
  <1>0. WayTyped
    BY DEF WayInv
  <1>1. /\ mail[t].kind # "none" /\ mail' = [mail EXCEPT ![t] = NoMail]
        /\ queue' = IF phase = "live" THEN Append(queue, mail[t]) ELSE queue
        /\ odd' = odd
             \cup (IF phase = "live" /\ OutOfOrder(t) THEN {"disorder"} ELSE {})
             \cup (IF phase \in {"answered", "applied"} /\ mail[t].at > reply.at THEN {"gap"} ELSE {})
    BY DEF Deliver
  <1>2. /\ mail[t] \in Events /\ mail[t] \in OnWay /\ NoMail \notin Events
        /\ Len(queue) \in Nat /\ \A p \in 1..Len(queue) : queue[p] \in Events
    BY <1>0, <1>1, OnWayIs
  <1>3. mail \in [Threads -> Held] /\ queue \in Seq(Events)
    BY <1>0 DEF WayTyped
  <1>4. mail'[t] = NoMail /\ \A u \in Threads \ {t} : mail'[u] = mail[u]
    BY <1>1, <1>3
  <1>5. mail' \in [Threads -> Held]
    BY <1>1, <1>3 DEF Held
  <1>6. CASE phase = "live"
    <2>1. queue' = Append(queue, mail[t])
      BY <1>1, <1>6
    <2>2. PICK m \in Events : m = mail[t]
      BY <1>2
    <2>3. /\ Len(queue') = Len(queue) + 1 /\ queue'[Len(queue) + 1] = mail[t]
          /\ \A p \in 1..Len(queue) : queue'[p] = queue[p]
      BY <1>3, <2>1, <2>2, AppendProperties
    <2>4. 1..Len(queue') = 1..Len(queue) \cup {Len(queue) + 1}
      BY <1>2, <2>3
    <2>5. \A f : f \in OnWay' => f \in OnWay
      BY <1>2, <1>4, <2>3, <2>4 DEF OnWay
    <2>6. \A f : f \in OnWay => f \in OnWay'
      <3> SUFFICES ASSUME NEW f \in OnWay
                   PROVE  f \in OnWay'
        OBVIOUS
      <3>1. f \in Events
        BY DEF OnWay
      <3>2. CASE f = mail[t]
        <4>1. Len(queue) + 1 \in 1..Len(queue') /\ queue'[Len(queue) + 1] = f
          BY <2>3, <2>4, <3>2
        <4> QED
          BY <4>1, <3>1 DEF OnWay
      <3>3. CASE f # mail[t] /\ \E u \in Threads : mail[u] = f
        BY <3>1, <3>3, <1>4 DEF OnWay
      <3>4. CASE \E p \in 1..Len(queue) : queue[p] = f
        <4>1. PICK p \in 1..Len(queue) : queue[p] = f
          BY <3>4
        <4>2. p \in 1..Len(queue') /\ queue'[p] = f
          BY <4>1, <2>3, <2>4
        <4> QED
          BY <3>1, <4>2 DEF OnWay
      <3> QED
        BY <3>2, <3>3, <3>4 DEF OnWay
    <2>7. "disorder" \notin odd' => ~OutOfOrder(t) /\ "disorder" \notin odd
      BY <1>1, <1>6
    <2>8. OnWay' = OnWay
      BY <2>5, <2>6
    <2> QED
      BY <1>1, <1>2, <1>4, <1>5, <1>6, <2>1, <2>3, <2>4, <2>7, <2>8
  <1>7. CASE phase # "live"
    <2>1. queue' = queue
      BY <1>1, <1>7
    <2>2. \A f : f \in OnWay' => f \in OnWay
      BY <1>2, <1>4, <2>1 DEF OnWay
    <2>3. \A f \in OnWay : f = mail[t] \/ f \in OnWay'
      BY <1>4, <2>1 DEF OnWay
    <2>4. phase \in {"answered", "applied"} /\ "gap" \notin odd' => ~(mail[t].at > reply.at)
      BY <1>1
    <2> QED
      BY <1>1, <1>2, <1>4, <1>5, <1>7, <2>1, <2>2, <2>3, <2>4
  <1> QED
    BY <1>6, <1>7

LEMMA DeliverKeepsWay ==
    ASSUME LogInv, WayInv, NEW t \in Threads, Deliver(t)
    PROVE  WayInv'
  <1>0. WayTyped /\ WayNumbers
    BY DEF WayInv
  <1>1. /\ mail[t] \in Events /\ mail[t] \in OnWay
        /\ mail'[t] = NoMail /\ \A u \in Threads \ {t} : mail'[u] = mail[u]
        /\ mail' \in [Threads -> Held]
        /\ OnWay' \subseteq OnWay /\ odd \subseteq odd'
        /\ phase = "live" => /\ queue' = Append(queue, mail[t]) /\ Len(queue') = Len(queue) + 1
                             /\ queue'[Len(queue) + 1] = mail[t]
                             /\ \A p \in 1..Len(queue) : queue'[p] = queue[p]
                             /\ 1..Len(queue') = 1..Len(queue) \cup {Len(queue) + 1}
                             /\ "disorder" \notin odd' => ~OutOfOrder(t) /\ "disorder" \notin odd
        /\ phase # "live" => queue' = queue
    BY Delivered
  <1>2. UNCHANGED <<log, pending, view, phase, reply, said>> /\ mail[t].kind # "none"
    BY DEF Deliver
  <1>3. /\ \A u \in Threads : mail[u].kind # "none" => mail[u] \in Events /\ mail[u] \in OnWay
        /\ NoMail.kind = "none" /\ ~IsEntry(NoMail)
        /\ Len(queue) \in Nat /\ \A p \in 1..Len(queue) : queue[p] \in Events
        /\ \A f \in Events : f.id \in Ids /\ f.size \in Nat /\ f.at \in Nat
    BY <1>0, OnWayIs
  <1>4. WayTyped'
    <2>1. queue \in Seq(Events)
      BY <1>0 DEF WayTyped
    <2>2. Append(queue, mail[t]) \in Seq(Events)
      BY <1>1, <2>1, AppendProperties
    <2>3. queue' \in Seq(Events)
      BY <1>1, <2>1, <2>2
    <2> QED
      BY <1>0, <1>1, <1>2, <2>3 DEF WayTyped
  <1>5. WayNumbers'
    <2>1. \A f \in OnWay' : f.at \in 1..said'.count /\ f.id <= said'.count /\ f.line <= Len(log')
      BY <1>0, <1>1, <1>2 DEF WayNumbers
    <2>2. \A u, w \in Threads : u # w /\ mail'[u].kind # "none" /\ mail'[w].kind # "none" =>
                                   mail'[u].at # mail'[w].at
      BY <1>0, <1>1, <1>3 DEF WayNumbers
    <2>3. /\ reply'.at <= said'.count /\ reply'.upto <= Len(log') /\ view'.cursor <= Len(log')
          /\ phase' # "live" => queue' = <<>>
          /\ phase' = "live" => reply'.at = 0
      BY <1>0, <1>1, <1>2 DEF WayNumbers
    <2> QED
      BY <2>1, <2>2, <2>3 DEF WayNumbers
  <1>6. MailSize'
    <2>1. \A u \in Threads : IsEntry(mail'[u]) => mail'[u] = mail[u] /\ IsEntry(mail[u])
      BY <1>1, <1>3
    <2>2. "user" \in Threads
      BY DEF Threads
    <2> QED
      BY <1>2, <2>1, <2>2 DEF WayInv, MailSize
  <1>7. CASE phase # "live"
    <2>1. WaySizes'
      BY <1>1, <1>2, <1>7 DEF WayInv, WaySizes
    <2>2. InOrder'
      BY <1>1, <1>3, <1>7 DEF WayInv, InOrder
    <2>3. AskOrder' /\ AnsweredOnce'
      BY <1>1, <1>2 DEF WayInv, AskOrder, AnsweredOnce
    <2> QED
      BY <1>4, <1>5, <1>6, <2>1, <2>2, <2>3 DEF WayInv
  <1>8. CASE phase = "live"
    <2>1. /\ Len(queue') = Len(queue) + 1 /\ queue'[Len(queue) + 1] = mail[t]
          /\ \A p \in 1..Len(queue) : queue'[p] = queue[p]
          /\ 1..Len(queue') = 1..Len(queue) \cup {Len(queue) + 1}
          /\ "disorder" \notin odd' => ~OutOfOrder(t) /\ "disorder" \notin odd
      BY <1>1, <1>8
    <2>2. IsEntry(mail[t]) => /\ mail[t].size = said.entries[mail[t].id]
                              /\ view.entries[mail[t].id] <= mail[t].size
      BY <1>1, <1>3 DEF WayInv, MailSize, WaySizes
    <2>3. mail[t].id \in Ids /\ mail[t].size \in Nat /\ mail[t].at \in Nat
      BY <1>1, <1>3
    <2>4. WaySizes'
      <3>1. \A id \in Ids : view'.entries[id] <= said'.entries[id]
        BY <1>2 DEF WayInv, WaySizes
      <3>2. ASSUME NEW p \in 1..Len(queue'), IsEntry(queue'[p])
            PROVE  /\ view.entries[queue'[p].id] <= queue'[p].size
                   /\ queue'[p].size <= said.entries[queue'[p].id]
        <4>1. CASE p \in 1..Len(queue)
          BY <4>1, <3>2, <2>1 DEF WayInv, WaySizes
        <4>2. CASE p = Len(queue) + 1
          <5>1. queue'[p] = mail[t]
            BY <4>2, <2>1
          <5> QED
            BY <5>1, <3>2, <2>2, <2>3
        <4> QED
          BY <2>1, <4>1, <4>2
      <3>3. ASSUME NEW p \in 1..Len(queue'), NEW q \in 1..Len(queue'), p < q,
                   IsEntry(queue'[p]), IsEntry(queue'[q]), queue'[p].id = queue'[q].id
            PROVE  queue'[p].size <= queue'[q].size
        <4>1. p \in 1..Len(queue)
          BY <1>3, <2>1, <3>3
        <4>2. CASE q \in 1..Len(queue)
          BY <4>1, <4>2, <3>3, <2>1 DEF WayInv, WaySizes
        <4>3. CASE q = Len(queue) + 1
          <5>1. queue'[q] = mail[t]
            BY <4>3, <2>1
          <5>2. queue'[p].size <= said.entries[queue'[p].id]
            BY <3>2, <3>3
          <5> QED
            BY <5>1, <5>2, <3>3, <2>2
        <4> QED
          BY <2>1, <4>2, <4>3
      <3> QED
        BY <3>1, <3>2, <3>3, <1>2 DEF WaySizes
    <2>5. InOrder'
      <3> SUFFICES ASSUME "disorder" \notin odd'
                   PROVE  /\ \A p, q \in 1..Len(queue') : p < q => queue'[p].at < queue'[q].at
                          /\ \A p \in 1..Len(queue'), u \in Threads :
                               mail'[u].kind # "none" => queue'[p].at < mail'[u].at
        BY DEF InOrder
      <3>1. ~OutOfOrder(t) /\ "disorder" \notin odd
        BY <2>1
      <3>2. /\ \A p, q \in 1..Len(queue) : p < q => queue[p].at < queue[q].at
            /\ \A p \in 1..Len(queue), u \in Threads :
                 mail[u].kind # "none" => queue[p].at < mail[u].at
        BY <3>1 DEF WayInv, InOrder
      <3>3. ASSUME NEW u \in Threads, mail'[u].kind # "none"
            PROVE  mail[t].at < mail'[u].at /\ mail'[u] = mail[u]
        <4>1. u # t /\ mail'[u] = mail[u]
          BY <1>1, <1>3, <3>3
        <4>2. ~(mail[u].at < mail[t].at)
          BY <3>1, <3>3, <4>1 DEF OutOfOrder
        <4>3. mail[u].at # mail[t].at
          BY <1>0, <1>2, <3>3, <4>1 DEF WayNumbers
        <4>4. mail[u].at \in Nat
          BY <1>3, <3>3, <4>1
        <4> QED
          BY <4>1, <4>2, <4>3, <4>4, <2>3
      <3>4. ASSUME NEW p \in 1..Len(queue'), NEW q \in 1..Len(queue'), p < q
            PROVE  queue'[p].at < queue'[q].at
        <4>1. p \in 1..Len(queue)
          BY <1>3, <2>1, <3>4
        <4>2. CASE q \in 1..Len(queue)
          BY <4>1, <4>2, <3>2, <3>4, <2>1
        <4>3. CASE q = Len(queue) + 1
          BY <4>1, <4>3, <3>2, <1>2, <2>1
        <4> QED
          BY <2>1, <4>2, <4>3
      <3>5. ASSUME NEW p \in 1..Len(queue'), NEW u \in Threads, mail'[u].kind # "none"
            PROVE  queue'[p].at < mail'[u].at
        <4>1. mail[t].at < mail'[u].at /\ mail'[u] = mail[u]
          BY <3>3, <3>5
        <4>2. CASE p \in 1..Len(queue)
          BY <4>1, <4>2, <3>2, <3>5, <2>1
        <4>3. CASE p = Len(queue) + 1
          BY <4>1, <4>3, <2>1
        <4> QED
          BY <2>1, <4>2, <4>3
      <3> QED
        BY <3>4, <3>5
    <2>6. AskOrder' /\ AnsweredOnce'
      BY <1>1, <1>2 DEF WayInv, AskOrder, AnsweredOnce
    <2> QED
      BY <1>4, <1>5, <1>6, <2>4, <2>5, <2>6 DEF WayInv
  <1> QED
    BY <1>7, <1>8

(***************************************************************************)
(* The view.                                                               *)
(***************************************************************************)
LEMMA LinesAre ==
    ASSUME LogInv, SayInv
    PROVE  /\ log \in Seq(LineTypes) /\ Len(log) \in Nat /\ DOMAIN log = 1..Len(log)
           /\ \A i \in 1..Len(log) : log[i].size \in Nat /\ log[i].id \in Ids
  <1>1. log \in Seq(LineTypes) /\ Len(log) \in Nat /\ DOMAIN log = 1..Len(log)
    BY LenProperties DEF LogInv, FeedTyped
  <1>2. \A i \in 1..Len(log) : log[i] \in LineTypes
    BY <1>1, ElementOfSeq
  <1>3. said.count \in Nat /\ said.count <= MaxEvents /\ MaxEvents \in Nat
    BY FeedAssumption DEF LogInv, FeedTyped, SaidTypes, SayInv, LogNumbers
  <1>4. \A i \in 1..Len(log) : log[i].id \in 1..said.count
    BY DEF SayInv, LogNumbers
  <1>5. 1..said.count \subseteq Ids
    BY <1>3 DEF Ids
  <1> QED
    BY <1>1, <1>2, <1>4, <1>5 DEF LineTypes

LEMMA SaysKeepsView ==
    ASSUME LogInv, SayInv, WayInv, ViewInv, NEW t, NEW e \in Events, Says(t, e)
    PROVE  ViewInv'
  <1>0. WayTyped /\ WayNumbers
    BY DEF WayInv
  <1>1. /\ Len(log) \in Nat /\ Len(log') \in Nat /\ Len(log) <= Len(log')
        /\ 1..Len(log') = 1..Len(log) \cup (Len(log) + 1)..Len(log')
        /\ \A i \in 1..Len(log) : log'[i] = log[i]
        /\ \A i \in (Len(log) + 1)..Len(log') :
             OwnLine(log'[i], e) \/ (HeldLine(log'[i]) /\ (IsEntry(e) => e.id # pending.id))
    BY NewLines
  <1>2. UNCHANGED <<view, phase, reply, queue, odd>>
    BY DEF Says, Heard
  <1>3. /\ OnWay' = OnWay \cup {e}
        /\ \A f \in OnWay : f \in Events /\ f.at \in Nat /\ f.at < e.at /\ f.at <= said.count
        /\ said.count \in Nat /\ e.at = said.count + 1
    BY <1>0, WaySaid
  <1>4. /\ reply.at \in Nat /\ reply.upto \in Nat /\ view.cursor \in Nat
        /\ reply.at <= said.count /\ reply.upto <= Len(log) /\ view.cursor <= Len(log)
    BY <1>0 DEF WayTyped, WayNumbers, Views
  <1>5. /\ LinesRead' = LinesRead /\ Merged' = Merged /\ AsksIn(LinesRead)' = AsksIn(LinesRead)
        /\ LastOfEntries(1..reply.upto)' = LastOfEntries(1..reply.upto)
    <2>1. \A i \in 1..reply.upto : log'[i] = log[i]
      <3>1. 1..reply.upto \subseteq 1..Len(log)
        BY <1>1, <1>4
      <3> QED
        BY <1>1, <3>1
    <2> QED
      BY <1>2, <1>4, <2>1, ReadKept
  <1>6. Seen' = Seen /\ SeenAsks' = SeenAsks
    BY <1>2, <1>5 DEF Seen, SeenAsks
  <1>7. Fresh' = Fresh \cup {e}
    BY <1>2, <1>3, <1>4 DEF Fresh
  <1>8. (Following' <=> Following) /\ (EntriesSound' <=> EntriesSound) /\ (AsksSound' <=> AsksSound)
    BY <1>2 DEF Following, EntriesSound, AsksSound, Orderly
  <1>9. e.id \in Ids /\ e.size \in Nat /\ e.at \in Nat
    BY DEF Events, Posts
  <1>10. Covered'
    <2> SUFFICES ASSUME Following, EntriesSound
                 PROVE  LinesCovered' /\ OrderCovered' /\ TextCovered'
      BY <1>8 DEF Covered
    <2>1. LinesCovered /\ OrderCovered /\ TextCovered
      BY DEF ViewInv, Covered
    <2>2. ASSUME NEW i \in 1..Len(log'), IsEntry(log'[i])
          PROVE  \/ Seen[log'[i].id] >= log'[i].size
                 \/ \E f \in Fresh \cup {e} : Brings(f, log'[i].id, log'[i].size)
      <3>1. CASE i \in 1..Len(log)
        <4>1. log'[i] = log[i]
          BY <3>1, <1>1
        <4> QED
          BY <4>1, <3>1, <2>1, <2>2 DEF LinesCovered, Reached
      <3>2. CASE i \in (Len(log) + 1)..Len(log')
        <4>1. CASE OwnLine(log'[i], e)
          <5>1. Brings(e, log'[i].id, log'[i].size)
            BY <4>1, <2>2, <1>9 DEF OwnLine, IsEntry, Brings
          <5> QED
            BY <5>1
        <4>2. CASE HeldLine(log'[i])
          <5>1. log'[i].id = pending.id /\ log'[i].size = pending.size /\ pending.id # 0
            BY <4>2, FeedAssumption DEF HeldLine, Ids
          <5> QED
            BY <5>1, <2>1 DEF TextCovered, Reached
        <4> QED
          BY <3>2, <4>1, <4>2, <1>1
      <3> QED
        BY <1>1, <3>1, <3>2
    <2>3. LinesCovered'
      BY <2>2, <1>6, <1>7 DEF LinesCovered, Reached
    <2>4. OrderCovered'
      <3> SUFFICES ASSUME NEW f \in OnWay', NEW i \in 1..Len(log'), i <= f.line, IsEntry(log'[i])
                   PROVE  \/ Seen'[log'[i].id] >= log'[i].size
                          \/ \E g \in Fresh' : g.at <= f.at /\ Brings(g, log'[i].id, log'[i].size)
        BY DEF OrderCovered, ReachedBy
      <3>1. CASE f = e
        <4>1. \A g \in Fresh' : g.at <= e.at
          BY <1>3, <1>7, <1>9 DEF Fresh
        <4> QED
          BY <3>1, <4>1, <2>2, <1>6, <1>7
      <3>2. CASE f \in OnWay
        <4>1. f.line <= Len(log) /\ f.line \in Nat
          BY <3>2, <1>0, <1>3 DEF WayNumbers, Events, Posts
        <4>2. i \in 1..Len(log)
          BY <4>1, <1>1
        <4>3. log'[i] = log[i]
          BY <4>2, <1>1
        <4>4. ReachedBy(f, log[i].id, log[i].size)
          BY <3>2, <4>2, <4>3, <2>1 DEF OrderCovered
        <4> QED
          BY <4>3, <4>4, <1>6, <1>7 DEF ReachedBy
      <3> QED
        BY <1>3, <3>1, <3>2
    <2>5. TextCovered'
      <3>1. CASE pending'.id = pending.id /\ pending'.size = pending.size
        BY <3>1, <2>1, <1>6, <1>7 DEF TextCovered, Reached
      <3>2. CASE e.kind = "text" /\ pending'.id = e.id /\ pending'.size = e.size
        <4>1. Brings(e, e.id, e.size)
          BY <3>2, <1>9 DEF Brings, IsEntry, EntryKinds
        <4> QED
          BY <3>2, <4>1, <1>7 DEF TextCovered, Reached
      <3> QED
        BY <3>1, <3>2 DEF Says, Spoken
    <2> QED
      BY <2>3, <2>4, <2>5
  <1>11. InWindow'
    <2> SUFFICES ASSUME phase = "answered", EntriesSound,
                        NEW i \in LastOfEntries(1..reply.upto), i > view.cursor
                 PROVE  i \in LinesRead
      BY <1>2, <1>5, <1>8 DEF InWindow
    <2> QED
      BY DEF ViewInv, InWindow
  <1>12. Forward'
    BY <1>2, <1>6 DEF ViewInv, Forward
  <1>13. AsksCovered'
    <2> SUFFICES ASSUME Following, AsksSound
                 PROVE  AsksArrive' /\ AsksLeave'
      BY <1>8 DEF AsksCovered
    <2>1. AsksArrive /\ AsksLeave
      BY DEF ViewInv, AsksCovered
    <2>2. said'.asks = IF e.kind = "ask" THEN said.asks \cup {e.id}
                       ELSE IF e.kind = "answer" THEN said.asks \ {e.id} ELSE said.asks
      BY DEF Says, Spoken
    <2>3. \A id : QueuedAsk(id)' <=> QueuedAsk(id)
      BY <1>2 DEF QueuedAsk
    <2>4. AsksArrive'
      <3> SUFFICES ASSUME NEW id \in said'.asks
                   PROVE  id \in SeenAsks \/ \E f \in Fresh \cup {e} : f.kind = "ask" /\ f.id = id
        BY <1>6, <1>7 DEF AsksArrive
      <3>1. CASE id \in said.asks
        BY <3>1, <2>1 DEF AsksArrive
      <3>2. CASE e.kind = "ask" /\ id = e.id
        BY <3>2
      <3> QED
        BY <2>2, <3>1, <3>2
    <2>5. AsksLeave'
      <3> SUFFICES ASSUME NEW id \in Ids \ said'.asks, id \in SeenAsks \/ QueuedAsk(id)
                   PROVE  \E f \in Fresh \cup {e} : f.kind = "answer" /\ f.id = id
        BY <1>6, <1>7, <2>3 DEF AsksLeave
      <3>1. CASE id \notin said.asks
        BY <3>1, <2>1 DEF AsksLeave
      <3>2. CASE e.kind = "answer" /\ id = e.id
        BY <3>2
      <3> QED
        BY <2>2, <3>1, <3>2
    <2> QED
      BY <2>4, <2>5
  <1>14. CursorCovers'
    <2> SUFFICES ASSUME EntriesSound, NEW i \in DOMAIN log', IsEntry(log'[i]), i <= view.cursor
                 PROVE  view.entries[log'[i].id] >= log'[i].size
      BY <1>2, <1>8 DEF CursorCovers, EntriesSound, IsEntry
    <2>1. DOMAIN log' = 1..Len(log') /\ DOMAIN log = 1..Len(log)
      BY LenProperties DEF Says, Grown, LogInv, FeedTyped
    <2>2. i \in 1..Len(log)
      BY <2>1, <1>1, <1>4
    <2>3. log'[i] = log[i]
      BY <2>2, <1>1
    <2> QED
      BY <2>1, <2>2, <2>3 DEF ViewInv, CursorCovers, EntriesSound, IsEntry
  <1> QED
    BY <1>10, <1>11, <1>12, <1>13, <1>14 DEF ViewInv

\* With the same log and the same view the cursor covers what it covered.
LEMMA CursorStays ==
    ASSUME CursorCovers, UNCHANGED log, view'.cursor = view.cursor,
           view'.entries = view.entries, odd \subseteq odd'
    PROVE  CursorCovers'
  <1>1. EntriesSound' => EntriesSound
    BY DEF EntriesSound, Orderly
  <1> QED
    BY <1>1 DEF CursorCovers, EntriesSound

LEMMA DeliverKeepsView ==
    ASSUME WayInv, ViewInv, NEW t \in Threads, Deliver(t)
    PROVE  ViewInv'
  <1>0. WayTyped /\ WayNumbers
    BY DEF WayInv
  <1>1. /\ mail[t] \in Events /\ mail[t] \in OnWay
        /\ OnWay' \subseteq OnWay /\ OnWay \subseteq OnWay' \cup {mail[t]} /\ odd \subseteq odd'
        /\ phase = "live" => /\ OnWay' = OnWay
                             /\ queue' = Append(queue, mail[t])
                             /\ queue'[Len(queue) + 1] = mail[t]
                             /\ \A p \in 1..Len(queue) : queue'[p] = queue[p]
                             /\ 1..Len(queue') = 1..Len(queue) \cup {Len(queue) + 1}
                             /\ "disorder" \notin odd' => ~OutOfOrder(t) /\ "disorder" \notin odd
        /\ phase # "live" => queue' = queue
        /\ phase \in {"answered", "applied"} /\ "gap" \notin odd' => ~(mail[t].at > reply.at)
    BY Delivered
  <1>2. UNCHANGED <<log, pending, view, phase, reply, said>>
    BY DEF Deliver
  <1>3. reply.upto \in Nat
    BY <1>0 DEF WayTyped
  <1>4. /\ LinesRead' = LinesRead /\ Merged' = Merged /\ AsksIn(LinesRead)' = AsksIn(LinesRead)
        /\ LastOfEntries(1..reply.upto)' = LastOfEntries(1..reply.upto)
    BY <1>2, <1>3, ReadKept
  <1>5. Seen' = Seen /\ SeenAsks' = SeenAsks
    BY <1>2, <1>4 DEF Seen, SeenAsks
  <1>6. /\ (Following' <=> Following) /\ (EntriesSound' => EntriesSound) /\ (AsksSound' => AsksSound)
        /\ EntriesSound' \/ AsksSound' => "gap" \notin odd'
        /\ AsksSound' => "disorder" \notin odd'
    BY <1>1, <1>2 DEF Following, EntriesSound, AsksSound, Orderly, Deviations
  <1>7. ASSUME Following, EntriesSound' \/ AsksSound'
        PROVE  Fresh' = Fresh
    <2>1. CASE phase = "live"
      BY <2>1, <1>1, <1>2 DEF Fresh
    <2>2. CASE phase # "live"
      <3>1. ~(mail[t].at > reply.at)
        BY <2>2, <1>1, <1>6, <1>7 DEF Following
      <3> QED
        BY <3>1, <1>1, <1>2 DEF Fresh
    <2> QED
      BY <2>1, <2>2
  <1>8. Covered'
    <2> SUFFICES ASSUME Following, EntriesSound'
                 PROVE  LinesCovered' /\ OrderCovered' /\ TextCovered'
      BY <1>6 DEF Covered
    <2>1. LinesCovered /\ OrderCovered /\ TextCovered
      BY <1>6 DEF ViewInv, Covered
    <2>2. Fresh' = Fresh
      BY <1>7
    <2>3. LinesCovered' /\ TextCovered'
      BY <1>2, <1>5, <2>1, <2>2 DEF LinesCovered, TextCovered, Reached
    <2>4. OrderCovered'
      BY <1>1, <1>2, <1>5, <2>1, <2>2 DEF OrderCovered, ReachedBy
    <2> QED
      BY <2>3, <2>4
  <1>9. InWindow'
    <2> SUFFICES ASSUME phase = "answered", EntriesSound,
                        NEW i \in LastOfEntries(1..reply.upto), i > view.cursor
                 PROVE  i \in LinesRead
      BY <1>2, <1>4, <1>6 DEF InWindow
    <2> QED
      BY DEF ViewInv, InWindow
  <1>10. Forward'
    BY <1>1, <1>2, <1>5 DEF ViewInv, Forward
  <1>11. AsksCovered'
    <2> SUFFICES ASSUME Following, AsksSound'
                 PROVE  AsksArrive' /\ AsksLeave'
      BY <1>6 DEF AsksCovered
    <2>1. AsksArrive /\ AsksLeave
      BY <1>6 DEF ViewInv, AsksCovered
    <2>2. Fresh' = Fresh
      BY <1>7
    <2>3. AsksArrive'
      BY <1>2, <1>5, <2>1, <2>2 DEF AsksArrive
    <2>4. AsksLeave'
      <3> SUFFICES ASSUME NEW id \in Ids \ said.asks, id \in SeenAsks \/ QueuedAsk(id)'
                   PROVE  \E f \in Fresh : f.kind = "answer" /\ f.id = id
        BY <1>2, <1>5, <2>2 DEF AsksLeave
      <3>1. CASE id \in SeenAsks \/ QueuedAsk(id)
        BY <3>1, <2>1 DEF AsksLeave
      <3>2. CASE QueuedAsk(id)' /\ ~QueuedAsk(id)
        <4>1. PICK p \in 1..Len(queue') : queue'[p].kind = "ask" /\ queue'[p].id = id
          BY <3>2 DEF QueuedAsk
        <4>2. phase = "live"
          BY <3>2, <1>1 DEF QueuedAsk
        <4>3. p \notin 1..Len(queue)
          BY <3>2, <4>1, <4>2, <1>1 DEF QueuedAsk
        <4>4. queue'[p] = mail[t]
          BY <4>1, <4>2, <4>3, <1>1
        <4>5. ~OutOfOrder(t)
          BY <4>2, <1>1, <1>6
        <4>6. PICK u \in Threads : mail[u].kind = "answer" /\ mail[u].id = mail[t].id
          BY <4>1, <4>4, <4>5 DEF OutOfOrder
        <4>7. mail[u] \in OnWay
          BY <4>6, <1>0, OnWayIs
        <4>8. mail[u].at \in 1..said.count /\ reply.at = 0
          BY <4>2, <4>7, <1>0 DEF WayNumbers
        <4>9. mail[u] \in Fresh
          BY <4>7, <4>8 DEF Fresh
        <4> QED
          BY <4>1, <4>4, <4>6, <4>9
      <3> QED
        BY <3>1, <3>2
    <2> QED
      BY <2>3, <2>4
  <1>12. CursorCovers'
    BY <1>1, <1>2, CursorStays DEF ViewInv
  <1> QED
    BY <1>8, <1>9, <1>10, <1>11, <1>12 DEF ViewInv

\* The end of the session, and steps of something else.
LEMMA ShutdownKeepsView ==
    ASSUME WayInv, ViewInv, UNCHANGED <<log, said, mail, view, phase, reply, queue>>,
           pending' = pending \/ pending'.id = 0, odd \subseteq odd'
    PROVE  ViewInv'
  <1>1. reply.upto \in Nat
    BY DEF WayInv, WayTyped
  <1>2. /\ LinesRead' = LinesRead /\ Merged' = Merged /\ AsksIn(LinesRead)' = AsksIn(LinesRead)
        /\ LastOfEntries(1..reply.upto)' = LastOfEntries(1..reply.upto)
    BY <1>1, ReadKept
  <1>3. Seen' = Seen /\ SeenAsks' = SeenAsks
    BY <1>2 DEF Seen, SeenAsks
  <1>4. OnWay' = OnWay /\ Fresh' = Fresh
    BY DEF OnWay, Fresh
  <1>5. (Following' <=> Following) /\ (EntriesSound' => EntriesSound) /\ (AsksSound' => AsksSound)
    BY DEF Following, EntriesSound, AsksSound, Orderly
  <1>6. Covered'
    <2> SUFFICES ASSUME Following, EntriesSound'
                 PROVE  LinesCovered' /\ OrderCovered' /\ TextCovered'
      BY <1>5 DEF Covered
    <2>1. LinesCovered /\ OrderCovered /\ TextCovered
      BY <1>5 DEF ViewInv, Covered
    <2>2. LinesCovered' /\ TextCovered'
      BY <1>3, <1>4, <2>1 DEF LinesCovered, TextCovered, Reached
    <2>3. OrderCovered'
      BY <1>3, <1>4, <2>1 DEF OrderCovered, ReachedBy
    <2> QED
      BY <2>2, <2>3
  <1>7. InWindow'
    <2> SUFFICES ASSUME phase = "answered", EntriesSound,
                        NEW i \in LastOfEntries(1..reply.upto), i > view.cursor
                 PROVE  i \in LinesRead
      BY <1>2, <1>5 DEF InWindow
    <2> QED
      BY DEF ViewInv, InWindow
  <1>8. Forward'
    BY <1>3 DEF ViewInv, Forward
  <1>9. AsksCovered'
    <2> SUFFICES ASSUME Following, AsksSound'
                 PROVE  AsksArrive' /\ AsksLeave'
      BY <1>5 DEF AsksCovered
    <2>1. AsksArrive /\ AsksLeave
      BY <1>5 DEF ViewInv, AsksCovered
    <2> QED
      BY <1>3, <1>4, <2>1 DEF AsksArrive, AsksLeave, QueuedAsk
  <1>10. CursorCovers'
    BY CursorStays DEF ViewInv
  <1> QED
    BY <1>6, <1>7, <1>8, <1>9, <1>10 DEF ViewInv

\* A view that follows nothing owes nothing but what its cursor stands for.
LEMMA UnfollowedKeepsView ==
    ASSUME CursorCovers', ~Following' \/ "failed" \in odd', phase' # "answered"
    PROVE  ViewInv'
  <1>1. "failed" \in odd' => ~EntriesSound' /\ ~AsksSound'
    BY DEF EntriesSound, AsksSound, Orderly, Deviations
  <1> QED
    BY <1>1 DEF ViewInv, Covered, InWindow, Forward, AsksCovered

LEMMA CloseKeepsView ==
    ASSUME ViewInv, Close \/ ReadFails
    PROVE  ViewInv'
  <1>1. CASE Close
    <2>1. UNCHANGED <<log, view, odd>> /\ phase' = "away"
      BY <1>1 DEF Close
    <2>2. CursorCovers'
      BY <2>1, CursorStays DEF ViewInv
    <2> QED
      BY <2>1, <2>2, UnfollowedKeepsView DEF Following
  <1>2. CASE ReadFails
    <2>1. /\ "failed" \in odd' /\ phase' = "applied"
      BY <1>2 DEF ReadFails
    <2>2. CursorCovers'
      BY <2>1 DEF CursorCovers, Orderly, Deviations
    <2> QED
      BY <2>1, <2>2, UnfollowedKeepsView
  <1> QED
    BY <1>1, <1>2

LEMMA EvictKeepsView ==
    ASSUME LogInv, Evict
    PROVE  ViewInv'
  <1>1. /\ phase' = "away" /\ log' = log /\ view' = EmptyView
    BY DEF Evict
  <1>2. view'.cursor = 0
    BY <1>1 DEF EmptyView
  <1>3. DOMAIN log' = 1..Len(log')
    BY <1>1, LenProperties DEF LogInv, FeedTyped
  <1>4. \A i \in DOMAIN log' : ~(i <= view'.cursor)
    BY <1>2, <1>3
  <1>5. CursorCovers'
    BY <1>4 DEF CursorCovers
  <1> QED
    BY <1>1, <1>5, UnfollowedKeepsView DEF Following

LEMMA OpenKeepsView ==
    ASSUME LogInv, SayInv, WayInv, ViewInv, Open
    PROVE  ViewInv'
  <1>1. /\ phase = "away" /\ UNCHANGED <<log, pending, mail, view, queue, said>>
        /\ phase' = IF view.initialized /\ view.cursor = 0 THEN "applied" ELSE "reading"
        /\ odd' = IF phase' = "applied" /\ (view.entries # said.entries \/ view.asks # said.asks)
                  THEN odd \cup {"blank"} ELSE odd
    BY DEF Open
  <1>2. CursorCovers'
    BY <1>1, CursorStays DEF ViewInv
  <1>3. CASE phase' = "reading"
    BY <1>2, <1>3, UnfollowedKeepsView DEF Following
  <1>4. CASE phase' = "applied"
    <2>1. EntriesSound' \/ AsksSound' => view.entries = said.entries /\ view.asks = said.asks
      BY <1>1, <1>4 DEF EntriesSound, AsksSound, Orderly, Deviations
    <2>2. Seen' = view.entries /\ SeenAsks' = view.asks
      BY <1>1, <1>4 DEF Seen, SeenAsks
    <2>3. \A i \in 1..Len(log) : /\ log[i].size \in Nat /\ log[i].id \in Ids
                                 /\ IsEntry(log[i]) => log[i].size <= said.entries[log[i].id]
      BY LinesAre DEF SayInv, LogSizes
    <2>4. \A id \in Ids : said.entries[id] \in Nat
      BY DEF LogInv, FeedTyped, SaidTypes, EntryTypes
    <2>5. Covered'
      <3> SUFFICES ASSUME EntriesSound'
                   PROVE  LinesCovered' /\ OrderCovered' /\ TextCovered'
        BY DEF Covered
      <3>1. Seen' = said.entries
        BY <2>1, <2>2
      <3>2. \A i \in 1..Len(log) : IsEntry(log[i]) => Seen'[log[i].id] >= log[i].size
        BY <2>3, <2>4, <3>1
      <3>3. LinesCovered' /\ OrderCovered'
        BY <1>1, <3>2 DEF LinesCovered, OrderCovered, Reached, ReachedBy
      <3>4. pending.id # 0 => Seen'[pending.id] >= pending.size
        <4>1. pending.id # 0 => pending.id \in Ids /\ said.entries[pending.id] = pending.size
          BY DEF LogInv, HeldBack
        <4> QED
          BY <4>1, <3>1, <2>4
      <3>5. TextCovered'
        BY <1>1, <3>4 DEF TextCovered, Reached
      <3> QED
        BY <3>3, <3>5
    <2>6. AsksCovered'
      <3> SUFFICES ASSUME AsksSound'
                   PROVE  AsksArrive' /\ AsksLeave'
        BY DEF AsksCovered
      <3>1. SeenAsks' = said.asks
        BY <2>1, <2>2
      <3>2. queue' = <<>>
        BY <1>1 DEF WayInv, WayNumbers
      <3>3. \A id : ~QueuedAsk(id)'
        <4>1. Len(queue') = 0
          BY <3>2, EmptySeq
        <4>2. \A p : p \notin 1..0
          OBVIOUS
        <4> QED
          BY <4>1, <4>2 DEF QueuedAsk
      <3> QED
        BY <1>1, <3>1, <3>3 DEF AsksArrive, AsksLeave
    <2> QED
      BY <1>2, <1>4, <2>5, <2>6 DEF ViewInv, InWindow, Forward
  <1> QED
    BY <1>1, <1>3, <1>4

LEMMA SubscribeKeepsView ==
    ASSUME WayInv, ViewInv, Subscribe
    PROVE  ViewInv'
  <1>1. /\ phase = "applied" /\ phase' = "live" /\ reply' = NoReply
        /\ UNCHANGED <<log, pending, mail, view, queue, said, odd>>
    BY DEF Subscribe
  <1>2. Seen' = Seen /\ SeenAsks' = SeenAsks
    BY <1>1 DEF Seen, SeenAsks
  <1>3. OnWay' = OnWay
    BY <1>1 DEF OnWay
  <1>4. Fresh \subseteq Fresh'
    <2>1. \A e \in OnWay : e.at \in 1..said.count
      BY DEF WayInv, WayNumbers
    <2>2. reply'.at = 0
      BY <1>1 DEF NoReply
    <2>3. \A e \in OnWay : e.at > reply'.at
      BY <2>1, <2>2
    <2> QED
      BY <1>3, <2>3 DEF Fresh
  <1>5. Following /\ (EntriesSound' <=> EntriesSound) /\ (AsksSound' <=> AsksSound)
    BY <1>1 DEF Following, EntriesSound, AsksSound, Orderly
  <1>6. Covered'
    <2> SUFFICES ASSUME EntriesSound
                 PROVE  LinesCovered' /\ OrderCovered' /\ TextCovered'
      BY <1>5 DEF Covered
    <2>1. LinesCovered /\ OrderCovered /\ TextCovered
      BY <1>5 DEF ViewInv, Covered
    <2>2. LinesCovered' /\ TextCovered'
      BY <1>1, <1>2, <1>4, <2>1 DEF LinesCovered, TextCovered, Reached
    <2>3. OrderCovered'
      <3> SUFFICES ASSUME NEW f \in OnWay, NEW i \in 1..Len(log), i <= f.line, IsEntry(log[i])
                   PROVE  \/ Seen[log[i].id] >= log[i].size
                          \/ \E e \in Fresh' : e.at <= f.at /\ Brings(e, log[i].id, log[i].size)
        BY <1>1, <1>2, <1>3 DEF OrderCovered, ReachedBy
      <3>1. ReachedBy(f, log[i].id, log[i].size)
        BY <2>1 DEF OrderCovered
      <3> QED
        BY <3>1, <1>4 DEF ReachedBy
    <2> QED
      BY <2>2, <2>3
  <1>7. InWindow' /\ Forward'
    BY <1>1 DEF InWindow, Forward
  <1>8. AsksCovered'
    <2> SUFFICES ASSUME AsksSound
                 PROVE  AsksArrive' /\ AsksLeave'
      BY <1>5 DEF AsksCovered
    <2>1. AsksArrive /\ AsksLeave
      BY <1>5 DEF ViewInv, AsksCovered
    <2>2. AsksArrive'
      BY <1>1, <1>2, <1>4, <2>1 DEF AsksArrive
    <2>3. \A id : QueuedAsk(id)' <=> QueuedAsk(id)
      BY <1>1 DEF QueuedAsk
    <2>4. AsksLeave'
      BY <1>1, <1>2, <1>4, <2>1, <2>3 DEF AsksLeave
    <2> QED
      BY <2>2, <2>4
  <1>9. CursorCovers'
    BY <1>1, CursorStays DEF ViewInv
  <1> QED
    BY <1>6, <1>7, <1>8, <1>9 DEF ViewInv

(***************************************************************************)
(* The read.                                                               *)
(***************************************************************************)
\* All of an entry is in the log, unless it is held back or was cut off.
LEMMA LogComplete ==
    ASSUME LogInv, SayInv, "cut" \notin odd, NEW id \in Ids, said.entries[id] # 0,
           id = pending.id => pending.size <= pending.persisted
    PROVE  \E i \in 1..Len(log) : IsEntry(log[i]) /\ log[i].id = id /\ log[i].size = said.entries[id]
  <1>1. PICK i \in 1..Len(log) : /\ IsEntry(log[i]) /\ log[i].id = id
                                 /\ log[i].kind = "text" \/ log[i].size = said.entries[id]
    BY DEF SayInv, Logged
  <1>2. CASE log[i].size = said.entries[id]
    BY <1>1, <1>2
  <1>3. CASE log[i].kind = "text"
    <2>1. ~Textless(log, id)
      BY <1>1, <1>3 DEF Textless, TextOf
    <2>2. \E n \in Nat : Longest(log, id, n) /\ said.entries[id] = n
      <3>1. CASE id = pending.id
        <4>1. id # 0
          BY FeedAssumption DEF Ids
        <4>2. /\ Longest(log, id, pending.persisted) /\ pending.persisted <= pending.size
              /\ said.entries[id] = pending.size
          BY <3>1, <4>1 DEF LogInv, HeldBack
        <4>3. pending.persisted \in Nat /\ pending.size \in Nat /\ pending.size <= pending.persisted
          BY <3>1 DEF LogInv, FeedTyped
        <4> QED
          BY <4>2, <4>3
      <3>2. CASE id # pending.id
        BY <2>1, <3>2 DEF LogInv, OthersWritten, Written
      <3> QED
        BY <3>1, <3>2
    <2>3. PICK j \in 1..Len(log) : TextOf(log[j], id) /\ log[j].size = said.entries[id]
      BY <2>2 DEF Longest
    <2> QED
      BY <2>3 DEF TextOf, IsEntry, EntryKinds
  <1> QED
    BY <1>1, <1>2, <1>3

\* A read of the last lines behind the cursor covers all lines, if what is
\* before the cursor is covered.
LEMMA MergedCovers ==
    ASSUME LogInv, SayInv, NEW n \in Nat, NEW lines, NEW c \in Nat, NEW v \in [Ids -> Nat],
           n <= Len(log), lines \subseteq 1..n,
           \A k \in LastOfEntries(1..n) : k > c => k \in lines,
           \A k \in 1..n : IsEntry(log[k]) /\ k <= c => v[log[k].id] >= log[k].size,
           NEW i \in 1..n, IsEntry(log[i])
    PROVE  EntriesAfter(v, BehindCursor(lines, c))[log[i].id] >= log[i].size
  <1> DEFINE B == BehindCursor(lines, c)
             id == log[i].id
  <1>0. Len(log) \in Nat /\ \A j \in 1..n : j \in 1..Len(log)
    BY LinesAre
  <1>1. \A j \in 1..n : log[j].size \in Nat /\ log[j].id \in Ids
    BY <1>0, LinesAre
  <1>2. PICK k \in LastOfEntries(1..n) : log[k].id = id /\ i <= k
    BY LastLine
  <1>3. /\ k \in 1..n /\ IsEntry(log[k])
        /\ \A j \in 1..n : IsEntry(log[j]) /\ log[j].id = id => j <= k
    BY <1>2 DEF LastOfEntries, IsEntry
  <1>4. log[k].size >= log[i].size
    <2>1. CASE i = k
      BY <2>1, <1>1
    <2>2. CASE i < k
      <3>1. log[i].size <= log[k].size
        BY <1>0, <1>2, <1>3, <2>2 DEF SayInv, LogSizes
      <3> QED
        BY <3>1, <1>1, <1>3
    <2> QED
      BY <1>2, <1>3, <2>1, <2>2
  <1>6. \A j \in B : j \in 1..n /\ IsEntry(log[j]) /\ j > c
    BY DEF BehindCursor, LastOfEntries, IsEntry
  <1>7. CASE k > c
    <2>1. k \in B
      BY <1>2, <1>3, <1>7 DEF BehindCursor, LastOfEntries, IsEntry
    <2>2. EntriesAfter(v, B)[id] = log[k].size
      <3>1. PICK a \in Ids : a = id
        BY <1>1
      <3>2. log[k].id = a
        BY <1>2, <3>1
      <3>3. ASSUME NEW j \in B, log[j].id = a
            PROVE  j = k
        <4>1. j <= k
          BY <1>3, <1>6, <3>1, <3>3
        <4>2. k <= j
          <5>1. j \in LastOfEntries(lines) /\ k \in lines
            BY <2>1 DEF BehindCursor, LastOfEntries
          <5> QED
            BY <1>3, <3>2, <3>3, <5>1 DEF LastOfEntries, IsEntry
        <4>3. j \in Nat /\ k \in Nat
          BY <1>3, <1>6
        <4> QED
          BY <4>1, <4>2, <4>3
      <3> HIDE DEF B
      <3>4. EntriesAfter(v, B)[a] = log[k].size
        BY <2>1, <3>2, <3>3, MergedEntry
      <3> QED
        BY <3>1, <3>4
    <2> QED
      BY <2>2, <1>4
  <1>8. CASE ~(k > c)
    <2>1. \A j \in B : log[j].id # id
      <3> SUFFICES ASSUME NEW j \in B, log[j].id = id
                   PROVE  FALSE
        OBVIOUS
      <3>1. j \in 1..n /\ j > c /\ j <= k
        BY <1>3, <1>6
      <3> QED
        BY <3>1, <1>3, <1>8
    <2>2. EntriesAfter(v, B)[id] = v[id]
      BY <1>1, <2>1, UnmergedEntry
    <2>3. v[id] >= log[k].size
      BY <1>2, <1>3, <1>8
    <2>4. v[id] \in Nat
      BY <1>1
    <2> QED
      BY <2>2, <2>3, <2>4, <1>1, <1>3, <1>4
  <1> QED
    BY <1>7, <1>8

\* What the read that is answered finds.
LEMMA ReadFinds ==
    ASSUME LogInv, SayInv, Read
    PROVE  \E lines : /\ lines = WindowStart(Len(log))..Len(log) /\ lines \subseteq 1..Len(log)
                      /\ LinesRead' = lines
                      /\ Seen' = EntriesAfter(view.entries, BehindCursor(lines, view.cursor))
                      /\ SeenAsks' = IF Quiet(lines) THEN {} ELSE AsksIn(lines)
                      /\ LastOfEntries(1..reply.upto)' = LastOfEntries(1..Len(log))
                      /\ reply'.upto = Len(log) /\ reply'.at = said.count
                      /\ odd' = odd \cup LeavesOut(lines)
                      /\ phase' = "answered"
                      /\ UNCHANGED <<log, pending, mail, view, queue, said>>
  <1>1. PICK n \in Nat : n = Len(log)
    BY LinesAre
  <1>2. PICK lines : lines = WindowStart(n)..n
    OBVIOUS
  <1>3. /\ reply' = [upto |-> n, at |-> said.count, quiet |-> Quiet(lines)]
        /\ odd' = odd \cup LeavesOut(lines) /\ phase' = "answered"
        /\ UNCHANGED <<log, pending, mail, view, queue, said>>
    BY <1>1, <1>2 DEF Read
  <1>4. lines \subseteq 1..n
    <2>1. WindowStart(n) \in Nat /\ 1 <= WindowStart(n)
      BY WindowBegins
    <2> QED
      BY <2>1, <1>2
  <1>5. reply'.upto = n /\ reply'.at = said.count /\ reply'.quiet = Quiet(lines)
    BY <1>3
  <1>6. WindowStart(n)' = WindowStart(n)
    BY <1>3 DEF WindowStart, ToolLines
  <1>7. LinesRead' = lines
    BY <1>2, <1>5, <1>6 DEF LinesRead
  <1>8. PICK c : c = view.cursor
    OBVIOUS
  <1>9. LastOfEntries(lines)' = LastOfEntries(lines) /\ LastOfEntries(1..n)' = LastOfEntries(1..n)
    BY <1>3 DEF LastOfEntries
  <1>10. PICK B : B = BehindCursor(lines, c)
    OBVIOUS
  <1>11. BehindCursor(lines, c)' = B
    BY <1>9, <1>10 DEF BehindCursor
  <1>12. Behind' = B
    BY <1>3, <1>7, <1>8, <1>11 DEF Behind
  <1>13. PICK v : v = view.entries
    OBVIOUS
  <1>14. EntriesAfter(v, B)' = EntriesAfter(v, B)
    BY <1>3 DEF EntriesAfter
  <1>15. Seen' = EntriesAfter(v, B)
    BY <1>3, <1>12, <1>13, <1>14 DEF Seen, Merged
  <1>16. AsksIn(lines)' = AsksIn(lines)
    BY <1>3 DEF AsksIn
  <1>17. SeenAsks' = IF Quiet(lines) THEN {} ELSE AsksIn(lines)
    BY <1>3, <1>5, <1>7, <1>16 DEF SeenAsks
  <1>18. LastOfEntries(1..reply.upto)' = LastOfEntries(1..n)
    BY <1>5, <1>9
  <1> QED
    BY <1>1, <1>2, <1>3, <1>4, <1>5, <1>7, <1>8, <1>10, <1>13, <1>15, <1>17, <1>18

LEMMA ReadKeepsView ==
    ASSUME LogInv, SayInv, WayInv, ViewInv, Read
    PROVE  ViewInv'
  <1>0. PICK lines : /\ lines = WindowStart(Len(log))..Len(log) /\ lines \subseteq 1..Len(log)
                     /\ LinesRead' = lines
                     /\ Seen' = EntriesAfter(view.entries, BehindCursor(lines, view.cursor))
                     /\ SeenAsks' = IF Quiet(lines) THEN {} ELSE AsksIn(lines)
                     /\ LastOfEntries(1..reply.upto)' = LastOfEntries(1..Len(log))
                     /\ reply'.upto = Len(log) /\ reply'.at = said.count
                     /\ odd' = odd \cup LeavesOut(lines)
                     /\ phase' = "answered"
                     /\ UNCHANGED <<log, pending, mail, view, queue, said>>
    BY ReadFinds
  <1>n. PICK n \in Nat : n = Len(log)
    BY LinesAre
  <1>1. DOMAIN log = 1..n
    BY <1>n, LinesAre
  <1>2. \A i \in 1..n : log[i].size \in Nat /\ log[i].id \in Ids
    BY <1>n, LinesAre
  <1>c. PICK c \in Nat : c = view.cursor
    BY DEF WayInv, WayTyped, Views
  <1>v. PICK v \in [Ids -> Nat] : v = view.entries
    BY DEF WayInv, WayTyped, Views, EntryTypes
  <1>B. PICK B : B = BehindCursor(lines, c)
    OBVIOUS
  <1>3. Seen' = EntriesAfter(v, B)
    BY <1>0, <1>c, <1>v, <1>B
  <1>4. /\ EntriesSound' => EntriesSound /\ "window" \notin odd' /\ "unflushed" \notin odd'
        /\ AsksSound' => "window" \notin odd' /\ "quiet" \notin odd'
        /\ odd' = {} => "unflushed" \notin odd' /\ "cut" \notin odd
    BY <1>0 DEF EntriesSound, AsksSound, Orderly, Deviations
  <1>5. "window" \notin odd' => /\ \A i \in LastOfEntries(1..n) : i > c => i \in lines
                                /\ AsksIn(lines) = AsksIn(1..n)
    BY <1>0, <1>1, <1>c DEF LeavesOut
  <1>6. "unflushed" \notin odd' /\ pending.size > pending.persisted =>
          v[pending.id] = pending.size /\ \A i \in B : log[i].id # pending.id
    BY <1>0, <1>c, <1>v, <1>B DEF LeavesOut
  <1>7. Covered'
    <2> SUFFICES ASSUME EntriesSound'
                 PROVE  LinesCovered' /\ OrderCovered' /\ TextCovered'
      BY DEF Covered
    <2>1. \A k \in 1..n : IsEntry(log[k]) /\ k <= c => v[log[k].id] >= log[k].size
      BY <1>1, <1>4, <1>c, <1>v DEF ViewInv, CursorCovers, EntriesSound, IsEntry
    <2>2. \A k \in LastOfEntries(1..n) : k > c => k \in lines
      BY <1>4, <1>5
    <2>3. ASSUME NEW i \in 1..n, IsEntry(log[i])
          PROVE  EntriesAfter(v, B)[log[i].id] >= log[i].size
      <3>1. lines \subseteq 1..n /\ n <= Len(log)
        BY <1>0, <1>n
      <3>2. EntriesAfter(v, BehindCursor(lines, c))[log[i].id] >= log[i].size
        BY <2>1, <2>2, <2>3, <3>1, MergedCovers
      <3> QED
        BY <3>2, <1>B
    <2>4. LinesCovered' /\ OrderCovered'
      BY <2>3, <1>0, <1>3, <1>n DEF LinesCovered, OrderCovered, Reached, ReachedBy
    <2>5. pending.id # 0 => Seen'[pending.id] >= pending.size
      <3> SUFFICES ASSUME pending.id # 0
                   PROVE  EntriesAfter(v, B)[pending.id] >= pending.size
        BY <1>3
      <3>1. /\ pending.id \in Ids /\ Longest(log, pending.id, pending.persisted)
            /\ pending.size \in Nat /\ pending.persisted \in Nat
        BY DEF LogInv, HeldBack, FeedTyped
      <3>2. CASE pending.size > pending.persisted
        <4>1. v[pending.id] = pending.size /\ \A i \in B : log[i].id # pending.id
          BY <3>2, <1>4, <1>6
        <4>2. EntriesAfter(v, B)[pending.id] = pending.size
          BY <3>1, <4>1, UnmergedEntry
        <4> QED
          BY <3>1, <4>2
      <3>3. CASE ~(pending.size > pending.persisted)
        <4>1. PICK i \in 1..n : TextOf(log[i], pending.id) /\ log[i].size = pending.persisted
          BY <3>1, <1>n DEF Longest
        <4>2. IsEntry(log[i]) /\ log[i].id = pending.id
          BY <4>1 DEF TextOf, IsEntry, EntryKinds
        <4>3. EntriesAfter(v, B)[pending.id] >= pending.persisted
          BY <2>3, <4>1, <4>2
        <4>4. EntriesAfter(v, B)[pending.id] \in Nat
          <5>1. CASE \A j \in B : log[j].id # pending.id
            <6>1. EntriesAfter(v, B)[pending.id] = v[pending.id]
              BY <3>1, <5>1, UnmergedEntry
            <6> QED
              BY <3>1, <6>1
          <5>2. CASE ~ \A j \in B : log[j].id # pending.id
            <6>1. \A j \in B : j \in 1..n
              BY <1>0, <1>n, <1>B DEF BehindCursor, LastOfEntries
            <6>2. (CHOOSE j \in B : log[j].id = pending.id) \in B
              BY <5>2
            <6>3. EntriesAfter(v, B)[pending.id] = log[CHOOSE j \in B : log[j].id = pending.id].size
              BY <3>1, <5>2 DEF EntriesAfter
            <6> QED
              BY <6>1, <6>2, <6>3, <1>2
          <5> QED
            BY <5>1, <5>2
        <4> QED
          BY <3>1, <3>3, <4>3, <4>4
      <3> QED
        BY <3>2, <3>3
    <2>6. TextCovered'
      BY <2>5, <1>0 DEF TextCovered, Reached
    <2> QED
      BY <2>4, <2>6
  <1>8. InWindow'
    <2> SUFFICES ASSUME EntriesSound', NEW i \in LastOfEntries(1..n), i > c
                 PROVE  i \in lines
      BY <1>0, <1>c, <1>n DEF InWindow
    <2> QED
      BY <1>4, <1>5
  <1>9. Forward'
    <2> SUFFICES ASSUME odd' = {}, NEW id \in Ids
                 PROVE  EntriesAfter(v, B)[id] >= v[id]
      BY <1>0, <1>3, <1>v DEF Forward
    <2>1. v[id] \in Nat
      OBVIOUS
    <2>2. CASE \A j \in B : log[j].id # id
      <3>1. EntriesAfter(v, B)[id] = v[id]
        BY <2>2, UnmergedEntry
      <3> QED
        BY <3>1, <2>1
    <2>3. CASE \E j \in B : log[j].id = id
      <3>1. PICK j \in B : log[j].id = id
        BY <2>3
      <3>2. j \in lines /\ j \in 1..n /\ IsEntry(log[j]) /\ j \in LastOfEntries(lines)
        BY <1>0, <1>n, <1>B DEF BehindCursor, LastOfEntries, IsEntry
      <3>3. PICK k \in LastOfEntries(1..n) : log[k].id = id /\ j <= k
        BY <3>1, <3>2, LastLine
      <3>4. k \in 1..n /\ IsEntry(log[k]) /\ \A i \in 1..n : IsEntry(log[i]) /\ log[i].id = id => i <= k
        BY <3>3 DEF LastOfEntries, IsEntry
      <3>5. k \in lines
        BY <1>0, <1>n, <3>2, <3>3, <3>4, WindowBegins
      <3>6. k = j
        <4>1. k <= j
          BY <3>1, <3>2, <3>3, <3>4, <3>5 DEF LastOfEntries, IsEntry
        <4> QED
          BY <3>2, <3>3, <3>4, <4>1
      <3>7. \A i \in B : log[i].id = id => i = j
        <4> SUFFICES ASSUME NEW i \in B, log[i].id = id
                     PROVE  i = j
          OBVIOUS
        <4>1. i \in LastOfEntries(lines) /\ i \in 1..n /\ IsEntry(log[i]) /\ i \in lines
          BY <1>0, <1>n, <1>B DEF BehindCursor, LastOfEntries, IsEntry
        <4>2. i <= j /\ j <= i
          BY <3>1, <3>2, <4>1 DEF LastOfEntries, IsEntry
        <4> QED
          BY <3>2, <4>1, <4>2
      <3>8. EntriesAfter(v, B)[id] = log[j].size
        BY <3>1, <3>7, MergedEntry
      <3>9. said.entries[id] \in Nat /\ v[id] <= said.entries[id]
        BY <1>v DEF WayInv, WaySizes, LogInv, FeedTyped, SaidTypes, EntryTypes
      <3>10. CASE said.entries[id] = 0
        <4>1. log[j].size \in Nat
          BY <3>2, <1>2
        <4> QED
          BY <3>8, <3>9, <3>10, <4>1, <2>1
      <3>11. CASE said.entries[id] # 0
        <4>1. id = pending.id => pending.size <= pending.persisted
          <5>1. id = pending.id => ~(pending.size > pending.persisted)
            BY <3>1, <1>4, <1>6
          <5>2. pending.size \in Nat /\ pending.persisted \in Nat
            BY DEF LogInv, FeedTyped
          <5> QED
            BY <5>1, <5>2
        <4>2. PICK i \in 1..n : IsEntry(log[i]) /\ log[i].id = id /\ log[i].size = said.entries[id]
          BY <3>11, <4>1, <1>4, <1>n, LogComplete
        <4>3. i <= j
          BY <3>4, <3>6, <4>2
        <4>4. log[i].size <= log[j].size
          <5>1. CASE i = j
            BY <5>1, <1>2
          <5>2. CASE i < j
            BY <5>2, <4>2, <3>1, <3>2, <1>n DEF SayInv, LogSizes
          <5> QED
            BY <4>3, <3>2, <5>1, <5>2
        <4>5. log[j].size \in Nat
          BY <3>2, <1>2
        <4> QED
          BY <3>8, <3>9, <4>2, <4>4, <4>5, <2>1
      <3> QED
        BY <3>10, <3>11
    <2> QED
      BY <2>2, <2>3
  <1>10. AsksCovered'
    <2> SUFFICES ASSUME AsksSound'
                 PROVE  AsksArrive' /\ AsksLeave'
      BY DEF AsksCovered
    <2>1. AsksIn(lines) = said.asks
      BY <1>4, <1>5, <1>n DEF SayInv, AsksLogged
    <2>2. ~(Quiet(lines) /\ AsksIn(lines) # {})
      BY <1>0, <1>4 DEF LeavesOut
    <2>3. SeenAsks' = said.asks
      BY <1>0, <2>1, <2>2
    <2>4. queue' = <<>>
      <3>1. phase # "live"
        BY DEF Read
      <3> QED
        BY <1>0, <3>1 DEF WayInv, WayNumbers
    <2>5. \A id : ~QueuedAsk(id)'
      <3>1. Len(queue') = 0
        BY <2>4, EmptySeq
      <3>2. \A p : p \notin 1..0
        OBVIOUS
      <3> QED
        BY <3>1, <3>2 DEF QueuedAsk
    <2> QED
      BY <1>0, <2>3, <2>5 DEF AsksArrive, AsksLeave
  <1>11. CursorCovers'
    <2>1. odd \subseteq odd' /\ UNCHANGED <<log, view>>
      BY <1>0
    <2> QED
      BY <2>1, CursorStays DEF ViewInv
  <1> QED
    BY <1>7, <1>8, <1>9, <1>10, <1>11 DEF ViewInv

\* What the view shows once the answer is applied.
LEMMA Applied ==
    ASSUME LogInv, SayInv, WayInv, Apply
    PROVE  /\ phase = "answered" /\ phase' = "applied"
           /\ UNCHANGED <<log, pending, mail, reply, queue, said, odd>>
           /\ view'.entries = Merged /\ view'.asks = SeenAsks
           /\ view'.cursor = CursorAfter(view.cursor, Behind)
           /\ view'.cursor \in Nat /\ view'.cursor <= Len(log)
           /\ view' \in Views
           /\ \A id \in Ids : Merged[id] <= said.entries[id]
           /\ Behind \subseteq 1..reply.upto
  <1>1. /\ phase = "answered" /\ phase' = "applied"
        /\ UNCHANGED <<log, pending, mail, reply, queue, said, odd>>
        /\ view' = [entries |-> Merged, asks |-> IF reply.quiet THEN {} ELSE AsksIn(LinesRead),
                    cursor |-> CursorAfter(view.cursor, Behind), initialized |-> TRUE]
    BY DEF Apply, AppliedTo, Behind, Merged
  <1>2. PICK n \in Nat : n = reply.upto
    BY DEF WayInv, WayTyped
  <1>3. /\ Len(log) \in Nat /\ n <= Len(log)
        /\ \A i \in 1..Len(log) : log[i].size \in Nat /\ log[i].id \in Ids
    BY <1>2, LinesAre DEF WayInv, WayNumbers
  <1>4. LinesRead \subseteq 1..n
    BY <1>2, LinesExist
  <1>5. \A i \in 1..n : /\ i \in 1..Len(log) /\ log[i].size \in Nat /\ log[i].id \in Ids
                        /\ IsEntry(log[i]) => log[i].size <= said.entries[log[i].id]
    BY <1>3 DEF SayInv, LogSizes
  <1>6. PICK B : B = Behind
    OBVIOUS
  <1>7. B \subseteq 1..n /\ \A j \in B : IsEntry(log[j])
    BY <1>4, <1>6 DEF Behind, BehindCursor, LastOfEntries, IsEntry
  <1>8. PICK v \in [Ids -> Nat] : v = view.entries
    BY DEF WayInv, WayTyped, Views, EntryTypes
  <1>9. ASSUME NEW id \in Ids
        PROVE  EntriesAfter(v, B)[id] \in Nat /\ EntriesAfter(v, B)[id] <= said.entries[id]
    <2>1. CASE \A j \in B : log[j].id # id
      <3>1. EntriesAfter(v, B)[id] = v[id]
        BY <2>1, UnmergedEntry
      <3> QED
        BY <3>1, <1>8 DEF WayInv, WaySizes
    <2>2. CASE \E j \in B : log[j].id = id
      <3>1. PICK j \in B : j = CHOOSE k \in B : log[k].id = id
        BY <2>2
      <3>2. log[j].id = id
        BY <3>1, <2>2
      <3>3. EntriesAfter(v, B)[id] = log[j].size
        BY <3>1, <2>2 DEF EntriesAfter
      <3> QED
        BY <3>2, <3>3, <1>5, <1>7
    <2> QED
      BY <2>1, <2>2
  <1>10. EntriesAfter(v, B) \in EntryTypes
    <2>1. EntriesAfter(v, B) = [id \in Ids |-> EntriesAfter(v, B)[id]]
      BY DEF EntriesAfter
    <2> QED
      BY <2>1, <1>9 DEF EntryTypes
  <1>11. Merged = EntriesAfter(v, B)
    BY <1>6, <1>8 DEF Merged
  <1>12. SeenAsks = (IF reply.quiet THEN {} ELSE AsksIn(LinesRead))
    BY <1>1 DEF SeenAsks
  <1>13. SeenAsks \in AskTypes
    <2>1. AsksIn(LinesRead) \subseteq Ids
      BY <1>4, <1>5 DEF AsksIn
    <2> QED
      BY <2>1, <1>12 DEF AskTypes
  <1>14. PICK c \in Nat : c = view.cursor
    BY DEF WayInv, WayTyped, Views
  <1>15. CursorAfter(c, B) \in Nat /\ CursorAfter(c, B) <= Len(log)
    <2>1. CursorAfter(c, B) \in {c} \cup B
      BY <1>7, CursorIs
    <2>2. c <= Len(log)
      BY <1>14 DEF WayInv, WayNumbers
    <2>3. \A x \in {c} \cup B : x \in Nat /\ x <= Len(log)
      <3>1. \A x \in 1..n : x \in Nat /\ x <= Len(log)
        BY <1>3
      <3> QED
        BY <3>1, <2>2, <1>7
    <2> QED
      BY <2>1, <2>3
  <1>16. view'.entries = Merged /\ view'.asks = SeenAsks /\ view'.cursor = CursorAfter(c, B)
    BY <1>1, <1>6, <1>12, <1>14
  <1>17. view' \in Views
    BY <1>1, <1>6, <1>10, <1>11, <1>12, <1>13, <1>14, <1>15 DEF Views
  <1> QED
    BY <1>1, <1>2, <1>6, <1>7, <1>9, <1>11, <1>14, <1>15, <1>16, <1>17

LEMMA ApplyKeepsView ==
    ASSUME LogInv, SayInv, WayInv, ViewInv, Apply
    PROVE  ViewInv'
  <1>1. /\ phase = "answered" /\ phase' = "applied"
        /\ UNCHANGED <<log, pending, mail, reply, queue, said, odd>>
        /\ view'.entries = Merged /\ view'.asks = SeenAsks
        /\ view'.cursor = CursorAfter(view.cursor, Behind)
        /\ Behind \subseteq 1..reply.upto
    BY Applied
  <1>2. Seen' = Seen /\ SeenAsks' = SeenAsks
    BY <1>1 DEF Seen, SeenAsks
  <1>3. OnWay' = OnWay /\ Fresh' = Fresh
    BY <1>1 DEF OnWay, Fresh
  <1>4. Following /\ (EntriesSound' <=> EntriesSound) /\ (AsksSound' <=> AsksSound)
    BY <1>1 DEF Following, EntriesSound, AsksSound, Orderly
  <1>5. Covered'
    <2> SUFFICES ASSUME EntriesSound
                 PROVE  LinesCovered' /\ OrderCovered' /\ TextCovered'
      BY <1>4 DEF Covered
    <2>1. LinesCovered /\ OrderCovered /\ TextCovered
      BY <1>4 DEF ViewInv, Covered
    <2>2. LinesCovered' /\ TextCovered'
      BY <1>1, <1>2, <1>3, <2>1 DEF LinesCovered, TextCovered, Reached
    <2>3. OrderCovered'
      BY <1>1, <1>2, <1>3, <2>1 DEF OrderCovered, ReachedBy
    <2> QED
      BY <2>2, <2>3
  <1>6. InWindow' /\ Forward'
    BY <1>1 DEF InWindow, Forward
  <1>7. AsksCovered'
    <2> SUFFICES ASSUME AsksSound
                 PROVE  AsksArrive' /\ AsksLeave'
      BY <1>4 DEF AsksCovered
    <2>1. AsksArrive /\ AsksLeave
      BY <1>4 DEF ViewInv, AsksCovered
    <2>2. \A id : QueuedAsk(id)' <=> QueuedAsk(id)
      BY <1>1 DEF QueuedAsk
    <2> QED
      BY <1>1, <1>2, <1>3, <2>1, <2>2 DEF AsksArrive, AsksLeave
  <1>8. CursorCovers'
    <2> SUFFICES ASSUME EntriesSound, NEW i \in DOMAIN log, IsEntry(log[i]), i <= view'.cursor
                 PROVE  Merged[log[i].id] >= log[i].size
      BY <1>1, <1>4 DEF CursorCovers, EntriesSound, IsEntry
    <2>1. PICK n \in Nat : n = reply.upto
      BY DEF WayInv, WayTyped
    <2>2. PICK c \in Nat : c = view.cursor
      BY DEF WayInv, WayTyped, Views
    <2>3. PICK v \in [Ids -> Nat] : v = view.entries
      BY DEF WayInv, WayTyped, Views, EntryTypes
    <2>4. PICK lines : lines = LinesRead
      OBVIOUS
    <2>5. PICK B : B = BehindCursor(lines, c)
      OBVIOUS
    <2>6. Behind = B /\ Merged = EntriesAfter(v, B) /\ B \subseteq 1..n
      BY <1>1, <2>1, <2>2, <2>3, <2>4, <2>5 DEF Behind, Merged
    <2>7. /\ Len(log) \in Nat /\ DOMAIN log = 1..Len(log) /\ n <= Len(log)
          /\ log[i].id \in Ids /\ log[i].size \in Nat /\ i \in 1..Len(log)
      BY <2>1, LinesAre DEF WayInv, WayNumbers
    <2>8. \A k \in 1..Len(log) : IsEntry(log[k]) /\ k <= c => v[log[k].id] >= log[k].size
      BY <2>2, <2>3, <2>7 DEF ViewInv, CursorCovers, EntriesSound, IsEntry
    <2>9. CASE i <= n
      <3>1. \A k \in LastOfEntries(1..n) : k > c => k \in lines
        BY <1>1, <2>1, <2>2, <2>4 DEF ViewInv, InWindow
      <3>2. lines \subseteq 1..n
        BY <2>1, <2>4, LinesExist
      <3>3. i \in 1..n /\ \A k \in 1..n : k \in 1..Len(log)
        BY <2>7, <2>9
      <3>4. \A k \in 1..n : IsEntry(log[k]) /\ k <= c => v[log[k].id] >= log[k].size
        BY <2>8, <3>3
      <3>5. EntriesAfter(v, BehindCursor(lines, c))[log[i].id] >= log[i].size
        BY <2>7, <3>1, <3>2, <3>3, <3>4, MergedCovers
      <3> QED
        BY <3>5, <2>5, <2>6
    <2>10. CASE ~(i <= n)
      <3>1. CursorAfter(c, B) \in {c} \cup B
        BY <2>6, CursorIs
      <3>2. view'.cursor = CursorAfter(c, B)
        BY <1>1, <2>2, <2>6
      <3>3. i <= c
        <4>1. \A x \in B : ~(i <= x)
          BY <2>6, <2>7, <2>10
        <4> QED
          BY <3>1, <3>2, <4>1
      <3>4. \A j \in B : j > c
        BY <2>5 DEF BehindCursor
      <3>5. \A j \in B : FALSE
        BY <3>3, <3>4, <2>6, <2>7, <2>10
      <3>6. EntriesAfter(v, B)[log[i].id] = v[log[i].id]
        BY <3>5, <2>7, UnmergedEntry
      <3> QED
        BY <3>3, <3>6, <2>6, <2>7, <2>8
    <2> QED
      BY <2>9, <2>10
  <1> QED
    BY <1>5, <1>6, <1>7, <1>8 DEF ViewInv

(***************************************************************************)
(* The frame.                                                              *)
(***************************************************************************)
IsAbout(e, kind, id) == e.kind = kind /\ e.id = id

\* What is shown comes from before or from one of the first n events.
Stems(v, w, events, n) ==
    /\ w \in Views
    /\ \A id \in Ids :
         \/ w.entries[id] = v.entries[id]
         \/ \E p \in 1..n : IsEntry(events[p]) /\ events[p].id = id /\ events[p].size = w.entries[id]
    /\ w.cursor = v.cursor \/ \E p \in 1..n : IsEntry(events[p]) /\ events[p].line = w.cursor

\* Each entry is at least as long as before and as in each of them.
Grows(v, w, events, n) ==
    \A id \in Ids :
        /\ w.entries[id] >= v.entries[id]
        /\ \A p \in 1..n : IsEntry(events[p]) /\ events[p].id = id => w.entries[id] >= events[p].size

\* The requests: those of before and of the events, until they are answered.
Asked(v, w, events, n) ==
    \A id \in Ids :
        /\ id \in w.asks =>
             /\ id \in v.asks \/ \E p \in 1..n : IsAbout(events[p], "ask", id)
             /\ \A p \in 1..n : IsAbout(events[p], "answer", id) =>
                  \E q \in 1..n : p < q /\ IsAbout(events[q], "ask", id)
        /\ id \in v.asks \/ (\E p \in 1..n : IsAbout(events[p], "ask", id)) =>
             id \in w.asks \/ \E p \in 1..n : IsAbout(events[p], "answer", id)

\* The events of an entry come in the order of their sizes.
Ascending(v, events, n) ==
    /\ \A p \in 1..n : IsEntry(events[p]) => v.entries[events[p].id] <= events[p].size
    /\ \A p, q \in 1..n :
         p < q /\ IsEntry(events[p]) /\ IsEntry(events[q]) /\ events[p].id = events[q].id =>
            events[p].size <= events[q].size

LEMMA ViewTyped ==
    ASSUME NEW v \in Views
    PROVE  v.entries \in [Ids -> Nat] /\ v.asks \subseteq Ids /\ v.cursor \in Nat
  BY DEF Views, EntryTypes, AskTypes

\* One more event.
LEMMA StemsOn ==
    ASSUME NEW v \in Views, NEW w \in Views, NEW events, NEW n \in Nat,
           events[n + 1] \in Events, Stems(v, w, events, n)
    PROVE  Stems(v, AfterEvent(w, events[n + 1]), events, n + 1)
  <1>1. PICK e \in Events : e = events[n + 1]
    OBVIOUS
  <1>2. PICK x : x = AfterEvent(w, e)
    OBVIOUS
  <1>3. /\ x \in Views
        /\ \A id \in Ids : x.entries[id] = IF IsEntry(e) /\ e.id = id THEN e.size ELSE w.entries[id]
        /\ x.cursor = IF IsEntry(e) /\ e.line > w.cursor THEN e.line ELSE w.cursor
    BY <1>2, AfterFacts DEF IsEntry
  <1>4. n + 1 \in 1..(n + 1) /\ \A p \in 1..n : p \in 1..(n + 1)
    OBVIOUS
  <1>5. ASSUME NEW id \in Ids
        PROVE  \/ x.entries[id] = v.entries[id]
               \/ \E p \in 1..(n + 1) : IsEntry(events[p]) /\ events[p].id = id /\ events[p].size = x.entries[id]
    <2>1. CASE IsEntry(e) /\ e.id = id
      BY <2>1, <1>1, <1>3, <1>4
    <2>2. CASE ~(IsEntry(e) /\ e.id = id)
      <3>1. x.entries[id] = w.entries[id]
        BY <2>2, <1>3
      <3> QED
        BY <3>1, <1>4 DEF Stems
    <2> QED
      BY <2>1, <2>2
  <1>6. x.cursor = v.cursor \/ \E p \in 1..(n + 1) : IsEntry(events[p]) /\ events[p].line = x.cursor
    <2>1. CASE IsEntry(e) /\ e.line > w.cursor
      BY <2>1, <1>1, <1>3, <1>4
    <2>2. CASE ~(IsEntry(e) /\ e.line > w.cursor)
      <3>1. x.cursor = w.cursor
        BY <2>2, <1>3
      <3> QED
        BY <3>1, <1>4 DEF Stems
    <2> QED
      BY <2>1, <2>2
  <1>7. Stems(v, x, events, n + 1)
    BY <1>3, <1>5, <1>6 DEF Stems
  <1> QED
    BY <1>1, <1>2, <1>7

LEMMA GrowsOn ==
    ASSUME NEW v \in Views, NEW w \in Views, NEW events, NEW n \in Nat,
           \A p \in 1..(n + 1) : events[p] \in Events,
           Ascending(v, events, n + 1), Grows(v, w, events, n)
    PROVE  Grows(v, AfterEvent(w, events[n + 1]), events, n + 1)
  <1>0. n + 1 \in 1..(n + 1) /\ 1..(n + 1) = 1..n \cup {n + 1} /\ \A p \in 1..n : p < n + 1
    OBVIOUS
  <1>1. PICK e \in Events : e = events[n + 1]
    BY <1>0
  <1>2. PICK x : x = AfterEvent(w, e)
    OBVIOUS
  <1>3. /\ x \in Views
        /\ \A id \in Ids : x.entries[id] = IF IsEntry(e) /\ e.id = id THEN e.size ELSE w.entries[id]
    BY <1>2, AfterFacts DEF IsEntry
  <1>4. e.size \in Nat /\ \A p \in 1..n : events[p].size \in Nat
    BY <1>0, <1>1 DEF Events, Posts
  <1>5. v.entries \in [Ids -> Nat] /\ w.entries \in [Ids -> Nat]
    BY ViewTyped
  <1>6. ASSUME NEW id \in Ids
        PROVE  /\ x.entries[id] >= v.entries[id]
               /\ \A p \in 1..(n + 1) : IsEntry(events[p]) /\ events[p].id = id => x.entries[id] >= events[p].size
    <2>1. CASE IsEntry(e) /\ e.id = id
      <3>1. x.entries[id] = e.size
        BY <2>1, <1>3
      <3>2. v.entries[id] <= e.size
        BY <2>1, <1>0, <1>1 DEF Ascending
      <3>3. \A p \in 1..n : IsEntry(events[p]) /\ events[p].id = id => events[p].size <= e.size
        BY <2>1, <1>0, <1>1 DEF Ascending
      <3>4. \A p \in 1..n : IsEntry(events[p]) /\ events[p].id = id => e.size >= events[p].size
        BY <3>3, <1>4
      <3>5. e.size >= events[n + 1].size /\ e.size >= v.entries[id]
        BY <3>2, <1>1, <1>4, <1>5
      <3> QED
        BY <3>1, <3>4, <3>5, <1>0
    <2>2. CASE ~(IsEntry(e) /\ e.id = id)
      <3>1. x.entries[id] = w.entries[id]
        BY <2>2, <1>3
      <3>2. ~(IsEntry(events[n + 1]) /\ events[n + 1].id = id)
        BY <2>2, <1>1
      <3> QED
        BY <3>1, <3>2, <1>0 DEF Grows
    <2> QED
      BY <2>1, <2>2
  <1>7. Grows(v, x, events, n + 1)
    BY <1>6 DEF Grows
  <1> QED
    BY <1>1, <1>2, <1>7

LEMMA AskedOn ==
    ASSUME NEW v \in Views, NEW w \in Views, NEW events, NEW n \in Nat,
           events[n + 1] \in Events, Asked(v, w, events, n)
    PROVE  Asked(v, AfterEvent(w, events[n + 1]), events, n + 1)
  <1>0. n + 1 \in 1..(n + 1) /\ 1..(n + 1) = 1..n \cup {n + 1} /\ \A p \in 1..n : p < n + 1
    OBVIOUS
  <1>1. PICK e \in Events : e = events[n + 1]
    OBVIOUS
  <1>2. PICK x : x = AfterEvent(w, e)
    OBVIOUS
  <1>3. x.asks = IF e.kind = "ask" THEN w.asks \cup {e.id}
                 ELSE IF e.kind = "answer" THEN w.asks \ {e.id} ELSE w.asks
    BY <1>2, AfterFacts
  <1>4. ASSUME NEW id \in Ids
        PROVE  /\ id \in x.asks =>
                    /\ id \in v.asks \/ \E p \in 1..(n + 1) : IsAbout(events[p], "ask", id)
                    /\ \A p \in 1..(n + 1) : IsAbout(events[p], "answer", id) =>
                         \E q \in 1..(n + 1) : p < q /\ IsAbout(events[q], "ask", id)
               /\ id \in v.asks \/ (\E p \in 1..(n + 1) : IsAbout(events[p], "ask", id)) =>
                    id \in x.asks \/ \E p \in 1..(n + 1) : IsAbout(events[p], "answer", id)
    <2>0. /\ id \in w.asks =>
               /\ id \in v.asks \/ \E p \in 1..n : IsAbout(events[p], "ask", id)
               /\ \A p \in 1..n : IsAbout(events[p], "answer", id) =>
                    \E q \in 1..n : p < q /\ IsAbout(events[q], "ask", id)
          /\ id \in v.asks \/ (\E p \in 1..n : IsAbout(events[p], "ask", id)) =>
               id \in w.asks \/ \E p \in 1..n : IsAbout(events[p], "answer", id)
      BY DEF Asked
    <2>1. CASE IsAbout(e, "ask", id)
      <3>1. id \in x.asks /\ IsAbout(events[n + 1], "ask", id) /\ ~IsAbout(events[n + 1], "answer", id)
        BY <2>1, <1>1, <1>3 DEF IsAbout
      <3> QED
        BY <3>1, <1>0
    <2>2. CASE IsAbout(e, "answer", id)
      <3>1. id \notin x.asks /\ IsAbout(events[n + 1], "answer", id)
        BY <2>2, <1>1, <1>3 DEF IsAbout
      <3> QED
        BY <3>1, <1>0
    <2>3. CASE ~IsAbout(e, "ask", id) /\ ~IsAbout(e, "answer", id)
      <3>1. id \in x.asks <=> id \in w.asks
        BY <2>3, <1>3 DEF IsAbout
      <3>2. ~IsAbout(events[n + 1], "ask", id) /\ ~IsAbout(events[n + 1], "answer", id)
        BY <2>3, <1>1
      <3> QED
        BY <3>1, <3>2, <2>0, <1>0
    <2> QED
      BY <2>1, <2>2, <2>3
  <1>5. Asked(v, x, events, n + 1)
    BY <1>4 DEF Asked
  <1> QED
    BY <1>1, <1>2, <1>5

\* What a frame makes of the view, whatever its events are.
LEMMA FrameIs ==
    ASSUME NEW v \in Views, NEW events \in Seq(Events)
    PROVE  LET w == AllApplied(v, events)
               N == Len(events)
           IN  /\ Stems(v, w, events, N) /\ Asked(v, w, events, N)
               /\ Ascending(v, events, N) => Grows(v, w, events, N)
  <1>1. PICK N \in Nat : N = Len(events)
    BY LenProperties
  <1>2. \A p \in 1..N : events[p] \in Events
    BY <1>1, ElementOfSeq
  <1>3. PICK f : /\ f[0] = v
                 /\ \A n \in 1..N : f[n] = AfterEvent(f[n - 1], events[n])
                 /\ AllApplied(v, events) = f[N]
    BY <1>1, AppliedStepwise
  <1> DEFINE Good(n) == /\ Stems(v, f[n], events, n) /\ Asked(v, f[n], events, n)
                        /\ Ascending(v, events, n) => Grows(v, f[n], events, n)
             T == {n \in 0..N : ~Good(n)}
  <1>4. Good(0)
    <2>1. \A p : p \notin 1..0
      OBVIOUS
    <2>2. v.entries \in [Ids -> Nat]
      BY ViewTyped
    <2>3. Stems(v, v, events, 0)
      BY DEF Stems
    <2>4. Asked(v, v, events, 0)
      BY <2>1 DEF Asked
    <2>5. Grows(v, v, events, 0)
      BY <2>1, <2>2 DEF Grows
    <2> QED
      BY <1>3, <2>3, <2>4, <2>5
  <1>5. ASSUME NEW n \in Nat, n + 1 \in 1..N, Good(n)
        PROVE  Good(n + 1)
    <2>1. f[n + 1] = AfterEvent(f[n], events[n + 1])
      <3>1. f[n + 1] = AfterEvent(f[(n + 1) - 1], events[n + 1])
        BY <1>3, <1>5
      <3>2. (n + 1) - 1 = n
        OBVIOUS
      <3> QED
        BY <3>1, <3>2
    <2>2. PICK w : w = f[n]
      OBVIOUS
    <2>3. Stems(v, w, events, n) /\ Asked(v, w, events, n) /\ w \in Views
      BY <1>5, <2>2 DEF Stems
    <2>4. events[n + 1] \in Events /\ \A p \in 1..(n + 1) : events[p] \in Events
      <3>1. \A p \in 1..(n + 1) : p \in 1..N
        BY <1>5
      <3> QED
        BY <3>1, <1>2, <1>5
    <2>5. Stems(v, AfterEvent(w, events[n + 1]), events, n + 1)
      BY <2>3, <2>4, StemsOn
    <2>6. Asked(v, AfterEvent(w, events[n + 1]), events, n + 1)
      BY <2>3, <2>4, AskedOn
    <2>7. ASSUME Ascending(v, events, n + 1)
          PROVE  Grows(v, AfterEvent(w, events[n + 1]), events, n + 1)
      <3>1. Ascending(v, events, n)
        <4>1. \A p \in 1..n : p \in 1..(n + 1)
          OBVIOUS
        <4> QED
          BY <4>1, <2>7 DEF Ascending
      <3>2. Grows(v, w, events, n)
        BY <3>1, <1>5, <2>2
      <3> QED
        BY <2>3, <2>4, <2>7, <3>2, GrowsOn
    <2> QED
      BY <2>1, <2>2, <2>5, <2>6, <2>7
  <1>6. T = {}
    <2> SUFFICES ASSUME T # {}
                 PROVE  FALSE
      OBVIOUS
    <2> HIDE DEF Good
    <2>1. PICK n \in T : \A m \in 0..N : m < n => m \notin T
      <3>1. T \subseteq 0..N
        OBVIOUS
      <3> HIDE DEF T
      <3> QED
        BY <3>1, LeastNat
    <2>2. n \in 0..N /\ n # 0
      BY <1>4, <2>1
    <2>3. n - 1 \in Nat /\ n - 1 \in 0..N /\ n - 1 < n /\ (n - 1) + 1 = n /\ n \in 1..N
      BY <2>2
    <2>4. Good(n - 1)
      BY <2>1, <2>3
    <2>5. Good((n - 1) + 1)
      BY <1>5, <2>3, <2>4
    <2> QED
      BY <2>1, <2>3, <2>5
  <1>7. Good(N)
    <2> HIDE DEF Good
    <2>1. N \in 0..N
      OBVIOUS
    <2> QED
      BY <1>6, <2>1
  <1> QED
    BY <1>1, <1>3, <1>7

\* The frame is applied to the view that is followed live.
LEMMA FrameApplied ==
    ASSUME LogInv, SayInv, WayInv, Flush
    PROVE  /\ phase = "live" /\ queue' = <<>> /\ (\A p : p \notin 1..Len(queue'))
           /\ UNCHANGED <<log, pending, mail, phase, reply, said, odd>>
           /\ Stems(view, view', queue, Len(queue)) /\ Asked(view, view', queue, Len(queue))
           /\ Grows(view, view', queue, Len(queue))
           /\ view \in Views /\ view' \in Views
           /\ \A p \in 1..Len(queue) : queue[p] \in Events /\ queue[p] \in OnWay
           /\ Fresh = OnWay /\ Fresh' = OnWay'
           /\ \A e \in OnWay : e \in OnWay' \/ \E p \in 1..Len(queue) : queue[p] = e
           /\ \A e \in OnWay' : e \in OnWay /\ \E t \in Threads : mail[t] = e /\ mail[t].kind # "none"
  <1>0. WayTyped /\ WayNumbers
    BY DEF WayInv
  <1>1. /\ queue # <<>> /\ queue' = <<>> /\ view' = AllApplied(view, queue)
        /\ UNCHANGED <<log, pending, mail, phase, reply, said, odd>>
    BY DEF Flush
  <1>2. phase = "live" /\ reply.at = 0
    BY <1>0, <1>1 DEF WayNumbers
  <1>3. view \in Views /\ queue \in Seq(Events)
    BY <1>0 DEF WayTyped
  <1>4. Ascending(view, queue, Len(queue))
    BY DEF Ascending, WayInv, WaySizes
  <1>5. /\ Stems(view, view', queue, Len(queue)) /\ Asked(view, view', queue, Len(queue))
        /\ Grows(view, view', queue, Len(queue))
    BY <1>1, <1>3, <1>4, FrameIs
  <1>6. view' \in Views
    BY <1>5 DEF Stems
  <1>7. \A p : p \notin 1..Len(queue')
    <2>1. Len(queue') = 0
      BY <1>1, EmptySeq
    <2>2. \A p : p \notin 1..0
      OBVIOUS
    <2> QED
      BY <2>1, <2>2
  <1>8. /\ \A p \in 1..Len(queue) : queue[p] \in Events /\ queue[p] \in OnWay
        /\ \A t \in Threads : mail[t] \in Events => mail[t].kind # "none"
    BY <1>0, OnWayIs
  <1>9. \A e \in OnWay' : e \in OnWay /\ \E t \in Threads : mail[t] = e /\ mail[t].kind # "none"
    BY <1>1, <1>7, <1>8 DEF OnWay
  <1>10. \A e \in OnWay : e \in OnWay' \/ \E p \in 1..Len(queue) : queue[p] = e
    BY <1>1 DEF OnWay
  <1>11. \A e \in OnWay : e.at > 0
    BY <1>0 DEF WayNumbers
  <1>12. Fresh = OnWay /\ Fresh' = OnWay'
    BY <1>1, <1>2, <1>9, <1>11 DEF Fresh
  <1> QED
    BY <1>1, <1>2, <1>3, <1>5, <1>6, <1>7, <1>8, <1>9, <1>10, <1>12

\* What the frame leaves is no longer than what was said.
LEMMA FlushedTyped ==
    ASSUME LogInv, SayInv, WayInv, Flush
    PROVE  /\ \A id \in Ids : view'.entries[id] <= said.entries[id]
           /\ view'.cursor <= Len(log)
  <1>1. /\ Stems(view, view', queue, Len(queue)) /\ view \in Views
        /\ \A p \in 1..Len(queue) : queue[p] \in Events /\ queue[p] \in OnWay
    BY FrameApplied
  <1>2. ASSUME NEW id \in Ids
        PROVE  view'.entries[id] <= said.entries[id]
    <2>1. CASE view'.entries[id] = view.entries[id]
      BY <2>1 DEF WayInv, WaySizes
    <2>2. CASE \E p \in 1..Len(queue) : IsEntry(queue[p]) /\ queue[p].id = id /\ queue[p].size = view'.entries[id]
      BY <2>2 DEF WayInv, WaySizes
    <2> QED
      BY <1>1, <2>1, <2>2 DEF Stems
  <1>3. view'.cursor <= Len(log)
    <2>1. CASE view'.cursor = view.cursor
      BY <2>1 DEF WayInv, WayNumbers
    <2>2. CASE \E p \in 1..Len(queue) : IsEntry(queue[p]) /\ queue[p].line = view'.cursor
      BY <1>1, <2>2 DEF WayInv, WayNumbers
    <2> QED
      BY <1>1, <2>1, <2>2 DEF Stems
  <1> QED
    BY <1>2, <1>3

\* What was shown or queued is shown, and the rest is still on its way.
LEMMA FlushReaches ==
    ASSUME LogInv, SayInv, WayInv, Flush, NEW id \in Ids, NEW n \in Nat
    PROVE  /\ Reached(id, n) => Reached(id, n)'
           /\ \A f \in OnWay' : ReachedBy(f, id, n) =>
                view'.entries[id] >= n \/ \E e \in OnWay' : e.at <= f.at /\ Brings(e, id, n)
           /\ \A p \in 1..Len(queue) : Brings(queue[p], id, n) => view'.entries[id] >= n
           /\ view.entries[id] >= n => view'.entries[id] >= n
  <1>1. /\ phase = "live" /\ phase' = phase
        /\ Grows(view, view', queue, Len(queue)) /\ view \in Views /\ view' \in Views
        /\ \A p \in 1..Len(queue) : queue[p] \in Events
        /\ Fresh = OnWay /\ Fresh' = OnWay'
        /\ \A e \in OnWay : e \in OnWay' \/ \E p \in 1..Len(queue) : queue[p] = e
    BY FrameApplied
  <1>2. view.entries \in [Ids -> Nat] /\ view'.entries \in [Ids -> Nat]
    BY <1>1, ViewTyped
  <1>3. Seen = view.entries /\ Seen' = view'.entries
    BY <1>1 DEF Seen
  <1>4. view'.entries[id] >= view.entries[id]
    BY <1>1 DEF Grows
  <1>5. view.entries[id] >= n => view'.entries[id] >= n
    BY <1>2, <1>4
  <1>6. ASSUME NEW p \in 1..Len(queue), Brings(queue[p], id, n)
        PROVE  view'.entries[id] >= n
    <2>1. IsEntry(queue[p]) /\ queue[p].id = id /\ queue[p].size >= n /\ queue[p].size \in Nat
      BY <1>1, <1>6 DEF Brings, Events, Posts
    <2>2. view'.entries[id] >= queue[p].size
      BY <1>1, <2>1 DEF Grows
    <2> QED
      BY <2>1, <2>2, <1>2
  <1>7. Reached(id, n) => Reached(id, n)'
    <2>1. CASE Seen[id] >= n
      <3>1. Seen'[id] >= n
        BY <1>3, <1>5, <2>1
      <3> QED
        BY <3>1 DEF Reached
    <2>2. CASE \E e \in Fresh : Brings(e, id, n)
      <3>1. PICK e \in OnWay : Brings(e, id, n)
        BY <1>1, <2>2
      <3>2. CASE e \in OnWay'
        <4>1. \E g \in Fresh' : Brings(g, id, n)
          BY <1>1, <3>1, <3>2
        <4> QED
          BY <4>1 DEF Reached, Brings, IsEntry
      <3>3. CASE e \notin OnWay'
        <4>1. Seen'[id] >= n
          BY <1>1, <1>3, <1>6, <3>1, <3>3
        <4> QED
          BY <4>1 DEF Reached
      <3> QED
        BY <3>2, <3>3
    <2> QED
      BY <2>1, <2>2 DEF Reached
  <1>8. ASSUME NEW f \in OnWay', ReachedBy(f, id, n)
        PROVE  view'.entries[id] >= n \/ \E e \in OnWay' : e.at <= f.at /\ Brings(e, id, n)
    <2>1. CASE Seen[id] >= n
      BY <1>3, <1>5, <2>1
    <2>2. CASE \E e \in Fresh : e.at <= f.at /\ Brings(e, id, n)
      BY <1>1, <1>6, <2>2
    <2> QED
      BY <1>8, <2>1, <2>2 DEF ReachedBy
  <1> QED
    BY <1>5, <1>6, <1>7, <1>8

LEMMA FlushKeepsView ==
    ASSUME LogInv, SayInv, WayInv, ViewInv, Flush
    PROVE  ViewInv'
  <1>0. WayTyped /\ WayNumbers
    BY DEF WayInv
  <1>1. /\ phase = "live" /\ (\A p : p \notin 1..Len(queue'))
        /\ UNCHANGED <<log, pending, mail, phase, reply, said, odd>>
        /\ Stems(view, view', queue, Len(queue)) /\ Asked(view, view', queue, Len(queue))
        /\ \A p \in 1..Len(queue) : queue[p] \in Events /\ queue[p] \in OnWay
        /\ Fresh = OnWay /\ Fresh' = OnWay'
        /\ \A e \in OnWay : e \in OnWay' \/ \E p \in 1..Len(queue) : queue[p] = e
        /\ \A e \in OnWay' : e \in OnWay /\ \E t \in Threads : mail[t] = e /\ mail[t].kind # "none"
    BY FrameApplied
  <1>2. /\ DOMAIN log = 1..Len(log) /\ Len(log) \in Nat
        /\ \A i \in 1..Len(log) : log[i].id \in Ids /\ log[i].size \in Nat
    BY LinesAre
  <1>3. Following /\ (EntriesSound' <=> EntriesSound) /\ (AsksSound' <=> AsksSound) /\ (Following' <=> Following)
    BY <1>1 DEF Following, EntriesSound, AsksSound, Orderly
  <1>4. Seen' = view'.entries /\ SeenAsks' = view'.asks /\ SeenAsks = view.asks /\ Seen = view.entries
    BY <1>1 DEF Seen, SeenAsks
  <1>5. EntriesSound \/ AsksSound => "disorder" \notin odd
    BY DEF EntriesSound, AsksSound, Orderly, Deviations
  <1>6. "disorder" \notin odd =>
          /\ \A p, q \in 1..Len(queue) : p < q => queue[p].at < queue[q].at
          /\ \A p \in 1..Len(queue), t \in Threads : mail[t].kind # "none" => queue[p].at < mail[t].at
    BY DEF WayInv, InOrder
  <1>7. \A e \in OnWay : e.at \in Nat /\ e.id \in Ids
    BY DEF OnWay, Events, Posts
  <1>8. Covered'
    <2> SUFFICES ASSUME EntriesSound
                 PROVE  LinesCovered' /\ OrderCovered' /\ TextCovered'
      BY <1>3 DEF Covered
    <2>1. LinesCovered /\ OrderCovered /\ TextCovered
      BY <1>3 DEF ViewInv, Covered
    <2>2. LinesCovered'
      <3> SUFFICES ASSUME NEW i \in 1..Len(log), IsEntry(log[i])
                   PROVE  Seen'[log[i].id] >= log[i].size \/ \E e \in Fresh' : Brings(e, log[i].id, log[i].size)
        BY <1>1 DEF LinesCovered, Reached
      <3>1. PICK a \in Ids, n \in Nat : a = log[i].id /\ n = log[i].size
        BY <1>2
      <3>2. Reached(a, n)
        BY <2>1, <3>1 DEF LinesCovered
      <3>3. Reached(a, n)'
        BY <3>2, FlushReaches
      <3> QED
        BY <3>1, <3>3 DEF Reached, Brings, IsEntry
    <2>3. OrderCovered'
      <3> SUFFICES ASSUME NEW f \in OnWay', NEW i \in 1..Len(log), i <= f.line, IsEntry(log[i])
                   PROVE  \/ Seen'[log[i].id] >= log[i].size
                          \/ \E e \in Fresh' : e.at <= f.at /\ Brings(e, log[i].id, log[i].size)
        BY <1>1 DEF OrderCovered, ReachedBy
      <3>1. PICK a \in Ids, n \in Nat : a = log[i].id /\ n = log[i].size
        BY <1>2
      <3>2. ReachedBy(f, a, n)
        BY <1>1, <2>1, <3>1 DEF OrderCovered
      <3>3. view'.entries[a] >= n \/ \E e \in OnWay' : e.at <= f.at /\ Brings(e, a, n)
        BY <3>2, FlushReaches
      <3> QED
        BY <1>1, <1>4, <3>1, <3>3
    <2>4. TextCovered'
      <3> SUFFICES ASSUME pending.id # 0
                   PROVE  Seen'[pending.id] >= pending.size \/ \E e \in Fresh' : Brings(e, pending.id, pending.size)
        BY <1>1 DEF TextCovered, Reached
      <3>1. PICK a \in Ids, n \in Nat : a = pending.id /\ n = pending.size
        BY DEF LogInv, HeldBack, FeedTyped
      <3>2. Reached(a, n)'
        BY <2>1, <3>1, FlushReaches DEF TextCovered
      <3> QED
        BY <3>1, <3>2 DEF Reached, Brings, IsEntry
    <2> QED
      BY <2>2, <2>3, <2>4
  <1>9. InWindow' /\ Forward'
    BY <1>1 DEF InWindow, Forward
  <1>10. AsksCovered'
    <2> SUFFICES ASSUME AsksSound
                 PROVE  AsksArrive' /\ AsksLeave'
      BY <1>3 DEF AsksCovered
    <2>1. AsksArrive /\ AsksLeave
      BY <1>3 DEF ViewInv, AsksCovered
    <2>2. AsksArrive'
      <3> SUFFICES ASSUME NEW id \in said.asks
                   PROVE  id \in view'.asks \/ \E e \in Fresh' : e.kind = "ask" /\ e.id = id
        BY <1>1, <1>4 DEF AsksArrive
      <3>1. id \in view.asks \/ \E e \in OnWay : e.kind = "ask" /\ e.id = id
        BY <1>1, <1>4, <2>1 DEF AsksArrive
      <3>2. id \in Ids
        BY DEF LogInv, FeedTyped, SaidTypes, AskTypes
      <3>3. \A p \in 1..Len(queue) : ~IsAbout(queue[p], "answer", id)
        BY <1>1 DEF WayInv, AnsweredOnce, IsAbout
      <3>4. id \in view.asks \/ (\E p \in 1..Len(queue) : IsAbout(queue[p], "ask", id)) => id \in view'.asks
        BY <1>1, <3>2, <3>3 DEF Asked
      <3> QED
        BY <1>1, <3>1, <3>4 DEF IsAbout
    <2>3. AsksLeave'
      <3> SUFFICES ASSUME NEW id \in Ids \ said.asks, id \in view'.asks
                   PROVE  \E e \in Fresh' : e.kind = "answer" /\ e.id = id
        <4>1. \A id : ~QueuedAsk(id)'
          BY <1>1 DEF QueuedAsk
        <4> QED
          BY <1>1, <1>4, <4>1 DEF AsksLeave
      <3>1. /\ id \in view.asks \/ \E p \in 1..Len(queue) : IsAbout(queue[p], "ask", id)
            /\ \A p \in 1..Len(queue) : IsAbout(queue[p], "answer", id) =>
                 \E q \in 1..Len(queue) : p < q /\ IsAbout(queue[q], "ask", id)
        BY <1>1 DEF Asked
      <3>2. id \in SeenAsks \/ QueuedAsk(id)
        BY <1>4, <3>1 DEF QueuedAsk, IsAbout
      <3>3. PICK e \in OnWay : e.kind = "answer" /\ e.id = id
        BY <1>1, <2>1, <3>2 DEF AsksLeave
      <3>4. ASSUME NEW p \in 1..Len(queue), queue[p] = e
            PROVE  FALSE
        <4>1. PICK q \in 1..Len(queue) : p < q /\ IsAbout(queue[q], "ask", id)
          BY <3>1, <3>3, <3>4 DEF IsAbout
        <4>2. queue[p].at < queue[q].at
          BY <1>5, <1>6, <4>1
        <4>3. queue[q].at < queue[p].at
          BY <1>1, <3>3, <3>4, <4>1 DEF WayInv, AskOrder, IsAbout
        <4>4. queue[p].at \in Nat /\ queue[q].at \in Nat
          BY <1>1, <1>7
        <4> QED
          BY <4>2, <4>3, <4>4
      <3> QED
        BY <1>1, <3>3, <3>4
    <2> QED
      BY <2>2, <2>3
  <1>11. CursorCovers'
    <2> SUFFICES ASSUME EntriesSound, NEW i \in 1..Len(log), IsEntry(log[i]), i <= view'.cursor
                 PROVE  view'.entries[log[i].id] >= log[i].size
      BY <1>1, <1>2, <1>3 DEF CursorCovers, EntriesSound, IsEntry
    <2>1. PICK a \in Ids, n \in Nat : a = log[i].id /\ n = log[i].size
      BY <1>2
    <2>2. CASE view'.cursor = view.cursor
      <3>1. view.entries[a] >= n
        BY <1>2, <2>1, <2>2 DEF ViewInv, CursorCovers, EntriesSound, IsEntry
      <3>2. view'.entries[a] >= n
        BY <3>1, FlushReaches
      <3> QED
        BY <2>1, <3>2
    <2>3. CASE \E p \in 1..Len(queue) : IsEntry(queue[p]) /\ queue[p].line = view'.cursor
      <3>1. PICK p \in 1..Len(queue) : IsEntry(queue[p]) /\ queue[p].line = view'.cursor
        BY <2>3
      <3>2. PICK f \in OnWay : f = queue[p]
        BY <1>1
      <3>3. ReachedBy(f, a, n)
        BY <1>3, <2>1, <3>1, <3>2 DEF ViewInv, Covered, OrderCovered
      <3>4. CASE view.entries[a] >= n
        <4>1. view'.entries[a] >= n
          BY <3>4, FlushReaches
        <4> QED
          BY <2>1, <4>1
      <3>5. CASE \E e \in OnWay : e.at <= f.at /\ Brings(e, a, n)
        <4>1. PICK e \in OnWay : e.at <= f.at /\ Brings(e, a, n)
          BY <3>5
        <4>2. ~(e \in OnWay')
          <5> SUFFICES ASSUME e \in OnWay'
                       PROVE  FALSE
            OBVIOUS
          <5>1. PICK t \in Threads : mail[t] = e /\ mail[t].kind # "none"
            BY <1>1
          <5>2. queue[p].at < mail[t].at
            BY <1>5, <1>6, <5>1
          <5>3. e.at \in Nat /\ f.at \in Nat /\ f.at < e.at
            BY <1>7, <3>2, <5>1, <5>2
          <5> QED
            BY <4>1, <5>3
        <4>3. PICK q \in 1..Len(queue) : queue[q] = e
          BY <1>1, <4>2
        <4>4. Brings(queue[q], a, n)
          BY <4>1, <4>3
        <4>5. view'.entries[a] >= n
          BY <4>4, FlushReaches
        <4> QED
          BY <2>1, <4>5
      <3> QED
        BY <1>1, <1>4, <3>3, <3>4, <3>5 DEF ReachedBy
    <2> QED
      BY <1>1, <2>2, <2>3 DEF Stems
  <1> QED
    BY <1>8, <1>9, <1>10, <1>11 DEF ViewInv

(***************************************************************************)
(* The invariant holds.                                                    *)
(***************************************************************************)
Quietly ==
    \/ Shutdown
    \/ Open \/ Read \/ ReadFails \/ Apply \/ Subscribe
    \/ Flush \/ Close \/ Evict
    \/ UNCHANGED vars

\* Nothing is said, and no event is emitted.
LEMMA QuietlyKeepsWay ==
    ASSUME LogInv, SayInv, WayInv, Quietly
    PROVE  WayInv'
  <1>0. /\ view \in Views /\ reply.upto \in Nat /\ reply.at \in Nat
        /\ reply.at <= said.count /\ reply.upto <= Len(log) /\ view.cursor <= Len(log)
        /\ phase # "live" => queue = <<>>
        /\ phase = "live" => reply.at = 0
        /\ \A id \in Ids : view.entries[id] <= said.entries[id]
    BY DEF WayInv, WayTyped, WayNumbers, WaySizes
  <1>1. said.count \in Nat /\ Len(log) \in Nat /\ \A id \in Ids : said.entries[id] \in Nat
    BY LinesAre DEF LogInv, FeedTyped, SaidTypes, EntryTypes
  <1>2. NoReply.at = 0 /\ NoReply.upto = 0
    BY DEF NoReply
  <1>3. CASE Shutdown
    <2>1. UNCHANGED <<log, said, mail, view, phase, reply, queue>> /\ pending'.id = 0 /\ odd \subseteq odd'
      BY <1>3 DEF Shutdown, NoText
    <2> QED
      BY <2>1, <1>0, QuietKeepsWay
  <1>4. CASE Open
    <2>1. /\ UNCHANGED <<log, said, pending, mail, view, queue>> /\ phase = "away" /\ phase' # "live"
          /\ reply' = NoReply
      BY <1>4 DEF Open
    <2> QED
      BY <2>1, <1>0, <1>1, <1>2, QuietKeepsWay
  <1>5. CASE Read
    <2>1. /\ UNCHANGED <<log, said, pending, mail, view, queue>> /\ phase = "reading" /\ phase' # "live"
          /\ reply'.upto = Len(log) /\ reply'.at = said.count
      BY <1>5 DEF Read
    <2>2. reply'.upto \in Nat /\ reply'.at \in Nat /\ reply'.at <= said.count /\ reply'.upto <= Len(log)
      BY <2>1, <1>1
    <2> QED
      BY <2>1, <2>2, <1>0, QuietKeepsWay
  <1>6. CASE ReadFails
    <2>1. /\ UNCHANGED <<log, said, pending, mail, queue>> /\ phase = "reading" /\ phase' # "live"
          /\ reply' = [NoReply EXCEPT !.at = said.count] /\ view' = [view EXCEPT !.initialized = TRUE]
      BY <1>6 DEF ReadFails
    <2>2. /\ view' \in Views /\ view'.entries = view.entries /\ view'.cursor = view.cursor
      BY <2>1, <1>0 DEF Views
    <2>3. reply'.upto = 0 /\ reply'.at = said.count
      BY <2>1 DEF NoReply
    <2>4. reply'.upto \in Nat /\ reply'.at \in Nat /\ reply'.at <= said.count /\ reply'.upto <= Len(log)
      BY <2>3, <1>1
    <2> QED
      BY <2>1, <2>2, <2>4, <1>0, QuietKeepsWay
  <1>7. CASE Apply
    <2>1. /\ UNCHANGED <<log, said, pending, mail, reply, queue>> /\ phase = "answered" /\ phase' = "applied"
          /\ view' \in Views /\ view'.cursor <= Len(log)
          /\ \A id \in Ids : view'.entries[id] <= said.entries[id]
      BY <1>7, Applied
    <2> QED
      BY <2>1, <1>0, QuietKeepsWay
  <1>8. CASE Subscribe
    <2>1. /\ UNCHANGED <<log, said, pending, mail, view, queue>> /\ phase = "applied"
          /\ reply' = NoReply
      BY <1>8 DEF Subscribe
    <2> QED
      BY <2>1, <1>0, <1>1, <1>2, QuietKeepsWay
  <1>9. CASE Flush
    <2>1. /\ UNCHANGED <<log, said, pending, mail, reply, phase>> /\ phase = "live" /\ queue' = <<>>
          /\ view' \in Views
      BY <1>9, FrameApplied
    <2>2. view'.cursor <= Len(log) /\ \A id \in Ids : view'.entries[id] <= said.entries[id]
      BY <1>9, FlushedTyped
    <2> QED
      BY <2>1, <2>2, <1>0, QuietKeepsWay
  <1>10. CASE Close
    <2>1. /\ UNCHANGED <<log, said, pending, mail, view>> /\ phase' = "away" /\ queue' = <<>>
          /\ reply' = NoReply
      BY <1>10 DEF Close
    <2> QED
      BY <2>1, <1>0, <1>1, <1>2, QuietKeepsWay
  <1>11. CASE Evict
    <2>1. /\ UNCHANGED <<log, said, pending, mail, reply, queue, phase>> /\ phase = "away"
          /\ view' = EmptyView
      BY <1>11 DEF Evict
    <2>2. Nothing \in EntryTypes /\ {} \in AskTypes
      BY DEF Nothing, EntryTypes, AskTypes
    <2>3. view' \in Views /\ view'.cursor = 0 /\ view'.entries = Nothing
      BY <2>1, <2>2 DEF EmptyView, Views
    <2>4. \A id \in Ids : view'.entries[id] <= said.entries[id]
      BY <2>3, <1>1 DEF Nothing
    <2>5. view'.cursor <= Len(log)
      BY <2>3, <1>1
    <2> QED
      BY <2>1, <2>3, <2>4, <2>5, <1>0, QuietKeepsWay
  <1>12. CASE UNCHANGED vars
    <2>1. UNCHANGED <<log, said, pending, mail, view, phase, reply, queue, odd>>
      BY <1>12 DEF vars
    <2> QED
      BY <2>1, <1>0, QuietKeepsWay
  <1> QED
    BY <1>3, <1>4, <1>5, <1>6, <1>7, <1>8, <1>9, <1>10, <1>11, <1>12 DEF Quietly

LEMMA QuietlyKeepsView ==
    ASSUME LogInv, SayInv, WayInv, ViewInv, Quietly
    PROVE  ViewInv'
  <1>1. CASE Shutdown
    <2>1. UNCHANGED <<log, said, mail, view, phase, reply, queue>> /\ pending'.id = 0 /\ odd \subseteq odd'
      BY <1>1 DEF Shutdown, NoText
    <2> QED
      BY <2>1, ShutdownKeepsView
  <1>2. CASE UNCHANGED vars
    <2>1. UNCHANGED <<log, said, pending, mail, view, phase, reply, queue, odd>>
      BY <1>2 DEF vars
    <2> QED
      BY <2>1, ShutdownKeepsView
  <1>3. CASE Open
    BY <1>3, OpenKeepsView
  <1>4. CASE Read
    BY <1>4, ReadKeepsView
  <1>5. CASE Close \/ ReadFails
    BY <1>5, CloseKeepsView
  <1>6. CASE Apply
    BY <1>6, ApplyKeepsView
  <1>7. CASE Subscribe
    BY <1>7, SubscribeKeepsView
  <1>8. CASE Flush
    BY <1>8, FlushKeepsView
  <1>9. CASE Evict
    BY <1>9, EvictKeepsView
  <1> QED
    BY <1>1, <1>2, <1>3, <1>4, <1>5, <1>6, <1>7, <1>8, <1>9 DEF Quietly

LEMMA FeedStep ==
    ASSUME LogInv, FeedInv, [Next]_vars
    PROVE  FeedInv'
  <1>0. SayInv /\ WayInv /\ ViewInv
    BY DEF FeedInv
  <1>1. CASE \/ \E t \in Threads : \E kind \in {"tool", "message"} : SayEntry(t, kind)
             \/ SayModel
             \/ \E id \in Ids : SayText(id) \/ Answer(id)
             \/ Ask
    <2>1. PICK t \in Threads, e \in Events : Says(t, e)
      BY <1>0, <1>1, EventSaid
    <2>2. SayInv' /\ WayInv'
      BY <1>0, <2>1, SaysKeepsSay, SaysKeepsWay
    <2>3. ViewInv'
      BY <1>0, <2>1, SaysKeepsView
    <2> QED
      BY <2>2, <2>3 DEF FeedInv
  <1>2. CASE \E t \in Threads : Deliver(t)
    <2>1. PICK t \in Threads : Deliver(t)
      BY <1>2
    <2>2. UNCHANGED <<log, said>>
      BY <2>1 DEF Deliver
    <2>3. SayInv' /\ WayInv'
      BY <1>0, <2>1, <2>2, SilentKeepsSay, DeliverKeepsWay
    <2>4. ViewInv'
      BY <1>0, <2>1, DeliverKeepsView
    <2> QED
      BY <2>3, <2>4 DEF FeedInv
  <1>3. CASE Quietly
    <2>1. UNCHANGED <<log, said>>
      BY <1>3 DEF Quietly, Shutdown, Open, Read, ReadFails, Apply, Subscribe, Flush, Close, Evict, vars
    <2>2. SayInv'
      BY <1>0, <2>1, SilentKeepsSay
    <2>3. WayInv'
      BY <1>0, <1>3, QuietlyKeepsWay
    <2>4. ViewInv'
      BY <1>0, <1>3, QuietlyKeepsView
    <2> QED
      BY <2>2, <2>3, <2>4 DEF FeedInv
  <1> QED
    BY <1>1, <1>2, <1>3 DEF Next, Quietly

LEMMA FeedInit == Init => FeedInv
  <1> SUFFICES ASSUME Init PROVE FeedInv
    OBVIOUS
  <1>0. /\ Len(log) = 0 /\ Len(queue) = 0 /\ (\A i : i \notin 1..0)
        /\ DOMAIN log = {}
    BY EmptySeq DEF Init
  <1>1. /\ log = <<>> /\ pending = NoText /\ mail = [t \in Threads |-> NoMail] /\ view = EmptyView
        /\ phase = "away" /\ reply = NoReply /\ queue = <<>>
        /\ said = [entries |-> Nothing, asks |-> {}, count |-> 0]
    BY DEF Init
  <1>2. NoMail.kind = "none" /\ NoMail \notin Events /\ ~IsEntry(NoMail)
    BY DEF NoMail, Events, IsEntry, EntryKinds
  <1>3. said.count = 0 /\ said.entries = Nothing /\ said.asks = {} /\ \A id \in Ids : Nothing[id] = 0
    BY <1>1 DEF Nothing
  <1>4. \A t \in Threads : mail[t] = NoMail
    BY <1>1
  <1>5. OnWay = {}
    BY <1>0, <1>2, <1>4 DEF OnWay
  <1>6. SayInv
    <2>1. MaxEvents \in Nat
      BY FeedAssumption
    <2>2. LogNumbers
      BY <1>0, <1>3, <2>1 DEF LogNumbers
    <2>3. LogSizes /\ Logged
      BY <1>0, <1>3 DEF LogSizes, Logged
    <2>4. AsksIn(1..Len(log)) = {}
      BY <1>0 DEF AsksIn
    <2> QED
      BY <1>3, <2>2, <2>3, <2>4 DEF SayInv, AsksLogged
  <1>7. WayInv
    <2>1. Nothing \in EntryTypes /\ {} \in AskTypes
      BY DEF Nothing, EntryTypes, AskTypes
    <2>2. view \in Views /\ view.cursor = 0 /\ view.entries = Nothing
      BY <1>1, <2>1 DEF EmptyView, Views
    <2>3. reply.upto = 0 /\ reply.at = 0
      BY <1>1 DEF NoReply
    <2>4. mail \in [Threads -> Held]
      BY <1>1 DEF Held
    <2>5. queue \in Seq(Events)
      BY <1>1, EmptySeq
    <2>6. WayTyped
      BY <2>2, <2>3, <2>4, <2>5 DEF WayTyped
    <2>7. WayNumbers
      BY <1>0, <1>1, <1>2, <1>3, <1>4, <1>5, <2>2, <2>3 DEF WayNumbers
    <2>8. MailSize
      <3>1. "user" \in Threads
        BY DEF Threads
      <3> QED
        BY <1>2, <1>4, <3>1 DEF MailSize
    <2>9. WaySizes /\ InOrder /\ AskOrder /\ AnsweredOnce
      BY <1>0, <1>3, <1>5, <2>2 DEF WaySizes, InOrder, AskOrder, AnsweredOnce
    <2> QED
      BY <2>6, <2>7, <2>8, <2>9 DEF WayInv
  <1>8. ViewInv
    BY <1>0, <1>1 DEF ViewInv, Covered, InWindow, Forward, AsksCovered, CursorCovers, Following
  <1> QED
    BY <1>6, <1>7, <1>8 DEF FeedInv

\* Both invariants hold in every reachable state.
LEMMA FeedHolds == Spec => [](LogInv /\ FeedInv)
  <1>1. Init => LogInv /\ FeedInv
    BY LogInit, FeedInit
  <1>2. LogInv /\ FeedInv /\ [Next]_vars => (LogInv /\ FeedInv)'
    BY LogStep, FeedStep
  <1> QED
    BY <1>1, <1>2, PTL DEF Spec

(***************************************************************************)
(* The theorems.                                                           *)
(***************************************************************************)
\* A view at rest has nothing on its way, so that it shows what is covered.
LEMMA RestIs ==
    ASSUME LogInv, FeedInv, AtRest
    PROVE  /\ Fresh = {} /\ Following /\ Seen = view.entries /\ SeenAsks = view.asks
           /\ \A id : ~QueuedAsk(id)
  <1>1. phase = "live" /\ queue = <<>> /\ \A t \in Threads : mail[t].kind = "none"
    BY DEF AtRest
  <1>2. \A p : p \notin 1..Len(queue)
    <2>1. Len(queue) = 0
      BY <1>1, EmptySeq
    <2>2. \A p : p \notin 1..0
      OBVIOUS
    <2> QED
      BY <2>1, <2>2
  <1>3. \A t \in Threads : mail[t] \notin Events
    BY <1>1, OnWayIs DEF FeedInv, WayInv
  <1>4. Fresh = {}
    BY <1>2, <1>3 DEF Fresh, OnWay
  <1> QED
    BY <1>1, <1>2, <1>4 DEF Following, Seen, SeenAsks, QueuedAsk

\* A view that is subscribed, has nothing left to apply and to which nothing odd
\* happened shows every entry in the length it was said: what was cached, what
\* was read behind the cursor and what arrived live leave no hole, whatever the
\* order of openings, reads, frames and events was (use-agent-message-stream.ts).
THEOREM NothingIsLost == Spec => []CaughtUp
  <1>1. ASSUME LogInv, FeedInv PROVE CaughtUp
    <2> SUFFICES ASSUME AtRest, odd = {}
                 PROVE  view.entries = said.entries
      BY DEF CaughtUp
    <2>1. Fresh = {} /\ Following /\ Seen = view.entries
      BY <1>1, RestIs
    <2>2. LinesCovered /\ TextCovered
      BY <1>1, <2>1 DEF FeedInv, ViewInv, Covered, EntriesSound, Orderly
    <2>3. view.entries \in [Ids -> Nat] /\ said.entries \in [Ids -> Nat]
      BY <1>1, ViewTyped DEF FeedInv, WayInv, WayTyped, LogInv, FeedTyped, SaidTypes, EntryTypes
    <2>4. ASSUME NEW id \in Ids
          PROVE  view.entries[id] >= said.entries[id]
      <3>1. CASE said.entries[id] = 0
        BY <3>1, <2>3
      <3>2. CASE said.entries[id] # 0 /\ id = pending.id
        <4>1. id # 0
          BY FeedAssumption DEF Ids
        <4>2. said.entries[id] = pending.size
          BY <1>1, <3>2, <4>1 DEF LogInv, HeldBack
        <4>3. Reached(id, pending.size)
          BY <2>2, <3>2, <4>1 DEF TextCovered
        <4> QED
          BY <2>1, <4>2, <4>3 DEF Reached
      <3>3. CASE said.entries[id] # 0 /\ id # pending.id
        <4>1. SayInv /\ "cut" \notin odd
          BY <1>1 DEF FeedInv
        <4>2. PICK i \in 1..Len(log) : IsEntry(log[i]) /\ log[i].id = id /\ log[i].size = said.entries[id]
          BY <1>1, <3>3, <4>1, LogComplete
        <4>3. Reached(id, said.entries[id])
          BY <2>2, <4>2 DEF LinesCovered
        <4> QED
          BY <2>1, <4>3 DEF Reached
      <3> QED
        BY <3>1, <3>2, <3>3
    <2>5. \A id \in Ids : view.entries[id] <= said.entries[id]
      BY <1>1 DEF FeedInv, WayInv, WaySizes
    <2>6. \A id \in Ids : view.entries[id] = said.entries[id]
      BY <2>3, <2>4, <2>5
    <2> QED
      BY <2>3, <2>6
  <1>2. LogInv /\ FeedInv => CaughtUp
    BY <1>1
  <1> QED
    BY FeedHolds, <1>2, PTL

\* The requests such a view shows are exactly the open ones, also when a part of
\* a text is missing (SYNC_PENDING_PERMISSIONS).
THEOREM RequestsAreShown == Spec => []PermissionsShown
  <1>1. ASSUME LogInv, FeedInv PROVE PermissionsShown
    <2> SUFFICES ASSUME AtRest, AsksSound
                 PROVE  view.asks = said.asks
      BY DEF PermissionsShown, AsksSound
    <2>1. Fresh = {} /\ Following /\ SeenAsks = view.asks
      BY <1>1, RestIs
    <2>2. AsksArrive /\ AsksLeave
      BY <1>1, <2>1 DEF FeedInv, ViewInv, AsksCovered
    <2>3. view.asks \subseteq Ids
      BY <1>1, ViewTyped DEF FeedInv, WayInv, WayTyped
    <2>4. \A id \in said.asks : id \in view.asks
      BY <2>1, <2>2 DEF AsksArrive
    <2>5. \A id \in Ids \ said.asks : id \notin view.asks
      BY <2>1, <2>2 DEF AsksLeave
    <2> QED
      BY <2>3, <2>4, <2>5
  <1>2. LogInv /\ FeedInv => PermissionsShown
    BY <1>1
  <1> QED
    BY FeedHolds, <1>2, PTL

\* The cursor stands behind no line the view has not applied: a later read, which
\* skips the lines before it, skips nothing that is missing (timeline_replay.rs).
THEOREM CursorIsSafe == Spec => []CursorCovers
  <1>1. LogInv /\ FeedInv => CursorCovers
    BY DEF FeedInv, ViewInv
  <1> QED
    BY FeedHolds, <1>1, PTL

(***************************************************************************)
(* The view implements the lagging copy.                                   *)
(***************************************************************************)
LEMMA SizesFit ==
    ASSUME LogInv, FeedInv
    PROVE  /\ said.entries \in Copy!Sizes /\ view.entries \in Copy!Sizes
           /\ \A id \in Ids : view.entries[id] <= said.entries[id]
  <1>1. view.entries \in [Ids -> Nat] /\ said.entries \in [Ids -> Nat] /\ said.count \in Nat
    BY ViewTyped DEF FeedInv, WayInv, WayTyped, LogInv, FeedTyped, SaidTypes, EntryTypes
  <1>2. \A id \in Ids : view.entries[id] <= said.entries[id]
    BY DEF FeedInv, WayInv, WaySizes
  <1>3. said.count <= MaxEvents /\ \A id \in Ids : said.entries[id] <= said.count
    BY DEF FeedInv, SayInv, LogNumbers
  <1>4. \A id \in Ids : said.entries[id] \in 0..MaxEvents /\ view.entries[id] \in 0..MaxEvents
    BY <1>1, <1>2, <1>3, FeedAssumption
  <1> QED
    BY <1>1, <1>2, <1>4 DEF Copy!Sizes

\* An event makes the original grow.
LEMMA SaysGrows ==
    ASSUME LogInv, LogInv', FeedInv, FeedInv', NEW t, NEW e \in Events, Says(t, e)
    PROVE  Copy!Say
  <1>1. said'.entries \in Copy!Sizes
    <2>1. /\ said'.entries \in [Ids -> Nat] /\ said'.count \in Nat
          /\ said'.count <= MaxEvents /\ \A id \in Ids : said'.entries[id] <= said'.count
      BY DEF LogInv, FeedTyped, SaidTypes, EntryTypes, FeedInv, SayInv, LogNumbers
    <2>2. \A id \in Ids : said'.entries[id] \in 0..MaxEvents
      BY <2>1, FeedAssumption
    <2> QED
      BY <2>1, <2>2 DEF Copy!Sizes
  <1>2. Copy!Covers(said'.entries, said.entries)
    <2>1. \A id \in Ids : /\ said.entries[id] \in Nat /\ said'.entries[id] \in Nat
                          /\ said.entries[id] <= said'.entries[id]
      BY NewLines DEF LogInv, FeedTyped, SaidTypes, EntryTypes
    <2> QED
      BY <2>1 DEF Copy!Covers
  <1>3. Shown' = Shown
    BY DEF Says, Heard, Shown, Nothing
  <1> QED
    BY <1>1, <1>2, <1>3 DEF Copy!Say

\* What is shown grows, and stays behind what was said.
LEMMA ShownGrows ==
    ASSUME LogInv, FeedInv, FeedInv', LogInv', odd = {}, odd' = {}, said' = said,
           \A id \in Ids : view'.entries[id] >= view.entries[id]
    PROVE  Copy!CatchUp
  <1>1. Shown = view.entries /\ Shown' = view'.entries
    BY DEF Shown
  <1>2. view'.entries \in [Ids -> Nat] /\ \A id \in Ids : view'.entries[id] <= said.entries[id]
    <2>1. view' \in Views
      BY DEF FeedInv, WayInv, WayTyped
    <2>2. \A id \in Ids : view'.entries[id] <= said'.entries[id]
      BY DEF FeedInv, WayInv, WaySizes
    <2> QED
      BY <2>1, <2>2, ViewTyped
  <1>3. said.entries \in Copy!Sizes
    BY SizesFit
  <1>4. said.entries \in [Ids -> 0..MaxEvents] /\ MaxEvents \in Nat
    BY <1>3, FeedAssumption DEF Copy!Sizes
  <1>5. \A id \in Ids : view'.entries[id] \in 0..MaxEvents /\ said.entries[id] >= view'.entries[id]
    BY <1>2, <1>4
  <1>6. view'.entries \in Copy!Sizes
    BY <1>2, <1>5 DEF Copy!Sizes
  <1> QED
    BY <1>1, <1>5, <1>6 DEF Copy!CatchUp, Copy!Covers

LEMMA CopyStep ==
    ASSUME LogInv, LogInv', FeedInv, FeedInv', [Next]_vars
    PROVE  [Copy!Next]_<<said.entries, Shown>>
  <1>0. SayInv /\ WayInv /\ ViewInv
    BY DEF FeedInv
  <1>n. Copy!Nothing = Nothing
    BY DEF Copy!Nothing, Nothing
  <1>1. CASE \/ \E t \in Threads : \E kind \in {"tool", "message"} : SayEntry(t, kind)
             \/ SayModel
             \/ \E id \in Ids : SayText(id) \/ Answer(id)
             \/ Ask
    <2>1. PICK t \in Threads, e \in Events : Says(t, e)
      BY <1>0, <1>1, EventSaid
    <2> QED
      BY <2>1, SaysGrows DEF Copy!Next
  <1>2. CASE (\E t \in Threads : Deliver(t)) \/ Quietly
    <2>1. said' = said
      BY <1>2 DEF Deliver, Quietly, Shutdown, Open, Read, ReadFails, Apply, Subscribe, Flush, Close, Evict, vars
    <2>2. CASE Shown' = Nothing
      BY <2>1, <2>2, <1>n DEF Copy!Next, Copy!Forget
    <2>3. CASE Shown' # Nothing
      <3>1. odd' = {}
        BY <2>3 DEF Shown, Nothing
      <3>2. Nothing' = Nothing /\ Shown' = view'.entries
        BY <3>1 DEF Nothing, Shown
      <3>3. ~Evict
        BY <2>3, <3>2 DEF Evict, EmptyView
      <3>4. odd = {}
        <4>1. odd \subseteq odd'
          BY <1>2, <3>3 DEF Deliver, Quietly, Shutdown, Open, Read, ReadFails, Apply, Subscribe, Flush, Close, vars
        <4> QED
          BY <3>1, <4>1
      <3>5. CASE Apply
        <4>1. phase = "answered" /\ view'.entries = Merged
          BY <1>0, <3>5, Applied
        <4>2. \A id \in Ids : Merged[id] >= view.entries[id]
          BY <1>0, <3>4, <4>1 DEF ViewInv, Forward, Seen
        <4>3. \A id \in Ids : view'.entries[id] >= view.entries[id]
          BY <4>1, <4>2
        <4> QED
          BY <2>1, <3>1, <3>4, <4>3, ShownGrows DEF Copy!Next
      <3>6. CASE Flush
        <4>1. \A id \in Ids : view'.entries[id] >= view.entries[id]
          BY <1>0, <3>6, FrameApplied DEF Grows
        <4> QED
          BY <2>1, <3>1, <3>4, <4>1, ShownGrows DEF Copy!Next
      <3>7. CASE ~Apply /\ ~Flush
        <4>1. view' = view \/ view' = [view EXCEPT !.initialized = TRUE]
          BY <1>2, <3>3, <3>7 DEF Deliver, Quietly, Shutdown, Open, Read, ReadFails, Subscribe, Close, vars
        <4>2. view \in Views
          BY <1>0 DEF WayInv, WayTyped
        <4>3. view'.entries = view.entries
          BY <4>1, <4>2 DEF Views
        <4>4. Shown' = Shown
          BY <3>2, <3>4, <4>3 DEF Shown
        <4> QED
          BY <2>1, <4>4
      <3> QED
        BY <3>5, <3>6, <3>7
    <2> QED
      BY <2>2, <2>3
  <1> QED
    BY <1>1, <1>2 DEF Next, Quietly

LEMMA CopyInit == Init => Copy!Init
  <1> SUFFICES ASSUME Init PROVE Copy!Init
    OBVIOUS
  <1>1. said.entries = Nothing /\ view.entries = Nothing
    BY DEF Init, EmptyView
  <1>2. Copy!Nothing = Nothing
    BY DEF Copy!Nothing, Nothing
  <1> QED
    BY <1>1, <1>2 DEF Copy!Init, Shown

\* The stream is a lagging copy of what the session said: it never shows more of
\* an entry than was said and takes nothing back, except that it is forgotten as
\* a whole when the cache drops it or something odd happens to it.
THEOREM StreamLags == Spec => LagsBehind
  <1>1. Init => Copy!Init
    BY CopyInit
  <1>2. /\ LogInv /\ FeedInv /\ (LogInv /\ FeedInv)' /\ [Next]_vars
        => [Copy!Next]_<<said.entries, Shown>>
    BY CopyStep
  <1> QED
    BY FeedHolds, <1>1, <1>2, PTL DEF Spec, LagsBehind, Copy!Spec
=============================================================================
