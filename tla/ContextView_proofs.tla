------------------------- MODULE ContextView_proofs -------------------------
(***************************************************************************)
(* Theorems about what a model sees of its own run, for any number of      *)
(* preserved messages, calls and turns.                                    *)
(*                                                                         *)
(* Where the archive may end depends on the shape of the transcript: the   *)
(* results of a turn stand in one block behind the message that called for *)
(* them (Asked, Answered), so a boundary never falls into such a block     *)
(* (BoundaryBeforeNoResult) and never moves back (ArchiveGrows).           *)
(***************************************************************************)
EXTENDS ContextView, SequenceTheorems, TLAPS

Transcripts == Seq([role : {"user", "assistant", "result"}, calls : SUBSET Nat])

\* Message i is a result of message j, and so is whatever lies between them.
ResultOf(t, j, i) ==
  /\ j \in 1..i - 1
  /\ t[j].role = "assistant"
  /\ \A k \in j + 1..i : t[k].role = "result" /\ t[k].calls \subseteq t[j].calls

Asked(t) ==
  \A i \in 1..Len(t) : t[i].role = "result" => \E j \in 1..i - 1 : ResultOf(t, j, i)

Answered(t, n) ==
  \A j \in 1..n : t[j].role = "assistant" =>
    \A id \in t[j].calls : \E i \in j + 1..Len(t) : ResultOf(t, j, i) /\ id \in t[i].calls

LEMMA OwnerIsAsker ==
  ASSUME NEW t \in Transcripts, NEW i \in 1..Len(t), NEW j \in 1..i - 1, ResultOf(t, j, i)
  PROVE  Owner(t, i) = {j}
<1>1. i \in Nat /\ Len(t) \in Nat /\ j \in Nat
  BY LenProperties DEF Transcripts
<1>2. j \in Owner(t, i)
  BY <1>1 DEF Owner, ResultOf
<1>3. ASSUME NEW k \in Owner(t, i) PROVE k = j
  <2>1. k \in 1..i - 1 /\ t[k].role = "assistant"
    BY DEF Owner
  <2>2. k \notin j + 1..i
    BY <2>1 DEF ResultOf
  <2>3. ~ (k < j)
    <3> SUFFICES ASSUME k < j PROVE FALSE
      OBVIOUS
    <3>1. j \in k + 1..i - 1
      BY <1>1, <2>1
    <3>2. t[j].role = "assistant" /\ t[i].calls \subseteq t[j].calls
      BY <1>1 DEF ResultOf
    <3> QED
      BY <3>1, <3>2 DEF Owner
  <2> QED
    BY <1>1, <2>1, <2>2, <2>3
<1> QED
  BY <1>2, <1>3

LEMMA AdjustedToAsker ==
  ASSUME NEW t \in Transcripts, NEW count \in Nat, NEW j \in 1..count,
         count + 1 \in 1..Len(t), t[count + 1].role = "result", ResultOf(t, j, count + 1)
  PROVE  Adjusted(t, count) = j - 1
<1>1. Owner(t, count + 1) = {j}
  BY OwnerIsAsker
<1>2. \A x : (CHOOSE y \in {x} : TRUE) = x
  OBVIOUS
<1>3. (CHOOSE y \in Owner(t, count + 1) : TRUE) = j /\ Owner(t, count + 1) # {}
  BY <1>1, <1>2
<1> QED
  BY <1>3 DEF Adjusted

\* Where the archive ends: at the preserved messages, or before the block of
\* results that would be cut there.  What follows it is no result.
LEMMA BoundaryBeforeNoResult ==
  ASSUME NEW t \in Transcripts, Asked(t)
  PROVE  LET from == ArchivedCount(t)
         IN  /\ from \in 0..Len(t)
             /\ from = 0 \/ from <= Len(t) - Preserved
             /\ from < Len(t) => t[from + 1].role # "result"
             /\ \/ from = 0 /\ Len(t) <= Preserved
                \/ from = Len(t) - Preserved
                \/ \E j \in 1..Len(t) - Preserved :
                     from = j - 1 /\ ResultOf(t, j, Len(t) - Preserved + 1)
<1> DEFINE from == ArchivedCount(t)
           count == Len(t) - Preserved
<1>1. Len(t) \in Nat /\ Preserved \in Nat /\ Preserved >= 1
  BY LenProperties, ContextDeclarations DEF Transcripts
<1>2. CASE Len(t) <= Preserved
  <2>1. from = 0
    BY <1>2 DEF ArchivedCount
  <2>2. 0 < Len(t) => t[1].role # "result"
    BY <1>1 DEF Asked
  <2> QED
    BY <1>1, <1>2, <2>1, <2>2
<1>3. CASE Len(t) > Preserved /\ t[count + 1].role # "result"
  <2>1. from = count
    BY <1>1, <1>3 DEF ArchivedCount, Adjusted
  <2> QED
    BY <1>1, <1>3, <2>1
<1>4. CASE Len(t) > Preserved /\ t[count + 1].role = "result"
  <2>1. count + 1 \in 1..Len(t) /\ count \in Nat
    BY <1>1, <1>4
  <2>2. PICK j \in 1..count + 1 - 1 : ResultOf(t, j, count + 1)
    BY <1>4, <2>1 DEF Asked
  <2>3. j \in 1..count
    BY <2>1, <2>2
  <2>4. from = j - 1
    BY <1>1, <1>4, <2>1, <2>2, <2>3, AdjustedToAsker DEF ArchivedCount
  <2>5. t[j].role # "result"
    BY <2>2 DEF ResultOf
  <2>6. from \in 0..Len(t) /\ from <= count /\ from + 1 = j
    BY <1>1, <2>1, <2>3, <2>4
  <2> QED
    BY <2>2, <2>3, <2>4, <2>5, <2>6
<1> QED
  BY <1>1, <1>2, <1>3, <1>4

\* As a transcript grows, so does its archive.
LEMMA ArchiveGrows ==
  ASSUME NEW t \in Transcripts, Asked(t), NEW n \in 0..Len(t)
  PROVE  ArchivedCount(SubSeq(t, 1, n)) <= ArchivedCount(t)
<1> DEFINE s == SubSeq(t, 1, n)
           a == ArchivedCount(s)
           b == ArchivedCount(t)
<1>1. Len(t) \in Nat /\ Preserved \in Nat /\ Preserved >= 1 /\ n \in Nat /\ n <= Len(t)
  BY LenProperties, ContextDeclarations DEF Transcripts
<1>2. s \in Transcripts /\ Len(s) = n /\ \A k \in 1..n : s[k] = t[k]
  <2> DEFINE Msg == [role : {"user", "assistant", "result"}, calls : SUBSET Nat]
  <2>0. t \in Seq(Msg)
    BY DEF Transcripts
  <2> HIDE DEF Msg
  <2>1. \A k \in 1..n : t[k] \in Msg
    BY <1>1, <2>0, ElementOfSeq
  <2>2. s \in Seq(Msg) /\ Len(s) = (IF 1 <= n THEN n - 1 + 1 ELSE 0)
        /\ \A k \in 1..n - 1 + 1 : s[k] = t[1 + k - 1]
    BY <1>1, <2>1, SubSeqProperties
  <2> QED
    BY <1>1, <2>2 DEF Transcripts, Msg
<1>3. Asked(s)
  <2> SUFFICES ASSUME NEW i \in 1..n, s[i].role = "result"
               PROVE  \E j \in 1..i - 1 : ResultOf(s, j, i)
    BY <1>2 DEF Asked
  <2>1. PICK j \in 1..i - 1 : ResultOf(t, j, i)
    BY <1>1, <1>2 DEF Asked
  <2>2. ResultOf(s, j, i)
    BY <1>1, <1>2, <2>1 DEF ResultOf
  <2> QED
    BY <2>2
<1>4. /\ a \in 0..n /\ (a = 0 \/ a <= n - Preserved)
      /\ a < n => t[a + 1].role # "result"
  <2>1. /\ a \in 0..n /\ (a = 0 \/ a <= n - Preserved)
        /\ a < n => s[a + 1].role # "result"
    <3> HIDE DEF s
    <3> QED BY <1>2, <1>3, BoundaryBeforeNoResult
  <2> QED
    BY <1>1, <1>2, <2>1
<1>5. /\ b \in 0..Len(t)
      /\ \/ b = 0 /\ Len(t) <= Preserved
         \/ b = Len(t) - Preserved
         \/ \E j \in 1..Len(t) - Preserved : b = j - 1 /\ ResultOf(t, j, Len(t) - Preserved + 1)
  BY BoundaryBeforeNoResult
<1> SUFFICES a <= b
  OBVIOUS
<1> HIDE DEF a, b, s
<1>6. CASE b = 0 /\ Len(t) <= Preserved
  BY <1>1, <1>4, <1>6
<1>7. CASE b = Len(t) - Preserved
  BY <1>1, <1>4, <1>5, <1>7
<1>8. ASSUME NEW j \in 1..Len(t) - Preserved,
             b = j - 1, ResultOf(t, j, Len(t) - Preserved + 1)
      PROVE  a <= b
  <2> SUFFICES ASSUME a >= j PROVE FALSE
    BY <1>1, <1>4, <1>8
  <2>1. a + 1 \in j + 1..Len(t) - Preserved + 1 /\ a < n
    BY <1>1, <1>4
  <2> QED
    BY <1>4, <1>8, <2>1 DEF ResultOf
<1> QED
  BY <1>5, <1>6, <1>7, <1>8

----------------------------------------------------------------------------
(***************************************************************************)
(* The invariant: the transcript has its shape, but for the turn whose     *)
(* tools are at work (Shaped, ToolTurn); an observation cites its evidence *)
(* from the moment it is cited (Cited), and is of this turn until then     *)
(* (Fresh); the archive never falls behind the last request (Viewed); and a*)
(* result no request has shown yet is one of the turn just over, with      *)
(* nothing behind it but a prompt (Unshown).                               *)
(***************************************************************************)
LastMessage == transcript[Len(transcript)]

Shaped ==
  /\ Asked(transcript)
  /\ stage # "closed" =>
       Answered(transcript, IF stage = "tools" THEN Len(transcript) - 1 ELSE Len(transcript))
  /\ stage \notin {"idle", "closed"} =>
       base < Len(transcript) /\ transcript[base + 1].role = "user"

ToolTurn ==
  /\ stage = "tools" =>
       /\ LastMessage.role = "assistant"
       /\ \E n \in 1..Len(calls) : LastMessage.calls = n..Len(calls)
       /\ \A id \in LastMessage.calls : calls[id].phase # "running" => calls[id].turn = turn
  /\ \A id \in Ids :
       calls[id].phase # "done" => stage = "closed" \/ (stage = "tools" /\ id \in LastMessage.calls)

Evidence(id) ==
  \/ calls[id].cites = "raw" /\ id \in rawFiles
  \/ calls[id].cites \in SourceTexts /\ (calls[id].cites = calls[id].saw \/ Beside(id))

Cited ==
  /\ \A id \in Ids :
       Demoted(id) /\ calls[id].phase \in {"cited", "pushed", "done"} => Evidence(id)
  /\ \A id \in view.stubs : Observed(id)

\* What a large read returned is what its file says, until it is hashed, or some
\* other tool of the turn may write.
Fresh ==
  /\ \A id \in Ids : calls[id].phase # "done" => calls[id].asked = turn
  /\ \A id \in Ids : calls[id].phase = "drafted" /\ calls[id].saw # "none" =>
       source = calls[id].saw \/ Beside(id)

Viewed ==
  /\ stage = "asking" => view.upto = Len(transcript)
  /\ stage \in {"asking", "tools", "turn_end"} =>
       /\ view.upto \in 0..Len(transcript)
       /\ view.from = ArchivedCount(SubSeq(transcript, 1, view.upto))
  /\ IF stage = "closed" THEN catalog >= view.from ELSE archive >= view.from

ContextInvariant ==
  ContextTypeOK /\ Shaped /\ ToolTurn /\ Cited /\ Fresh /\ Viewed

Unshown ==
  stage # "closed" =>
    \A i \in 1..Len(transcript) : transcript[i].role = "result" =>
      \A id \in transcript[i].calls :
        \/ id \in shown
        \/ /\ stage \in {"turn_end", "idle", "starting", "viewing"}
           /\ calls[id].turn >= IF stage = "viewing" THEN turn - 1 ELSE turn
           /\ \A k \in i + 1..Len(transcript) :
                \/ transcript[k].role = "result"
                \/ k = Len(transcript) /\ stage \in {"starting", "viewing"}

Message == [role : {"user", "assistant", "result"}, calls : SUBSET Ids]
LEMMA Typed ==
  ASSUME ContextTypeOK
  PROVE  /\ transcript \in Transcripts /\ transcript \in Seq(Message)
         /\ calls \in Seq(Call) /\ Ids = 1..Len(calls) /\ Len(calls) \in Nat
         /\ Len(transcript) \in Nat
<1>1. transcript \in Seq(Message) /\ calls \in Seq(Call)
  BY DEF ContextTypeOK, Message, Call
<1>2. Ids = 1..Len(calls) /\ Len(calls) \in Nat /\ Len(transcript) \in Nat
  BY <1>1, LenProperties DEF Ids
<1>3. Message \subseteq [role : {"user", "assistant", "result"}, calls : SUBSET Nat]
  BY <1>2 DEF Message
<1>4. transcript \in Transcripts
  <2> HIDE DEF Message
  <2> QED BY <1>1, <1>3, SeqMonotonic DEF Transcripts
<1> QED
  BY <1>1, <1>2, <1>4

\* One more message.
LEMMA GrownByOne ==
  ASSUME NEW C, NEW t \in Seq(C), NEW m \in C, NEW u, u = Append(t, m)
  PROVE  /\ u \in Seq(C) /\ Len(u) = Len(t) + 1 /\ u[Len(t) + 1] = m
         /\ \A i \in 1..Len(t) : u[i] = t[i]
BY AppendProperties

\* The results of a turn.
LEMMA ToolsDoneAppends ==
  ASSUME ContextTypeOK, ToolTurn, ToolsDone
  PROVE  \E n \in 1..Len(calls) :
           /\ LastMessage.calls = n..Len(calls)
           /\ transcript' \in Seq(Message)
           /\ Len(transcript') = Len(transcript) + (Len(calls) + 1 - n)
           /\ \A i \in 1..Len(transcript) : transcript'[i] = transcript[i]
           /\ \A i \in Len(transcript) + 1..Len(transcript') :
                transcript'[i] = Result(n + (i - Len(transcript) - 1))
<1>1. PICK n \in 1..Len(calls) : LastMessage.calls = n..Len(calls)
  BY DEF ToolTurn, ToolsDone
<1>2. n \in Nat /\ Len(calls) \in Nat /\ Len(transcript) \in Nat
      /\ transcript \in Seq(Message) /\ Ids = 1..Len(calls)
  BY Typed
<1> DEFINE first == CHOOSE i \in n..Len(calls) : \A j \in n..Len(calls) : i <= j
           added == [k \in 1..Len(calls) + 1 - n |-> Result(k - 1 + n)]
<1>3. first = n
  <2>1. n \in n..Len(calls) /\ \A j \in n..Len(calls) : n <= j
    BY <1>1, <1>2
  <2>2. \A i \in n..Len(calls) : (\A j \in n..Len(calls) : i <= j) => i = n
    BY <1>1, <1>2
  <2> QED
    BY <2>1, <2>2
<1>4. transcript' = transcript \o added
  <2> HIDE DEF first
  <2>1. transcript' = transcript \o [k \in 1..Len(calls) + 1 - first |-> Result(k - 1 + first)]
    BY <1>1 DEF ToolsDone, LastMessage, first
  <2> QED
    BY <1>3, <2>1
<1>5. added \in Seq(Message) /\ Len(added) = Len(calls) + 1 - n
  <2>1. \A k \in 1..Len(calls) + 1 - n : Result(k - 1 + n) \in Message
    BY <1>1, <1>2 DEF Result, Message
  <2>2. Len(calls) + 1 - n \in Nat
    BY <1>1, <1>2
  <2> HIDE DEF Message
  <2> QED
    BY <2>1, <2>2
<1>6. /\ transcript' \in Seq(Message)
      /\ Len(transcript') = Len(transcript) + Len(added)
      /\ \A i \in 1..Len(transcript) + Len(added) :
           transcript'[i] = IF i <= Len(transcript) THEN transcript[i]
                                                    ELSE added[i - Len(transcript)]
  <2> HIDE DEF added, Message
  <2> QED
    BY <1>2, <1>4, <1>5, ConcatProperties
<1>7. \A i \in Len(transcript) + 1..Len(transcript') :
        transcript'[i] = Result(n + (i - Len(transcript) - 1))
  <2> SUFFICES ASSUME NEW i \in Len(transcript) + 1..Len(transcript')
               PROVE  transcript'[i] = Result(n + (i - Len(transcript) - 1))
    OBVIOUS
  <2>1. transcript'[i] = added[i - Len(transcript)]
        /\ i - Len(transcript) \in 1..Len(calls) + 1 - n
    <3> HIDE DEF added
    <3> QED BY <1>1, <1>2, <1>5, <1>6
  <2>2. transcript'[i] = Result(i - Len(transcript) - 1 + n)
    BY <2>1
  <2>3. i - Len(transcript) - 1 + n = n + (i - Len(transcript) - 1)
    BY <1>1, <1>2
  <2> QED
    BY <2>2, <2>3
<1>8. \A i \in 1..Len(transcript) : transcript'[i] = transcript[i]
  <2> SUFFICES ASSUME NEW i \in 1..Len(transcript) PROVE transcript'[i] = transcript[i]
    OBVIOUS
  <2>1. i \in 1..Len(transcript) + (Len(calls) + 1 - n) /\ i <= Len(transcript)
    BY <1>1, <1>2
  <2> HIDE DEF added
  <2> QED BY <1>5, <1>6, <2>1
<1> QED
  BY <1>1, <1>5, <1>6, <1>7, <1>8

----------------------------------------------------------------------------
LEMMA ViewTyped ==
  ASSUME ContextTypeOK, Asked(transcript)
  PROVE  /\ Projected \in [from : Nat, upto : Nat, stubs : SUBSET Ids]
         /\ ResultsFrom(transcript, Projected.from) \subseteq Ids
         /\ Projected.from = ArchivedCount(transcript) /\ Projected.upto = Len(transcript)
         /\ ArchivedCount(transcript) \in 0..Len(transcript)
<1>1. /\ transcript \in Seq(Message) /\ Len(transcript) \in Nat
      /\ ArchivedCount(transcript) \in 0..Len(transcript)
  BY Typed, BoundaryBeforeNoResult
<1>2. Projected.from = ArchivedCount(transcript) /\ Projected.upto = Len(transcript)
  BY DEF Projected
<1>3. \A i \in 1..Len(transcript) : transcript[i].calls \subseteq Ids
  <2>1. \A i \in 1..Len(transcript) : transcript[i] \in Message
    <3> HIDE DEF Message
    <3> QED BY <1>1, ElementOfSeq
  <2> QED
    BY <2>1 DEF Message
<1>4. ResultsFrom(transcript, ArchivedCount(transcript)) \subseteq Ids
  BY <1>1, <1>3 DEF ResultsFrom
<1> QED
  BY <1>1, <1>2, <1>4 DEF Projected

LEMMA CallsTyped ==
  ASSUME ContextTypeOK, NEW id \in Ids, Recording(id)
  PROVE  /\ calls' \in Seq(Call) /\ Len(calls') = Len(calls) /\ Ids' = Ids
         /\ \A other \in Ids \ {id} : calls'[other] = calls[other]
         /\ calls'[id].tool = calls[id].tool /\ calls'[id].asked = calls[id].asked
         /\ rawFiles \subseteq rawFiles' /\ rawFiles' \subseteq Ids
         /\ UNCHANGED <<loopVars, viewVars, source, catalog>>
<1>0. calls \in Seq(Call) /\ Ids = 1..Len(calls) /\ turn \in 0..MaxTurns /\ calls[id] \in Call
      /\ rawFiles \subseteq Ids /\ TextRead(id) \in SourceTexts \cup {"none"}
      /\ source \in SourceTexts \cup {"gone"}
  <2>1. calls \in Seq(Call) /\ Ids = 1..Len(calls)
    BY Typed
  <2>2. calls[id] \in Call
    <3> HIDE DEF Call
    <3> QED BY <2>1, ElementOfSeq
  <2> QED
    BY <2>1, <2>2 DEF ContextTypeOK, TextRead
<1>1. \E c \in Call : /\ calls' = [calls EXCEPT ![id] = c]
                     /\ c.tool = calls[id].tool /\ c.asked = calls[id].asked
  <2>1. CASE ToolReturns(id)
    <3>1. calls' = [calls EXCEPT ![id] = [calls[id] EXCEPT !.phase = "drafted", !.turn = turn,
                                                           !.saw = TextRead(id)]]
      BY <1>0, <2>1 DEF ToolReturns, Call
    <3>2. [calls[id] EXCEPT !.phase = "drafted", !.turn = turn, !.saw = TextRead(id)] \in Call
      BY <1>0 DEF Call, Phases
    <3> QED
      BY <1>0, <3>1, <3>2 DEF Call
  <2>2. CASE KeepBashOutput(id) \/ CiteSource(id)
    <3>1. \E cite \in SourceTexts \cup {"raw"} :
            calls' = [calls EXCEPT ![id] = [calls[id] EXCEPT !.phase = "cited", !.cites = cite]]
      <4>1. CASE KeepBashOutput(id)
        <5>1. calls' = [calls EXCEPT ![id] = [calls[id] EXCEPT !.phase = "cited", !.cites = "raw"]]
          BY <1>0, <4>1 DEF KeepBashOutput, Call
        <5> QED BY <5>1
      <4>2. CASE CiteSource(id)
        <5>1. PICK cite \in SourceTexts \cup {"raw"} :
                calls' = [calls EXCEPT ![id].phase = "cited", ![id].cites = cite]
          BY <1>0, <4>2 DEF CiteSource
        <5>2. calls' = [calls EXCEPT ![id] = [calls[id] EXCEPT !.phase = "cited", !.cites = cite]]
          BY <1>0, <5>1 DEF Call
        <5> QED BY <5>2
      <4> QED BY <2>2, <4>1, <4>2
    <3>2. PICK cite \in SourceTexts \cup {"raw"} :
            calls' = [calls EXCEPT ![id] = [calls[id] EXCEPT !.phase = "cited", !.cites = cite]]
      BY <3>1
    <3> DEFINE c == [calls[id] EXCEPT !.phase = "cited", !.cites = cite]
    <3>3. c \in Call /\ c.tool = calls[id].tool /\ c.asked = calls[id].asked
      BY <1>0 DEF Call, Phases
    <3>4. calls' = [calls EXCEPT ![id] = c]
      BY <3>2
    <3> HIDE DEF c
    <3> QED
      BY <3>3, <3>4
  <2>3. CASE Push(id) \/ AppendObservation(id)
    <3>1. \E phase \in {"pushed", "done"} :
            calls' = [calls EXCEPT ![id] = [calls[id] EXCEPT !.phase = phase]]
      BY <1>0, <2>3 DEF Push, AppendObservation, Call
    <3>2. \A phase \in {"pushed", "done"} : [calls[id] EXCEPT !.phase = phase] \in Call
      BY <1>0 DEF Call, Phases
    <3> QED
      BY <1>0, <3>1, <3>2 DEF Call
  <2> QED
    BY <2>1, <2>2, <2>3 DEF Recording
<1>2. /\ calls' \in Seq(Call) /\ Len(calls') = Len(calls)
      /\ \A j \in 1..Len(calls) : j # id => calls'[j] = calls[j]
      /\ calls'[id].tool = calls[id].tool /\ calls'[id].asked = calls[id].asked
  <2>1. PICK c \in Call : /\ calls' = [calls EXCEPT ![id] = c]
                         /\ c.tool = calls[id].tool /\ c.asked = calls[id].asked
    BY <1>1
  <2> HIDE DEF Call
  <2>2. /\ calls' \in Seq(Call) /\ Len(calls') = Len(calls)
        /\ \A j \in 1..Len(calls) : calls'[j] = IF j = id THEN c ELSE calls[j]
    BY <1>0, <2>1, ExceptSeq
  <2> QED
    BY <1>0, <2>1, <2>2
<1>3. Ids' = 1..Len(calls')
  <2> HIDE DEF Call
  <2> QED BY <1>2, LenProperties DEF Ids
<1>4. rawFiles \subseteq rawFiles' /\ rawFiles' \subseteq Ids
      /\ UNCHANGED <<loopVars, viewVars, source, catalog>>
  BY <1>0 DEF Recording, ToolReturns, KeepBashOutput, CiteSource, Push, AppendObservation
<1> QED
  BY <1>0, <1>2, <1>3, <1>4

LEMMA AnswerAppends ==
  ASSUME ContextTypeOK, NEW tools \in Batches, Answer(tools)
  PROVE  /\ tools \in Seq(ToolKinds) /\ Len(tools) \in Nat
         /\ Len(calls') = Len(calls) + Len(tools) /\ calls' \in Seq(Call) /\ Ids' = 1..Len(calls')
         /\ Len(calls') <= MaxCalls
         /\ \A id \in 1..Len(calls) : calls'[id] = calls[id]
         /\ \A id \in Len(calls) + 1..Len(calls') :
               calls'[id].phase = "running" /\ calls'[id].asked = turn
         /\ Assistant(Len(calls) + 1..Len(calls')) \in Message'
         /\ Message \subseteq Message'
         /\ transcript' \in Seq(Message') /\ Len(transcript') = Len(transcript) + 1
         /\ transcript'[Len(transcript) + 1] = Assistant(Len(calls) + 1..Len(calls'))
         /\ \A i \in 1..Len(transcript) : transcript'[i] = transcript[i]
<1> DEFINE new == [k \in 1..Len(tools) |->
                    [tool |-> tools[k], phase |-> "running", asked |-> turn, turn |-> 0,
                     saw |-> "none", cites |-> "none"]]
<1>0. /\ transcript \in Seq(Message) /\ calls \in Seq(Call) /\ Ids = 1..Len(calls)
      /\ Len(calls) \in Nat /\ Len(transcript) \in Nat
  BY Typed
<1>1. tools \in Seq(ToolKinds) /\ Len(tools) \in Nat
  <2>1. PICK n \in 0..MaxBatch : tools \in [1..n -> ToolKinds]
    BY DEF Batches
  <2>2. n \in Nat
    BY ContextDeclarations
  <2> QED
    BY <2>1, <2>2, LenProperties
<1>2. new \in Seq(Call) /\ Len(new) = Len(tools)
  <2>1. \A k \in 1..Len(tools) :
          [tool |-> tools[k], phase |-> "running", asked |-> turn, turn |-> 0,
           saw |-> "none", cites |-> "none"] \in Call
    BY <1>1, ContextDeclarations DEF Call, Phases, ContextTypeOK
  <2> HIDE DEF Call
  <2> QED BY <1>1, <2>1
<1>3. /\ calls' \in Seq(Call) /\ Len(calls') = Len(calls) + Len(tools)
      /\ \A i \in 1..Len(calls) + Len(new) :
           calls'[i] = IF i <= Len(calls) THEN calls[i] ELSE new[i - Len(calls)]
  <2>1. calls' = calls \o new
    BY DEF Answer
  <2> HIDE DEF Call, new
  <2>0. calls \in Seq(Call) /\ new \in Seq(Call)
    BY <1>0, <1>2
  <2>2. /\ calls' \in Seq(Call) /\ Len(calls') = Len(calls) + Len(new)
        /\ \A i \in 1..Len(calls) + Len(new) :
             calls'[i] = IF i <= Len(calls) THEN calls[i] ELSE new[i - Len(calls)]
    BY ONLY <2>0, <2>1, ConcatProperties
  <2>3. Len(calls') = Len(calls) + Len(tools)
    BY ONLY <1>2, <2>2
  <2> QED
    BY ONLY <2>2, <2>3
<1>4. \A id \in 1..Len(calls) : calls'[id] = calls[id]
  <2> HIDE DEF new
  <2> QED BY <1>0, <1>1, <1>2, <1>3
<1>5. \A id \in Len(calls) + 1..Len(calls') :
        calls'[id].phase = "running" /\ calls'[id].asked = turn
  <2> SUFFICES ASSUME NEW id \in Len(calls) + 1..Len(calls')
               PROVE  calls'[id].phase = "running" /\ calls'[id].asked = turn
    OBVIOUS
  <2>1. calls'[id] = new[id - Len(calls)] /\ id - Len(calls) \in 1..Len(tools)
    <3> HIDE DEF new
    <3> QED BY <1>0, <1>1, <1>2, <1>3
  <2> QED
    BY <1>1, <2>1
<1>6. Ids' = 1..Len(calls')
  <2> HIDE DEF Call
  <2> QED BY <1>3, LenProperties DEF Ids
<1>7. Message \subseteq Message' /\ Assistant(Len(calls) + 1..Len(calls')) \in Message'
  BY <1>0, <1>1, <1>3, <1>6 DEF Message, Assistant
<1>8. transcript \in Seq(Message')
  <2> HIDE DEF Message
  <2> QED BY <1>0, <1>7, SeqMonotonic
<1>9. transcript' = Append(transcript, Assistant(Len(calls) + 1..Len(calls')))
  BY <1>3 DEF Answer
<1>10. /\ transcript' \in Seq(Message') /\ Len(transcript') = Len(transcript) + 1
       /\ transcript'[Len(transcript) + 1] = Assistant(Len(calls) + 1..Len(calls'))
       /\ \A i \in 1..Len(transcript) : transcript'[i] = transcript[i]
  <2> HIDE DEF Message, Assistant
  <2> QED BY <1>7, <1>8, <1>9, GrownByOne
<1>11. Len(calls') <= MaxCalls
  BY <1>3 DEF Answer
<1> QED
  BY <1>1, <1>3, <1>4, <1>5, <1>6, <1>7, <1>10, <1>11

----------------------------------------------------------------------------
\* What is appended leaves the results and the calls before it as they are ...
LEMMA GrowthKeepsShape ==
  ASSUME NEW t, NEW u, Len(t) \in Nat, Len(u) \in Nat, Len(t) <= Len(u),
         \A i \in 1..Len(t) : u[i] = t[i]
  PROVE  /\ \A i \in 1..Len(t) : \A j \in 1..i - 1 : ResultOf(t, j, i) => ResultOf(u, j, i)
         /\ \A n \in 0..Len(t) : Answered(t, n) => Answered(u, n)
<1>1. \A i \in 1..Len(t) : \A j \in 1..i - 1 : ResultOf(t, j, i) => ResultOf(u, j, i)
  BY DEF ResultOf
<1>2. ASSUME NEW n \in 0..Len(t), Answered(t, n) PROVE Answered(u, n)
  <2> SUFFICES ASSUME NEW j \in 1..n, u[j].role = "assistant", NEW id \in u[j].calls
               PROVE  \E i \in j + 1..Len(u) : ResultOf(u, j, i) /\ id \in u[i].calls
    BY DEF Answered
  <2>1. u[j] = t[j]
    OBVIOUS
  <2>2. PICK i \in j + 1..Len(t) : ResultOf(t, j, i) /\ id \in t[i].calls
    BY <1>2, <2>1 DEF Answered
  <2>3. i \in j + 1..Len(u) /\ i \in 1..Len(t) /\ j \in 1..i - 1
    BY <2>2
  <2> QED
    BY <1>1, <2>2, <2>3
<1> QED
  BY <1>1, <1>2

\* ... and so does cutting a transcript after a prompt.
LEMMA CutKeepsShape ==
  ASSUME NEW t, NEW u, Len(t) \in Nat, Len(u) \in 1..Len(t),
         \A i \in 1..Len(u) : u[i] = t[i],
         Asked(t), Answered(t, Len(t)), t[Len(u)].role = "user"
  PROVE  Asked(u) /\ Answered(u, Len(u))
<1>1. \A i \in 1..Len(u) : \A j \in 1..i - 1 : ResultOf(t, j, i) => ResultOf(u, j, i)
  BY DEF ResultOf
<1>2. Asked(u)
  <2> SUFFICES ASSUME NEW i \in 1..Len(u), u[i].role = "result"
               PROVE  \E j \in 1..i - 1 : ResultOf(u, j, i)
    BY DEF Asked
  <2>1. \E j \in 1..i - 1 : ResultOf(t, j, i)
    BY DEF Asked
  <2> QED
    BY <1>1, <2>1
<1>3. Answered(u, Len(u))
  <2> SUFFICES ASSUME NEW j \in 1..Len(u), u[j].role = "assistant", NEW id \in u[j].calls
               PROVE  \E i \in j + 1..Len(u) : ResultOf(u, j, i) /\ id \in u[i].calls
    BY DEF Answered
  <2>1. u[j] = t[j] /\ j \in 1..Len(t) /\ j # Len(u)
    OBVIOUS
  <2>2. PICK i \in j + 1..Len(t) : ResultOf(t, j, i) /\ id \in t[i].calls
    BY <2>1 DEF Answered
  <2>3. i < Len(u)
    <3> SUFFICES ASSUME i >= Len(u) PROVE FALSE
      BY <2>1, <2>2
    <3>1. Len(u) \in j + 1..i
      BY <2>1
    <3> QED
      BY <2>2, <3>1 DEF ResultOf
  <2>4. i \in j + 1..Len(u) /\ i \in 1..Len(u) /\ j \in 1..i - 1
    BY <2>2, <2>3
  <2> QED
    BY <1>1, <2>2, <2>4
<1> QED
  BY <1>2, <1>3

LEMMA ShapedByOneMore ==
  ASSUME ContextTypeOK, Shaped, NEW m, m.role # "result", stage # "closed", stage # "tools",
         Len(transcript') = Len(transcript) + 1, transcript'[Len(transcript) + 1] = m,
         \A i \in 1..Len(transcript) : transcript'[i] = transcript[i]
  PROVE  /\ Asked(transcript') /\ Answered(transcript', Len(transcript))
         /\ m.role = "user" => Answered(transcript', Len(transcript'))
<1>1. Len(transcript) \in Nat
  BY Typed
<1>2. /\ \A i \in 1..Len(transcript) : \A j \in 1..i - 1 :
            ResultOf(transcript, j, i) => ResultOf(transcript', j, i)
      /\ Answered(transcript', Len(transcript))
  <2> DEFINE u == transcript'
  <2>1. Len(u) \in Nat /\ Len(transcript) <= Len(u)
        /\ \A i \in 1..Len(transcript) : u[i] = transcript[i]
    BY <1>1
  <2>2. Answered(transcript, Len(transcript)) /\ Len(transcript) \in 0..Len(transcript)
    BY <1>1 DEF Shaped
  <2> HIDE DEF u
  <2>3. /\ \A i \in 1..Len(transcript) : \A j \in 1..i - 1 :
              ResultOf(transcript, j, i) => ResultOf(u, j, i)
        /\ Answered(u, Len(transcript))
    BY <1>1, <2>1, <2>2, GrowthKeepsShape
  <2> QED
    BY <2>3 DEF u
<1>3. Asked(transcript')
  <2> SUFFICES ASSUME NEW i \in 1..Len(transcript'), transcript'[i].role = "result"
               PROVE  \E j \in 1..i - 1 : ResultOf(transcript', j, i)
    BY DEF Asked
  <2>1. i \in 1..Len(transcript) /\ transcript[i].role = "result"
    BY <1>1
  <2> QED
    BY <1>2, <2>1 DEF Shaped, Asked
<1>4. m.role = "user" => Answered(transcript', Len(transcript'))
  BY <1>1, <1>2 DEF Answered
<1> QED
  BY <1>2, <1>3, <1>4

LEMMA ShapedByResults ==
  ASSUME ContextTypeOK, Shaped, ToolTurn, ToolsDone
  PROVE  Asked(transcript') /\ Answered(transcript', Len(transcript'))
<1>1. PICK n \in 1..Len(calls) :
        /\ LastMessage.calls = n..Len(calls)
        /\ transcript' \in Seq(Message)
        /\ Len(transcript') = Len(transcript) + (Len(calls) + 1 - n)
        /\ \A i \in 1..Len(transcript) : transcript'[i] = transcript[i]
        /\ \A i \in Len(transcript) + 1..Len(transcript') :
             transcript'[i] = Result(n + (i - Len(transcript) - 1))
  BY ToolsDoneAppends
<1> DEFINE t == transcript
           u == transcript'
           m == Len(transcript)
<1>2. m \in Nat /\ m >= 1 /\ Len(calls) \in Nat /\ n \in Nat /\ n <= Len(calls)
      /\ Len(u) = m + (Len(calls) + 1 - n)
  <2>1. base < m /\ base \in 0..m
    BY DEF ToolsDone, Shaped, ContextTypeOK
  <2>2. m \in Nat /\ Len(calls) \in Nat
    BY Typed
  <2> HIDE DEF m
  <2> QED
    BY <1>1, <2>1, <2>2 DEF m
<1>3. u[m].role = "assistant" /\ u[m].calls = n..Len(calls)
  BY <1>1, <1>2 DEF ToolTurn, ToolsDone, LastMessage
<1>4. \A i \in m + 1..Len(u) :
        u[i].role = "result" /\ u[i].calls = {n + (i - m - 1)}
        /\ n + (i - m - 1) \in n..Len(calls)
  <2> SUFFICES ASSUME NEW i \in m + 1..Len(u)
               PROVE  /\ u[i].role = "result" /\ u[i].calls = {n + (i - m - 1)}
                      /\ n + (i - m - 1) \in n..Len(calls)
    OBVIOUS
  <2>1. u[i] = Result(n + (i - m - 1))
    BY <1>1
  <2>2. n + (i - m - 1) \in n..Len(calls)
    <3> HIDE DEF m, u
    <3> QED BY <1>2
  <2> QED
    BY <2>1, <2>2 DEF Result
<1>5. Asked(t) /\ Answered(t, m - 1) /\ \A i \in 1..m : u[i] = t[i]
  BY <1>1 DEF Shaped, ToolsDone
<1> HIDE DEF t, u, m
<1>6. \A i \in m + 1..Len(u) : ResultOf(u, m, i)
  BY <1>2, <1>3, <1>4 DEF ResultOf
<1>7. m = Len(t)
  BY DEF m, t
<1>8. /\ \A i \in 1..m : \A j \in 1..i - 1 : ResultOf(t, j, i) => ResultOf(u, j, i)
      /\ Answered(u, m - 1)
  <2>1. Len(u) \in Nat /\ m <= Len(u) /\ m - 1 \in 0..m
    BY <1>2
  <2> QED
    BY <1>2, <1>5, <1>7, <2>1, GrowthKeepsShape
<1>9. Asked(u)
  <2> SUFFICES ASSUME NEW i \in 1..Len(u), u[i].role = "result"
               PROVE  \E j \in 1..i - 1 : ResultOf(u, j, i)
    BY DEF Asked
  <2>1. CASE i \in 1..m
    BY <1>5, <1>7, <1>8, <2>1 DEF Asked
  <2>2. CASE i \in m + 1..Len(u)
    BY <1>2, <1>6, <2>2
  <2> QED
    BY <1>2, <2>1, <2>2
<1>10. Answered(u, Len(u))
  <2> SUFFICES ASSUME NEW j \in 1..Len(u), u[j].role = "assistant", NEW id \in u[j].calls
               PROVE  \E i \in j + 1..Len(u) : ResultOf(u, j, i) /\ id \in u[i].calls
    BY DEF Answered
  <2>1. j \notin m + 1..Len(u)
    BY <1>4
  <2>2. CASE j \in 1..m - 1
    BY <1>8, <2>2 DEF Answered
  <2>3. CASE j = m
    <3>1. id \in n..Len(calls)
      BY <1>3, <2>3
    <3>2. /\ m + 1 + (id - n) \in m + 1..Len(u)
          /\ n + ((m + 1 + (id - n)) - m - 1) = id
      <4>1. id \in Int /\ n <= id /\ id <= Len(calls)
        BY <1>2, <3>1
      <4>2. Len(u) \in Int /\ Len(u) = m + (Len(calls) + 1 - n)
        BY <1>2
      <4> QED
        BY <1>2, <4>1, <4>2
    <3>3. id \in u[m + 1 + (id - n)].calls
      BY <1>4, <3>2
    <3> QED
      BY <1>6, <2>3, <3>2, <3>3
  <2> QED
    BY <1>2, <2>1, <2>2, <2>3
<1> QED
  BY <1>9, <1>10 DEF u

----------------------------------------------------------------------------
LEMMA PrefixKept ==
  ASSUME NEW S, NEW T, NEW t \in Seq(S), NEW u \in Seq(T), Len(t) <= Len(u), NEW n \in 0..Len(t),
         \A i \in 1..Len(t) : u[i] = t[i]
  PROVE  SubSeq(u, 1, n) = SubSeq(t, 1, n)
<1>1. Len(t) \in Nat /\ Len(u) \in Nat /\ n \in Nat
  BY LenProperties
<1>2. \A i \in 1..n : t[i] \in S /\ u[i] = t[i]
  BY <1>1, ElementOfSeq
<1>3. /\ SubSeq(t, 1, n) \in Seq(S) /\ SubSeq(u, 1, n) \in Seq(S)
      /\ Len(SubSeq(t, 1, n)) = Len(SubSeq(u, 1, n))
      /\ Len(SubSeq(t, 1, n)) = (IF 1 <= n THEN n - 1 + 1 ELSE 0)
      /\ \A i \in 1..n - 1 + 1 : SubSeq(t, 1, n)[i] = t[1 + i - 1]
                                /\ SubSeq(u, 1, n)[i] = u[1 + i - 1]
  BY <1>1, <1>2, SubSeqProperties
<1>4. \A i \in 1..Len(SubSeq(t, 1, n)) : SubSeq(t, 1, n)[i] = SubSeq(u, 1, n)[i]
  BY <1>1, <1>2, <1>3
<1> QED
  BY <1>3, <1>4, SeqEqual

\* Recording leaves the turn and the kind of every call as they are.
LEMMA BesideKept ==
  ASSUME ContextTypeOK, NEW id \in Ids, Recording(id)
  PROVE  \A k \in Ids : Beside(k)' <=> Beside(k)
<1>1. /\ Ids' = Ids
      /\ \A k \in Ids : calls'[k].tool = calls[k].tool /\ calls'[k].asked = calls[k].asked
  <2> HIDE DEF Call
  <2> QED BY CallsTyped
<1> QED BY <1>1 DEF Beside

\* What recording does to the call it is about.
LEMMA RecordedCall ==
  ASSUME ContextTypeOK, Cited, Fresh, NEW id \in Ids, Recording(id)
  PROVE  /\ calls[id].phase # "done" /\ calls'[id].phase # "running"
         /\ calls'[id].turn = IF calls[id].phase = "running" THEN turn ELSE calls[id].turn
         /\ Observed(id) => Observed(id)'
         /\ Demoted(id)' /\ calls'[id].phase \in {"cited", "pushed", "done"} => Evidence(id)'
         /\ calls'[id].phase = "drafted" /\ calls'[id].saw # "none" => source = calls'[id].saw
<1>1. calls[id] \in Call /\ id \in DOMAIN calls
  <2> HIDE DEF Call
  <2> QED BY Typed, ElementOfSeq DEF Ids
<1>2. calls[id].tool \in ToolKinds /\ calls[id].phase \in Phases
  BY <1>1 DEF Call
<1>b. Beside(id)' <=> Beside(id)
  BY BesideKept
<1>3. CASE ToolReturns(id)
  <2>1. calls'[id] = [calls[id] EXCEPT !.phase = "drafted", !.turn = turn, !.saw = TextRead(id)]
    BY <1>1, <1>3 DEF ToolReturns, Call
  <2>2. /\ calls'[id].phase = "drafted" /\ calls'[id].turn = turn /\ calls[id].phase = "running"
        /\ calls'[id].saw = TextRead(id)
    BY <1>1, <1>3, <2>1 DEF ToolReturns, Call
  <2> QED
    BY <2>2 DEF Observed, TextRead
<1>4. CASE KeepBashOutput(id) \/ CiteSource(id)
  <2>1. PICK cite \in SourceTexts \cup {"raw"} :
          /\ calls'[id] = [calls[id] EXCEPT !.phase = "cited", !.cites = cite]
          /\ cite = "raw" => id \in rawFiles'
          /\ cite # "raw" => cite = source /\ calls[id].saw # "none"
    <3>1. CASE KeepBashOutput(id)
      BY <1>1, <3>1 DEF KeepBashOutput, Call
    <3>2. CASE CiteSource(id)
      <4>1. source \in SourceTexts \cup {"gone"}
        BY DEF ContextTypeOK
      <4>2. PICK cite \in SourceTexts \cup {"raw"} :
              /\ calls' = [calls EXCEPT ![id].phase = "cited", ![id].cites = cite]
              /\ cite = "raw" => id \in rawFiles'
              /\ cite # "raw" => cite = source /\ calls[id].saw # "none"
        BY <3>2, <4>1, ContextDeclarations DEF CiteSource
      <4>3. calls'[id] = [calls[id] EXCEPT !.phase = "cited", !.cites = cite]
        BY <1>1, <4>2 DEF Call
      <4> QED BY <4>2, <4>3
    <3> QED BY <1>4, <3>1, <3>2
  <2>2. /\ calls'[id].phase = "cited" /\ calls'[id].turn = calls[id].turn /\ calls'[id].cites = cite
        /\ calls'[id].saw = calls[id].saw /\ calls[id].phase = "drafted"
    BY <1>1, <1>4, <2>1 DEF KeepBashOutput, CiteSource, Call
  <2>3. cite # "raw" => cite \in SourceTexts /\ (cite = calls[id].saw \/ Beside(id))
    BY <2>1, <2>2 DEF Fresh
  <2>4. Evidence(id)'
    BY <1>b, <2>1, <2>2, <2>3 DEF Evidence
  <2> QED
    BY <2>2, <2>4 DEF Observed
<1>5. CASE Push(id) \/ AppendObservation(id)
  <2>1. PICK phase \in {"pushed", "done"} :
          calls'[id] = [calls[id] EXCEPT !.phase = phase]
    BY <1>1, <1>5 DEF Push, AppendObservation, Call
  <2>2. /\ calls'[id].phase \in {"pushed", "done"} /\ calls'[id].turn = calls[id].turn
        /\ calls'[id].cites = calls[id].cites /\ calls'[id].saw = calls[id].saw
        /\ calls'[id].tool = calls[id].tool
    BY <1>1, <2>1 DEF Call
  <2>3. /\ calls[id].phase \in {"drafted", "cited", "pushed"} /\ rawFiles' = rawFiles
        /\ calls[id].phase = "drafted" => ~Demoted(id)
    BY <1>5 DEF Push, AppendObservation
  <2>4. Demoted(id)' <=> Demoted(id)
    BY <2>2 DEF Demoted
  <2>5. Evidence(id) => Evidence(id)'
    BY <1>b, <2>2, <2>3 DEF Evidence
  <2> QED
    BY <2>2, <2>3, <2>4, <2>5 DEF Observed, Cited
<1> QED
  BY <1>3, <1>4, <1>5 DEF Recording

\* A step that is no recording keeps what is cited, and what may still be.
LEMMA CitationsStay ==
  ASSUME Cited, Fresh, UNCHANGED <<calls, rawFiles, source>>,
         turn' = turn \/ \A id \in Ids : calls[id].phase = "done",
         \A id \in view'.stubs : Observed(id)
  PROVE  Cited' /\ Fresh'
<1>1. /\ Ids' = Ids
      /\ \A id :
            /\ Beside(id)' <=> Beside(id)
            /\ Evidence(id)' <=> Evidence(id)
            /\ Demoted(id)' <=> Demoted(id)
            /\ Observed(id)' <=> Observed(id)
  BY DEF Ids, Beside, Evidence, Demoted, Observed
<1> QED BY <1>1 DEF Cited, Fresh

LEMMA ContextInvariantInit == ContextInit => ContextInvariant
<1> SUFFICES ASSUME ContextInit PROVE ContextInvariant
  OBVIOUS
<1>1. ContextTypeOK
  BY ContextDeclarations DEF ContextInit, ContextTypeOK, Stages, NoView, Ids
<1>2. Ids = {} /\ Len(transcript) = 0
  BY DEF ContextInit, Ids
<1> QED
  BY <1>1, <1>2 DEF ContextInit, ContextInvariant, Shaped, Asked, Answered, ToolTurn, Cited,
    Fresh, Viewed, NoView

LEMMA TypedAfter ==
  ASSUME ContextTypeOK,
         stage' \in Stages, transcript' \in Seq(Message'), base' \in 0..Len(transcript'),
         turn' \in 0..MaxTurns, prompts' \in 0..MaxPrompts,
         calls' \in Seq(Call), Len(calls') <= MaxCalls, Ids \subseteq Ids',
         rawFiles' \subseteq Ids', source' \in SourceTexts \cup {"gone"}, shown' \subseteq Ids',
         view' \in [from : Nat, upto : Nat, stubs : SUBSET Ids'],
         archive' \in Nat, catalog' \in Nat
  PROVE  ContextTypeOK'
BY DEF ContextTypeOK, Message, Call

LEMMA ContextInvariantNext ==
  ContextInvariant /\ [ContextNext]_contextVars => ContextInvariant'
<1> SUFFICES ASSUME ContextInvariant, [ContextNext]_contextVars PROVE ContextInvariant'
  OBVIOUS
<1>t. /\ ContextTypeOK /\ transcript \in Seq(Message) /\ transcript \in Transcripts
      /\ calls \in Seq(Call) /\ Ids = 1..Len(calls) /\ Len(calls) \in Nat
      /\ Len(transcript) \in Nat
  BY Typed DEF ContextInvariant
<1>c. /\ stage \in Stages /\ base \in 0..Len(transcript) /\ turn \in 0..MaxTurns
      /\ prompts \in 0..MaxPrompts /\ Len(calls) <= MaxCalls
      /\ rawFiles \subseteq Ids /\ source \in SourceTexts \cup {"gone"} /\ shown \subseteq Ids
      /\ view \in [from : Nat, upto : Nat, stubs : SUBSET Ids]
      /\ archive \in Nat /\ catalog \in Nat
  BY <1>t DEF ContextTypeOK
<1>s. Shaped /\ ToolTurn /\ Cited /\ Fresh /\ Viewed /\ Asked(transcript)
  BY DEF ContextInvariant, Shaped
<1>o. \A id \in view.stubs : Observed(id)
  BY <1>s DEF Cited
<1>1. CASE Prompt
  <2>1. /\ stage = "idle" /\ stage' = "starting" /\ base' = Len(transcript)
        /\ transcript' = Append(transcript, User) /\ prompts' = prompts + 1
        /\ prompts < MaxPrompts
        /\ UNCHANGED <<turn, view, shown, archive, calls, rawFiles, source, catalog>>
    BY <1>1 DEF Prompt, viewVars
  <2>2. User \in Message /\ User.role = "user" /\ Ids' = Ids
    BY <2>1 DEF User, Message, Ids
  <2>3. /\ transcript' \in Seq(Message) /\ Len(transcript') = Len(transcript) + 1
        /\ transcript'[Len(transcript) + 1] = User
        /\ \A i \in 1..Len(transcript) : transcript'[i] = transcript[i]
    <3> HIDE DEF Message, User
    <3> QED BY <1>t, <2>1, <2>2, GrownByOne
  <2>4. ContextTypeOK'
    <3>1. Message' = Message
      BY <2>2 DEF Message
    <3>2. prompts' \in 0..MaxPrompts /\ base' \in 0..Len(transcript') /\ stage' \in Stages
      BY <1>t, <1>c, <2>1, <2>3, ContextDeclarations DEF Stages
    <3> HIDE DEF Message, Call
    <3> QED BY <1>t, <1>c, <2>1, <2>2, <2>3, <3>1, <3>2, TypedAfter
  <2>5. Shaped'
    <3>1. Asked(transcript') /\ Answered(transcript', Len(transcript'))
      BY <1>t, <1>s, <2>1, <2>2, <2>3, ShapedByOneMore
    <3> QED
      BY <1>t, <2>1, <2>2, <2>3, <3>1 DEF Shaped
  <2>6. ToolTurn' /\ Viewed'
    BY <1>s, <2>1, <2>2 DEF ToolTurn, Viewed
  <2>7. Cited' /\ Fresh'
    BY <1>s, <1>o, <2>1, CitationsStay
  <2> QED
    BY <2>4, <2>5, <2>6, <2>7 DEF ContextInvariant
<1>2. CASE StartTurn
  <2>1. /\ stage = "starting" /\ stage' = "viewing" /\ turn' = turn + 1 /\ turn < MaxTurns
        /\ UNCHANGED <<transcript, base, prompts, view, shown, archive, calls, rawFiles, source, catalog>>
    BY <1>2 DEF StartTurn, viewVars
  <2>2. Ids' = Ids
    BY <2>1 DEF Ids
  <2>3. ContextTypeOK'
    BY <1>t, <1>c, <2>1, <2>2, ContextDeclarations DEF ContextTypeOK, Stages
  <2>4. \A id \in Ids : calls[id].phase = "done"
    BY <1>s, <2>1 DEF ToolTurn
  <2>5. Cited' /\ Fresh'
    BY <1>s, <1>o, <2>1, <2>4, CitationsStay
  <2> QED
    BY <1>s, <2>1, <2>2, <2>3, <2>4, <2>5
    DEF ContextInvariant, Shaped, ToolTurn, Viewed
<1>3. CASE Project
  <2>1. /\ stage = "viewing" /\ stage' = "asking" /\ view' = Projected
        /\ archive' = Projected.from
        /\ shown' = shown \cup (ResultsFrom(transcript, Projected.from) \ Projected.stubs)
        /\ UNCHANGED <<transcript, base, turn, prompts, calls, rawFiles, source, catalog>>
    BY <1>3 DEF Project
  <2>2. /\ Projected \in [from : Nat, upto : Nat, stubs : SUBSET Ids]
        /\ ResultsFrom(transcript, Projected.from) \subseteq Ids
        /\ Projected.from = ArchivedCount(transcript) /\ Projected.upto = Len(transcript)
        /\ ArchivedCount(transcript) \in 0..Len(transcript)
    BY <1>t, <1>s, ViewTyped
  <2>3. Ids' = Ids
    BY <2>1 DEF Ids
  <2>4. ContextTypeOK'
    BY <1>t, <1>c, <2>1, <2>2, <2>3 DEF ContextTypeOK, Stages
  <2>5. Shaped' /\ ToolTurn'
    BY <1>s, <2>1, <2>3 DEF Shaped, ToolTurn
  <2>6. Cited' /\ Fresh'
    <3>1. \A id \in Projected.stubs : Observed(id)
      BY DEF Projected, ShouldProject
    <3> QED
      BY <1>s, <2>1, <3>1, CitationsStay
  <2>7. Viewed'
    <3>1. SubSeq(transcript, 1, Len(transcript)) = transcript
      BY <1>t, SubSeqFull
    <3>2. view'.upto = Len(transcript) /\ view'.from = ArchivedCount(transcript)
          /\ archive' = view'.from
      BY <2>1, <2>2
    <3>3. SubSeq(transcript', 1, view'.upto) = transcript
      BY <2>1, <3>1, <3>2
    <3>4. view'.upto = Len(transcript') /\ view'.upto \in 0..Len(transcript')
      BY <1>t, <2>1, <3>2
    <3>5. view'.from = ArchivedCount(SubSeq(transcript', 1, view'.upto))
      BY <3>2, <3>3
    <3>6. archive' >= view'.from
      BY <1>t, <2>2, <3>2
    <3> QED
      BY <2>1, <3>4, <3>5, <3>6 DEF Viewed
  <2> QED
    BY <2>4, <2>5, <2>6, <2>7 DEF ContextInvariant
<1>4. ASSUME NEW tools \in Batches, Answer(tools) PROVE ContextInvariant'
  <2>1. /\ tools \in Seq(ToolKinds) /\ Len(tools) \in Nat
        /\ Len(calls') = Len(calls) + Len(tools) /\ calls' \in Seq(Call) /\ Ids' = 1..Len(calls')
        /\ Len(calls') <= MaxCalls
        /\ \A id \in 1..Len(calls) : calls'[id] = calls[id]
        /\ \A id \in Len(calls) + 1..Len(calls') :
              calls'[id].phase = "running" /\ calls'[id].asked = turn
        /\ transcript' \in Seq(Message') /\ Len(transcript') = Len(transcript) + 1
        /\ transcript'[Len(transcript) + 1] = Assistant(Len(calls) + 1..Len(calls'))
        /\ \A i \in 1..Len(transcript) : transcript'[i] = transcript[i]
    <3> HIDE DEF Message, Call, Assistant
    <3> QED BY <1>t, <1>4, AnswerAppends
  <2>2. /\ stage = "asking" /\ stage' = (IF tools = <<>> THEN "turn_end" ELSE "tools")
        /\ UNCHANGED <<base, turn, prompts, view, shown, archive, rawFiles, source, catalog>>
    BY <1>4 DEF Answer, viewVars
  <2>3. Ids \subseteq Ids'
    BY <1>t, <2>1
  <2>4. ContextTypeOK'
    <3>1. view' \in [from : Nat, upto : Nat, stubs : SUBSET Ids']
      BY <1>c, <2>2, <2>3
    <3>2. base' \in 0..Len(transcript') /\ stage' \in Stages
      BY <1>t, <1>c, <2>1, <2>2 DEF Stages
    <3> HIDE DEF Message, Call, Assistant
    <3> QED BY <1>t, <1>c, <2>1, <2>2, <2>3, <3>1, <3>2, TypedAfter
  <2>5. Shaped'
    <3> DEFINE m == Assistant(Len(calls) + 1..Len(calls'))
    <3>1. m.role # "result"
      BY DEF Assistant
    <3>2. Asked(transcript') /\ Answered(transcript', Len(transcript))
      <4> HIDE DEF m
      <4>1. transcript'[Len(transcript) + 1] = m
        BY <2>1 DEF m
      <4> QED BY <1>t, <1>s, <2>1, <2>2, <3>1, <4>1, ShapedByOneMore
    <3>3. tools = <<>> => Answered(transcript', Len(transcript'))
      <4> SUFFICES ASSUME tools = <<>> PROVE Answered(transcript', Len(transcript'))
        OBVIOUS
      <4>1. transcript'[Len(transcript) + 1].calls = {}
        BY <1>t, <2>1 DEF Assistant
      <4> QED
        BY <1>t, <2>1, <3>2, <4>1 DEF Answered
    <3>4. base < Len(transcript) /\ transcript[base + 1].role = "user"
      BY <1>s, <2>2 DEF Shaped
    <3>5. base' < Len(transcript') /\ transcript'[base' + 1].role = "user"
      <4>1. base + 1 \in 1..Len(transcript)
        BY <1>t, <1>c, <3>4
      <4>2. transcript'[base + 1] = transcript[base + 1]
        BY <2>1, <4>1
      <4>3. base < Len(transcript')
        BY <1>t, <1>c, <2>1, <3>4
      <4> QED
        BY <2>2, <3>4, <4>2, <4>3
    <3> QED
      BY <1>t, <2>1, <2>2, <3>2, <3>3, <3>5 DEF Shaped
  <2>6. ToolTurn'
    <3>1. \A id \in Ids : calls[id].phase = "done"
      BY <1>s, <2>2 DEF ToolTurn
    <3>2. LastMessage'.role = "assistant" /\ LastMessage'.calls = Len(calls) + 1..Len(calls')
      BY <2>1 DEF LastMessage, Assistant
    <3>3. tools # <<>> => Len(calls) + 1 \in 1..Len(calls')
      BY <1>t, <2>1
    <3>4. \A id \in LastMessage'.calls : calls'[id].phase = "running"
      BY <2>1, <3>2
    <3>5. \A id \in Ids' : calls'[id].phase # "done" => id \in LastMessage'.calls /\ tools # <<>>
      BY <1>t, <2>1, <3>1, <3>2
    <3> QED
      BY <2>2, <3>2, <3>3, <3>4, <3>5 DEF ToolTurn
  <2>7. Cited' /\ Fresh'
    <3>1. \A id \in Ids' : calls'[id].phase # "running" => id \in Ids /\ calls'[id] = calls[id]
      BY <1>t, <2>1
    <3>2. \A id \in view.stubs : calls'[id] = calls[id]
      BY <1>t, <1>c, <2>1
    <3>3. \A id \in Ids : calls[id].phase = "done" /\ calls'[id] = calls[id]
      BY <1>t, <1>s, <2>1, <2>2 DEF ToolTurn
    <3>4. \A id \in Ids : Beside(id) => Beside(id)'
      BY <2>3, <3>3 DEF Beside
    <3>5. \A id \in Ids : Evidence(id) => Evidence(id)'
      BY <2>2, <3>3, <3>4 DEF Evidence
    <3>6. Cited'
      BY <1>s, <2>2, <3>1, <3>2, <3>5 DEF Cited, Demoted, Observed
    <3>7. Fresh'
      <4>1. \A id \in Ids' : calls'[id].phase # "done" => calls'[id].phase = "running"
        BY <3>1, <3>3
      <4>2. \A id \in Ids' : calls'[id].phase # "done" => calls'[id].asked = turn
        <5>1. \A id \in Ids' : id \in Ids \/ id \in Len(calls) + 1..Len(calls')
          BY <1>t, <2>1
        <5>2. \A id \in Ids : calls'[id].phase = "done"
          BY <3>3
        <5> QED BY <2>1, <5>1, <5>2
      <4> QED BY <2>2, <4>1, <4>2 DEF Fresh
    <3> QED
      BY <3>6, <3>7
  <2>8. Viewed'
    <3>1. view.upto = Len(transcript) /\ view.from = ArchivedCount(SubSeq(transcript, 1, view.upto))
      BY <1>s, <2>2 DEF Viewed
    <3>2. SubSeq(transcript', 1, view.upto) = SubSeq(transcript, 1, view.upto)
      <4> HIDE DEF Message
      <4>1. Len(transcript) <= Len(transcript') /\ view.upto \in 0..Len(transcript)
        BY <1>t, <2>1, <3>1
      <4> QED BY <1>t, <2>1, <4>1, PrefixKept
    <3>3. view.upto \in 0..Len(transcript') /\ stage' # "asking" /\ stage' # "closed"
      BY <1>t, <2>1, <2>2, <3>1
    <3>4. ArchivedCount(SubSeq(transcript', 1, view'.upto)) = view'.from
      BY <2>2, <3>1, <3>2
    <3>5. archive' >= view'.from
      BY <1>s, <2>2 DEF Viewed
    <3> QED
      BY <2>2, <3>3, <3>4, <3>5 DEF Viewed
  <2> QED
    BY <2>4, <2>5, <2>6, <2>7, <2>8 DEF ContextInvariant
<1>5. CASE ProviderThrows
  <2>1. /\ stage = "asking" /\ stage' = "starting"
        /\ transcript' = SubSeq(transcript, 1, base + 1)
        /\ UNCHANGED <<base, turn, prompts, view, shown, archive, calls, rawFiles, source, catalog>>
    BY <1>5 DEF ProviderThrows, viewVars
  <2>2. /\ base + 1 \in 1..Len(transcript) /\ transcript[base + 1].role = "user"
        /\ Asked(transcript) /\ Answered(transcript, Len(transcript))
    BY <1>t, <1>c, <1>s, <2>1 DEF Shaped
  <2>3. Ids' = Ids /\ Message' = Message
    BY <2>1 DEF Ids, Message
  <2>4. /\ transcript' \in Seq(Message) /\ Len(transcript') = base + 1
        /\ \A i \in 1..base + 1 : transcript'[i] = transcript[i]
    <3>1. base + 1 \in Int /\ base + 1 >= 1 /\ \A i \in 1..base + 1 : i \in 1..Len(transcript)
      BY <1>t, <1>c, <2>2
    <3> HIDE DEF Message
    <3>2. \A i \in 1..base + 1 : transcript[i] \in Message
      BY <1>t, <3>1, ElementOfSeq
    <3> DEFINE n == base + 1
    <3>3. n \in Int /\ n >= 1 /\ \A i \in 1..n : transcript[i] \in Message
      BY <3>1, <3>2
    <3>4. transcript' = SubSeq(transcript, 1, n)
      BY <2>1
    <3> HIDE DEF n
    <3>5. /\ transcript' \in Seq(Message)
          /\ Len(transcript') = (IF 1 <= n THEN n - 1 + 1 ELSE 0)
          /\ \A i \in 1..n - 1 + 1 : transcript'[i] = transcript[1 + i - 1]
      BY <3>3, <3>4, SubSeqProperties
    <3>6. /\ transcript' \in Seq(Message) /\ Len(transcript') = n
          /\ \A i \in 1..n : transcript'[i] = transcript[i]
      BY <3>3, <3>5
    <3> QED
      BY <3>6 DEF n
  <2>5. ContextTypeOK'
    <3>1. base' \in 0..Len(transcript') /\ stage' \in Stages
      BY <1>c, <2>1, <2>2, <2>4 DEF Stages
    <3> HIDE DEF Message, Call
    <3> QED BY <1>t, <1>c, <2>1, <2>3, <2>4, <3>1, TypedAfter
  <2>6. Shaped'
    <3> DEFINE u == transcript'
    <3>1. /\ Len(u) \in 1..Len(transcript) /\ transcript[Len(u)].role = "user"
          /\ \A i \in 1..Len(u) : u[i] = transcript[i]
      BY <2>2, <2>4
    <3> HIDE DEF u
    <3>2. Asked(u) /\ Answered(u, Len(u))
      BY <1>t, <2>2, <3>1, CutKeepsShape
    <3>3. base < Len(u) /\ u[base + 1].role = "user"
      BY <1>c, <2>2, <2>4 DEF u
    <3> QED
      BY <2>1, <3>2, <3>3 DEF Shaped, u
  <2>7. ToolTurn' /\ Viewed'
    BY <1>s, <2>1, <2>3 DEF ToolTurn, Viewed
  <2>8. Cited' /\ Fresh'
    BY <1>s, <1>o, <2>1, CitationsStay
  <2> QED
    BY <2>5, <2>6, <2>7, <2>8 DEF ContextInvariant
<1>6. ASSUME NEW id \in Ids, Recording(id) PROVE ContextInvariant'
  <2>1. /\ calls' \in Seq(Call) /\ Len(calls') = Len(calls) /\ Ids' = Ids
        /\ \A other \in Ids \ {id} : calls'[other] = calls[other]
        /\ calls'[id].tool = calls[id].tool /\ calls'[id].asked = calls[id].asked
        /\ rawFiles \subseteq rawFiles' /\ rawFiles' \subseteq Ids
        /\ UNCHANGED <<stage, transcript, base, turn, prompts, view, shown, archive, source,
                        catalog>>
    <3> HIDE DEF Call
    <3> QED BY <1>t, <1>6, CallsTyped DEF loopVars, viewVars
  <2>2. /\ calls[id].phase # "done" /\ calls'[id].phase # "running"
        /\ calls'[id].turn = IF calls[id].phase = "running" THEN turn ELSE calls[id].turn
        /\ Observed(id) => Observed(id)'
        /\ Demoted(id)' /\ calls'[id].phase \in {"cited", "pushed", "done"} => Evidence(id)'
        /\ calls'[id].phase = "drafted" /\ calls'[id].saw # "none" => source = calls'[id].saw
    BY <1>t, <1>s, <1>6, RecordedCall
  <2>3. ContextTypeOK'
    BY <1>t, <1>c, <2>1 DEF ContextTypeOK
  <2>4. Shaped' /\ Viewed'
    BY <1>s, <2>1 DEF Shaped, Viewed
  <2>5. ToolTurn'
    <3>1. stage = "tools" => LastMessage' = LastMessage /\ LastMessage.calls \subseteq Ids
      BY <1>t, <1>s, <2>1 DEF ToolTurn, LastMessage
    <3>2. stage = "tools" => \A other \in LastMessage.calls :
            calls'[other].phase # "running" => calls'[other].turn = turn
      BY <1>s, <2>1, <2>2, <3>1 DEF ToolTurn
    <3> QED
      BY <1>s, <2>1, <2>2, <3>1, <3>2 DEF ToolTurn
  <2>6. \A k \in Ids : Beside(k)' <=> Beside(k)
    BY <1>t, <1>6, BesideKept
  <2>7. \A other \in Ids \ {id} :
          /\ Demoted(other)' <=> Demoted(other)
          /\ Observed(other)' <=> Observed(other)
          /\ Evidence(other) => Evidence(other)'
    BY <2>1, <2>6 DEF Demoted, Observed, Evidence
  <2>8. Cited'
    <3>1. \A other \in Ids :
            Demoted(other)' /\ calls'[other].phase \in {"cited", "pushed", "done"}
              => Evidence(other)'
      BY <1>s, <2>1, <2>2, <2>7 DEF Cited
    <3>2. \A other \in view.stubs : Observed(other)'
      BY <1>c, <1>o, <2>2, <2>7
    <3> QED
      BY <2>1, <3>1, <3>2 DEF Cited
  <2>9. Fresh'
    <3>1. \A other \in Ids : calls'[other].phase # "done" => calls'[other].asked = turn
      BY <1>s, <2>1, <2>2 DEF Fresh
    <3>2. \A other \in Ids : calls'[other].phase = "drafted" /\ calls'[other].saw # "none" =>
            source = calls'[other].saw \/ Beside(other)'
      BY <1>s, <2>1, <2>2, <2>6 DEF Fresh
    <3> QED
      BY <2>1, <3>1, <3>2 DEF Fresh
  <2> QED
    BY <2>3, <2>4, <2>5, <2>8, <2>9 DEF ContextInvariant
<1>11. CASE SourceChanges
  <2>1. /\ source' \in SourceTexts \cup {"gone"}
        /\ UNCHANGED <<stage, transcript, base, turn, prompts, view, shown, archive, calls,
                        rawFiles, catalog>>
    BY <1>11 DEF SourceChanges, loopVars, viewVars
  <2>2. Ids' = Ids
    BY <2>1 DEF Ids
  <2>3. ContextTypeOK'
    BY <1>t, <1>c, <2>1, <2>2 DEF ContextTypeOK
  <2>4. Shaped' /\ ToolTurn' /\ Viewed'
    BY <1>s, <2>1, <2>2 DEF Shaped, ToolTurn, LastMessage, Viewed
  <2>5. \A id :
          /\ Beside(id)' <=> Beside(id)
          /\ Evidence(id)' <=> Evidence(id)
          /\ Demoted(id)' <=> Demoted(id)
          /\ Observed(id)' <=> Observed(id)
    BY <2>1, <2>2 DEF Beside, Evidence, Demoted, Observed
  <2>6. Cited'
    BY <1>s, <2>1, <2>2, <2>5 DEF Cited
  \* Whatever is not recorded yet is of the turn of the tool that writes.
  <2>7. PICK j \in Ids : calls[j].phase = "running" /\ calls[j].tool # "read"
    BY <1>11 DEF SourceChanges
  <2>8. \A id \in Ids : calls[id].phase = "drafted" => Beside(id)
    BY <1>s, <2>7 DEF Fresh, Beside
  <2>9. Fresh'
    BY <1>s, <2>1, <2>2, <2>5, <2>8 DEF Fresh
  <2> QED
    BY <2>3, <2>4, <2>6, <2>9 DEF ContextInvariant
<1>7. CASE ToolsDone
  <2>1. /\ stage = "tools" /\ stage' = "turn_end"
        /\ \A id \in LastMessage.calls : calls[id].phase = "done"
        /\ UNCHANGED <<base, turn, prompts, view, shown, archive, calls, rawFiles, source, catalog>>
    BY <1>7 DEF ToolsDone, viewVars, LastMessage
  <2>2. /\ transcript' \in Seq(Message) /\ Len(transcript') >= Len(transcript)
        /\ \A i \in 1..Len(transcript) : transcript'[i] = transcript[i]
    <3>1. \E n \in 1..Len(calls) :
           /\ transcript' \in Seq(Message)
           /\ Len(transcript') = Len(transcript) + (Len(calls) + 1 - n)
           /\ \A i \in 1..Len(transcript) : transcript'[i] = transcript[i]
      <4> HIDE DEF Message
      <4> QED BY <1>t, <1>s, <1>7, ToolsDoneAppends
    <3> HIDE DEF Message
    <3> QED
      BY <1>t, <3>1
  <2>3. Ids' = Ids /\ Message' = Message
    BY <2>1 DEF Ids, Message
  <2>4. Len(transcript') \in Nat
    <3> HIDE DEF Message
    <3> QED BY <2>2, LenProperties
  <2>5. ContextTypeOK'
    <3>1. base' \in 0..Len(transcript') /\ stage' \in Stages
      BY <1>t, <1>c, <2>1, <2>2, <2>4 DEF Stages
    <3> HIDE DEF Message, Call
    <3> QED BY <1>t, <1>c, <2>1, <2>2, <2>3, <3>1, TypedAfter
  <2>6. Shaped'
    <3>1. Asked(transcript') /\ Answered(transcript', Len(transcript'))
      BY <1>t, <1>s, <1>7, ShapedByResults
    <3>2. base < Len(transcript) /\ transcript[base + 1].role = "user"
      BY <1>s, <2>1 DEF Shaped
    <3>3. base < Len(transcript') /\ transcript'[base + 1].role = "user"
      <4>1. base + 1 \in 1..Len(transcript) /\ base < Len(transcript')
        BY <1>t, <1>c, <2>2, <2>4, <3>2
      <4> QED
        BY <2>2, <3>2, <4>1
    <3> QED
      BY <2>1, <3>1, <3>3 DEF Shaped
  <2>7. ToolTurn' /\ Cited' /\ Fresh'
    <3>1. ToolTurn'
      BY <1>s, <2>1, <2>3 DEF ToolTurn
    <3>2. Cited' /\ Fresh'
      BY <1>s, <1>o, <2>1, CitationsStay
    <3> QED BY <3>1, <3>2
  <2>8. Viewed'
    <3>1. view.upto \in 0..Len(transcript)
          /\ view.from = ArchivedCount(SubSeq(transcript, 1, view.upto))
          /\ archive >= view.from
      BY <1>s, <2>1 DEF Viewed
    <3>2. SubSeq(transcript', 1, view.upto) = SubSeq(transcript, 1, view.upto)
      <4> HIDE DEF Message
      <4>1. Len(transcript) <= Len(transcript')
        BY <1>t, <2>2, <2>4
      <4> QED BY <1>t, <2>2, <3>1, <4>1, PrefixKept
    <3>3. view.upto \in 0..Len(transcript')
      BY <1>t, <2>2, <2>4, <3>1
    <3>4. ArchivedCount(SubSeq(transcript', 1, view'.upto)) = view'.from
      BY <2>1, <3>1, <3>2
    <3> QED
      BY <2>1, <3>1, <3>3, <3>4 DEF Viewed
  <2> QED
    BY <2>5, <2>6, <2>7, <2>8 DEF ContextInvariant
<1>8. CASE TurnEnds
  <2>1. /\ stage = "turn_end" /\ stage' \in {"idle", "starting"}
        /\ archive' = ArchivedCount(transcript)
        /\ catalog' \in {catalog, archive'}
        /\ UNCHANGED <<transcript, base, turn, prompts, view, shown, calls, rawFiles, source>>
    BY <1>8 DEF TurnEnds
  <2>2. Ids' = Ids
    BY <2>1 DEF Ids
  <2>3. archive' \in Nat
    BY <1>t, <1>s, <2>1, BoundaryBeforeNoResult
  <2>4. ContextTypeOK'
    BY <1>t, <1>c, <2>1, <2>2, <2>3 DEF ContextTypeOK, Stages
  <2>5. Shaped' /\ ToolTurn' /\ Cited' /\ Fresh'
    <3>1. Shaped' /\ ToolTurn'
      BY <1>s, <2>1, <2>2 DEF Shaped, ToolTurn
    <3>2. Cited' /\ Fresh'
      BY <1>s, <1>o, <2>1, CitationsStay
    <3> QED BY <3>1, <3>2
  <2>6. archive' >= view.from
    <3>1. view.upto \in 0..Len(transcript)
          /\ view.from = ArchivedCount(SubSeq(transcript, 1, view.upto))
      BY <1>s, <2>1 DEF Viewed
    <3>2. ArchivedCount(SubSeq(transcript, 1, view.upto)) <= ArchivedCount(transcript)
      BY <1>t, <1>s, <3>1, ArchiveGrows
    <3>3. view.from <= archive' /\ view.from \in Nat
      BY <1>c, <2>1, <3>1, <3>2
    <3> QED
      BY <2>3, <3>3
  <2> QED
    BY <2>1, <2>4, <2>5, <2>6 DEF ContextInvariant, Viewed
<1>9. CASE Close
  <2>1. /\ stage # "closed" /\ stage' = "closed"
        /\ catalog' = (IF archive > 0 THEN archive ELSE catalog)
        /\ UNCHANGED <<transcript, base, turn, prompts, view, shown, archive, calls, rawFiles, source>>
    BY <1>9 DEF Close, viewVars
  <2>2. Ids' = Ids
    BY <2>1 DEF Ids
  <2>3. ContextTypeOK'
    BY <1>t, <1>c, <2>1, <2>2 DEF ContextTypeOK, Stages
  <2>4. archive >= view.from
    BY <1>s, <2>1 DEF Viewed
  <2>5. Viewed'
    BY <1>c, <2>1, <2>4 DEF Viewed
  <2>6. Cited' /\ Fresh'
    BY <1>s, <1>o, <2>1, CitationsStay
  <2> QED
    BY <1>s, <2>1, <2>2, <2>3, <2>5, <2>6 DEF ContextInvariant, Shaped, ToolTurn
<1>10. CASE UNCHANGED contextVars
  <2>1. UNCHANGED <<stage, transcript, base, turn, prompts, view, shown, archive, calls,
                    rawFiles, source, catalog>> /\ Ids' = Ids
    BY <1>10 DEF contextVars, loopVars, viewVars, Ids
  <2>2. ContextTypeOK'
    BY <1>t, <1>c, <2>1 DEF ContextTypeOK
  <2>3. Cited' /\ Fresh'
    BY <1>s, <1>o, <2>1, CitationsStay
  <2> QED
    BY <1>s, <2>1, <2>2, <2>3
    DEF ContextInvariant, Shaped, ToolTurn, Viewed, LastMessage
<1> QED
  BY <1>1, <1>2, <1>3, <1>4, <1>5, <1>6, <1>7, <1>8, <1>9, <1>10, <1>11 DEF ContextNext

LEMMA ContextInvariantHolds == ContextSpec => []ContextInvariant
BY ContextInvariantInit, ContextInvariantNext, PTL DEF ContextSpec

\* The transcript, the observations and the view keep their types: a run stays
\* within its turns, and a view is made of messages that are there.
THEOREM ContextTypeCorrect == ContextSpec => []ContextTypeOK
<1>1. ContextInvariant => ContextTypeOK
  BY DEF ContextInvariant
<1> QED
  BY <1>1, ContextInvariantHolds, PTL

LEMMA ViewOfRequest ==
  ASSUME ContextInvariant, stage = "asking"
  PROVE  /\ view.upto = Len(transcript) /\ view.from = ArchivedCount(transcript)
         /\ view.from \in 0..Len(transcript)
         /\ view.from = 0 \/ view.from <= Len(transcript) - Preserved
         /\ view.from < Len(transcript) => transcript[view.from + 1].role # "result"
<1>1. transcript \in Seq(Message) /\ transcript \in Transcripts /\ Asked(transcript)
  BY Typed DEF ContextInvariant, Shaped
<1>2. view.upto = Len(transcript) /\ view.from = ArchivedCount(SubSeq(transcript, 1, view.upto))
  BY DEF ContextInvariant, Viewed
<1>3. SubSeq(transcript, 1, Len(transcript)) = transcript
  BY <1>1, SubSeqFull
<1>4. view.from = ArchivedCount(transcript)
  BY <1>2, <1>3
<1> QED
  BY <1>1, <1>2, <1>4, BoundaryBeforeNoResult

\* No request has a result without its call or a call without its results,
\* wherever the archive ends: the boundary never falls between the two.
THEOREM ViewsKeepPairs == ContextSpec => []PairsKept
<1>1. ContextInvariant => PairsKept
  <2> SUFFICES ASSUME ContextInvariant, stage = "asking",
                      NEW i \in DOMAIN transcript, Held(i)
               PROVE  /\ transcript[i].role = "result" =>
                           \E j \in DOMAIN transcript :
                             /\ Held(j) /\ transcript[j].role = "assistant"
                             /\ transcript[i].calls \subseteq transcript[j].calls
                      /\ transcript[i].role = "assistant" =>
                           transcript[i].calls \subseteq ResultsFrom(transcript, view.from)
    BY DEF PairsKept
  <2>1. DOMAIN transcript = 1..Len(transcript) /\ Len(transcript) \in Nat
    <3>1. transcript \in Seq(Message)
      BY Typed DEF ContextInvariant
    <3> HIDE DEF Message
    <3> QED BY <3>1, LenProperties
  <2>2. /\ view.upto = Len(transcript) /\ view.from \in 0..Len(transcript)
        /\ view.from < Len(transcript) => transcript[view.from + 1].role # "result"
    BY ViewOfRequest
  <2>3. i \in view.from + 1..Len(transcript)
    BY <2>2 DEF Held
  <2>4. CASE transcript[i].role = "result"
    <3>1. PICK j \in 1..i - 1 : ResultOf(transcript, j, i)
      BY <2>1, <2>4 DEF ContextInvariant, Shaped, Asked
    <3>2. j > view.from
      <4> SUFFICES ASSUME j <= view.from PROVE FALSE
        BY <2>1, <2>2
      <4>1. view.from + 1 \in j + 1..i /\ view.from < Len(transcript)
        BY <2>1, <2>2, <2>3
      <4> QED
        BY <2>2, <3>1, <4>1 DEF ResultOf
    <3>3. j \in DOMAIN transcript /\ Held(j)
      BY <2>1, <2>2, <2>3, <3>2 DEF Held
    <3>4. transcript[j].role = "assistant" /\ transcript[i].calls \subseteq transcript[j].calls
      BY <2>1, <3>1 DEF ResultOf
    <3> QED
      BY <2>4, <3>3, <3>4
  <2>5. CASE transcript[i].role = "assistant"
    <3> SUFFICES ASSUME NEW id \in transcript[i].calls
                 PROVE  id \in ResultsFrom(transcript, view.from)
      BY <2>5
    <3>1. PICK k \in i + 1..Len(transcript) :
            ResultOf(transcript, i, k) /\ id \in transcript[k].calls
      BY <2>1, <2>5 DEF ContextInvariant, Shaped, Answered
    <3>2. k \in view.from + 1..Len(transcript) /\ transcript[k].role = "result"
      BY <2>1, <2>2, <2>3, <3>1 DEF ResultOf
    <3> QED
      BY <3>1, <3>2 DEF ResultsFrom
  <2> QED
    BY <2>4, <2>5
<1> QED
  BY <1>1, ContextInvariantHolds, PTL

\* Every stub and every line of the index cites the text that was returned, or
\* the hash of the file it was read from: the hash of that text, unless a tool
\* of the same turn may have written between the read and the hashing.  This for
\* any interleaving of the tools and the recordings of a turn with writes.
THEOREM ObservationsCiteEvidence == ContextSpec => []EvidenceCited
<1>1. ContextInvariant => EvidenceCited
  BY DEF ContextInvariant, Cited, EvidenceCited, Observed, Evidence
<1> QED
  BY <1>1, ContextInvariantHolds, PTL

\* The archive the last request cites is on disk when the run has ended, at
\* whatever point it ended: no projection archives less than the one before.
THEOREM CitedArchivesAreWritten == ContextSpec => []CitedArchiveWritten
<1>1. ContextInvariant => CitedArchiveWritten
  BY DEF ContextInvariant, Viewed, CitedArchiveWritten
<1> QED
  BY <1>1, ContextInvariantHolds, PTL

----------------------------------------------------------------------------
(***************************************************************************)
(* Nothing is hidden before it was shown.  That needs room for the last    *)
(* result and a prompt behind it: Preserved is 24 in the code.             *)
(***************************************************************************)
LEMMA UnshownInit == ContextInit => Unshown
BY DEF ContextInit, Unshown

\* What a request does not hold it had held, or an earlier one.
LEMMA AllShownByProject ==
  ASSUME Preserved > 1, ContextInvariant, Unshown, Project
  PROVE  \A i \in 1..Len(transcript) : transcript[i].role = "result" =>
           transcript[i].calls \subseteq shown'
<1> SUFFICES ASSUME NEW i \in 1..Len(transcript), transcript[i].role = "result",
                    NEW id \in transcript[i].calls, id \notin shown
             PROVE  id \in shown'
  BY DEF Project
<1>1. /\ stage = "viewing" /\ Projected.from = ArchivedCount(transcript)
      /\ shown' = shown \cup (ResultsFrom(transcript, ArchivedCount(transcript)) \ Projected.stubs)
  BY DEF Project, Projected
<1>2. /\ calls[id].turn >= turn - 1
      /\ \A k \in i + 1..Len(transcript) :
           transcript[k].role = "result" \/ k = Len(transcript)
  BY <1>1 DEF Unshown
<1>3. transcript \in Transcripts /\ Asked(transcript) /\ Len(transcript) \in Nat
      /\ transcript \in Seq(Message) /\ calls \in Seq(Call) /\ turn \in Nat /\ Preserved \in Nat
  BY Typed, ContextDeclarations DEF ContextInvariant, Shaped, ContextTypeOK
<1> DEFINE from == ArchivedCount(transcript)
<1>4. /\ from \in 0..Len(transcript)
      /\ from = 0 \/ from <= Len(transcript) - Preserved
      /\ from < Len(transcript) => transcript[from + 1].role # "result"
  BY <1>3, BoundaryBeforeNoResult
<1> HIDE DEF from
<1>5. i > from
  <2> SUFFICES ASSUME i <= from PROVE FALSE
    BY <1>3, <1>4
  <2>1. from + 1 \in i + 1..Len(transcript) /\ from + 1 # Len(transcript) /\ from < Len(transcript)
    BY <1>3, <1>4
  <2> QED
    BY <1>2, <1>4, <2>1
<1>6. id \in ResultsFrom(transcript, from)
  BY <1>3, <1>4, <1>5 DEF ResultsFrom
<1>7. id \notin Projected.stubs
  <2>1. id \in DOMAIN calls
    <3>1. transcript[i] \in Message
      <4> HIDE DEF Message
      <4> QED BY <1>3, ElementOfSeq
    <3> QED
      BY <3>1 DEF Message, Ids
  <2>2. calls[id] \in Call
    <3> HIDE DEF Call
    <3> QED BY <1>3, <2>1, ElementOfSeq, LenProperties
  <2>3. calls[id].turn \in Nat
    BY <2>2, ContextDeclarations DEF Call
  <2>4. ~ ShouldProject(id)
    BY <1>2, <1>3, <2>3 DEF ShouldProject
  <2> QED
    BY <2>4 DEF Projected
<1> QED
  BY <1>1, <1>6, <1>7 DEF from

LEMMA UnshownNext ==
  ASSUME Preserved > 1
  PROVE  ContextInvariant /\ Unshown /\ [ContextNext]_contextVars => Unshown'
<1> SUFFICES ASSUME ContextInvariant, Unshown, [ContextNext]_contextVars, stage' # "closed"
             PROVE  Unshown'
  BY DEF Unshown
<1> DEFINE AllShown(t, s) ==
             \A i \in 1..Len(t) : t[i].role = "result" => t[i].calls \subseteq s
<1>t. /\ transcript \in Seq(Message) /\ Len(transcript) \in Nat
      /\ calls \in Seq(Call) /\ Ids = 1..Len(calls) /\ Len(calls) \in Nat
      /\ ContextTypeOK /\ Shaped /\ ToolTurn /\ turn \in Nat
  BY Typed DEF ContextInvariant, ContextTypeOK
<1>a. stage \in {"asking", "tools"} => AllShown(transcript, shown)
  BY DEF Unshown
<1>i. \A i \in 1..Len(transcript) : transcript[i].calls \subseteq Ids
  <2>1. \A i \in 1..Len(transcript) : transcript[i] \in Message
    <3> HIDE DEF Message
    <3> QED BY <1>t, ElementOfSeq
  <2> QED
    BY <2>1 DEF Message
<1>1. CASE Prompt
  <2>1. /\ stage = "idle" /\ stage' = "starting" /\ User.role = "user"
        /\ transcript' = Append(transcript, User) /\ UNCHANGED <<turn, shown, calls>>
    BY <1>1 DEF Prompt, viewVars, User
  <2>2. /\ Len(transcript') = Len(transcript) + 1 /\ transcript'[Len(transcript) + 1] = User
        /\ \A i \in 1..Len(transcript) : transcript'[i] = transcript[i]
    <3>1. User \in Message
      BY DEF User, Message
    <3> HIDE DEF Message, User
    <3> QED BY <1>t, <2>1, <3>1, GrownByOne
  <2> SUFFICES ASSUME NEW i \in 1..Len(transcript'), transcript'[i].role = "result",
                      NEW id \in transcript'[i].calls, id \notin shown
               PROVE  /\ calls[id].turn >= turn
                      /\ \A k \in i + 1..Len(transcript') :
                           transcript'[k].role = "result" \/ k = Len(transcript')
    BY <2>1 DEF Unshown
  <2>3. i \in 1..Len(transcript) /\ transcript[i].role = "result" /\ id \in transcript[i].calls
    BY <1>t, <2>1, <2>2
  <2>4. /\ calls[id].turn >= turn
        /\ \A k \in i + 1..Len(transcript) : transcript[k].role = "result"
    BY <2>1, <2>3 DEF Unshown
  <2> QED
    BY <1>t, <2>2, <2>4
<1>2. CASE StartTurn
  <2>1. /\ stage = "starting" /\ stage' = "viewing" /\ turn' = turn + 1
        /\ UNCHANGED <<transcript, shown, calls>>
    BY <1>2 DEF StartTurn, viewVars
  <2>2. turn' - 1 = turn
    BY <1>t, <2>1
  <2> QED
    BY <2>1, <2>2 DEF Unshown
<1>3. CASE Project
  <2>1. AllShown(transcript, shown')
    BY <1>3, AllShownByProject
  <2> QED
    BY <1>3, <2>1 DEF Project, Unshown
<1>4. ASSUME NEW tools \in Batches, Answer(tools) PROVE Unshown'
  <2>1. /\ Len(transcript') = Len(transcript) + 1
        /\ transcript'[Len(transcript) + 1].role = "assistant"
        /\ \A i \in 1..Len(transcript) : transcript'[i] = transcript[i]
    BY <1>t, <1>4, AnswerAppends DEF Assistant
  <2>2. shown' = shown /\ stage = "asking"
    BY <1>4 DEF Answer, viewVars
  <2>3. AllShown(transcript', shown')
    BY <1>t, <1>a, <2>1, <2>2
  <2> QED
    BY <2>3 DEF Unshown
<1>5. CASE ProviderThrows
  <2>1. /\ stage = "asking" /\ shown' = shown /\ transcript' = SubSeq(transcript, 1, base + 1)
        /\ base \in 0..Len(transcript) /\ base < Len(transcript)
    BY <1>t, <1>5 DEF ProviderThrows, viewVars, ContextTypeOK, Shaped
  <2>2. base + 1 \in 1..Len(transcript)
    BY <1>t, <2>1
  <2> DEFINE n == base + 1
  <2>3. n \in 1..Len(transcript) /\ transcript' = SubSeq(transcript, 1, n)
    BY <2>1, <2>2
  <2> HIDE DEF n
  <2>4. Len(transcript') = n /\ \A i \in 1..n : transcript'[i] = transcript[i]
    <3>1. n \in Int /\ n >= 1 /\ \A i \in 1..n : transcript[i] \in Message
      <4> HIDE DEF Message
      <4> QED BY <1>t, <2>3, ElementOfSeq
    <3>2. /\ Len(transcript') = (IF 1 <= n THEN n - 1 + 1 ELSE 0)
          /\ \A i \in 1..n - 1 + 1 : transcript'[i] = transcript[1 + i - 1]
      <4> HIDE DEF Message
      <4> QED BY <2>3, <3>1, SubSeqProperties
    <3> QED
      BY <3>1, <3>2
  <2>5. AllShown(transcript', shown')
    BY <1>t, <1>a, <2>1, <2>3, <2>4
  <2> QED
    BY <2>5 DEF Unshown
<1>6. ASSUME NEW id \in Ids, Recording(id) PROVE Unshown'
  <2>1. /\ UNCHANGED <<stage, transcript, turn, shown>>
        /\ calls[id].phase # "done"
    <3>1. UNCHANGED <<loopVars, viewVars, source, catalog>>
      <4> HIDE DEF Call
      <4> QED BY <1>t, <1>6, CallsTyped
    <3> QED
      BY <1>6, <1>t, <3>1, RecordedCall DEF loopVars, viewVars, ContextInvariant
  <2>2. stage = "tools"
    BY <1>t, <2>1 DEF ToolTurn
  <2> QED
    BY <1>a, <2>1, <2>2 DEF Unshown
<1>7. CASE ToolsDone
  <2>1. /\ stage = "tools" /\ stage' = "turn_end" /\ UNCHANGED <<turn, shown, calls>>
        /\ \A id \in LastMessage.calls : calls[id].phase = "done"
    BY <1>7 DEF ToolsDone, viewVars, LastMessage
  <2>2. PICK n \in 1..Len(calls) :
          /\ LastMessage.calls = n..Len(calls)
          /\ Len(transcript') = Len(transcript) + (Len(calls) + 1 - n)
          /\ \A i \in 1..Len(transcript) : transcript'[i] = transcript[i]
          /\ \A i \in Len(transcript) + 1..Len(transcript') :
               transcript'[i] = Result(n + (i - Len(transcript) - 1))
    BY <1>t, <1>7, ToolsDoneAppends
  <2>r. \A x : Result(x).role = "result" /\ Result(x).calls = {x}
    BY DEF Result
  <2>3. \A i \in Len(transcript) + 1..Len(transcript') :
          /\ transcript'[i].role = "result"
          /\ transcript'[i].calls = {n + (i - Len(transcript) - 1)}
    <3> HIDE DEF Result
    <3> QED BY <2>2, <2>r
  <2> SUFFICES ASSUME NEW i \in 1..Len(transcript'), transcript'[i].role = "result",
                      NEW id \in transcript'[i].calls, id \notin shown
               PROVE  /\ calls[id].turn >= turn
                      /\ \A k \in i + 1..Len(transcript') : transcript'[k].role = "result"
    BY <2>1 DEF Unshown
  <2>4. i \notin 1..Len(transcript)
    BY <1>a, <2>1, <2>2
  <2>5. i \in Len(transcript) + 1..Len(transcript')
    BY <1>t, <2>2, <2>4
  <2>6. id = n + (i - Len(transcript) - 1) /\ id \in n..Len(calls)
    <3>1. transcript'[i].calls = {n + (i - Len(transcript) - 1)}
      BY <2>3, <2>5
    <3> QED
      BY <1>t, <2>2, <2>5, <3>1
  <2>7. calls[id].turn = turn
    BY <1>t, <2>1, <2>2, <2>6 DEF ToolTurn
  <2>8. \A k \in i + 1..Len(transcript') : k \in Len(transcript) + 1..Len(transcript')
    BY <1>t, <2>5
  <2> QED
    BY <2>3, <2>7, <2>8, <1>t
<1>8. CASE TurnEnds
  <2>1. /\ stage = "turn_end" /\ stage' \in {"idle", "starting"}
        /\ UNCHANGED <<transcript, turn, shown, calls>>
    BY <1>8 DEF TurnEnds
  <2> QED
    BY <2>1 DEF Unshown
<1>9. CASE Close
  BY <1>9 DEF Close
<1>10. CASE UNCHANGED contextVars
  BY <1>10 DEF contextVars, loopVars, viewVars, Unshown
<1>11. CASE SourceChanges
  BY <1>11 DEF SourceChanges, loopVars, viewVars, Unshown
<1> QED
  BY <1>1, <1>2, <1>3, <1>4, <1>5, <1>6, <1>7, <1>8, <1>9, <1>10, <1>11 DEF ContextNext

\* Whatever a stub or the archive takes out of the view had been in a request,
\* if more than one message is preserved: a turn's results are not archived
\* before the next request, nor demoted in it.
THEOREM NothingHiddenUnseen ==
  ASSUME Preserved > 1
  PROVE  ContextSpec => []ShownBeforeHidden
<1>1. Unshown => ShownBeforeHidden
  BY DEF Unshown, ShownBeforeHidden
<1> QED
  BY <1>1, UnshownInit, UnshownNext, ContextInvariantHolds, PTL DEF ContextSpec
=============================================================================
