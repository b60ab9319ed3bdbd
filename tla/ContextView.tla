---------------------------- MODULE ContextView ----------------------------
(***************************************************************************)
(* What the model of a PI Agent worker sees of its own run: the transcript,*)
(* the observations recorded of its tool calls (context-observations.ts),  *)
(* and the view projected from both before every provider request          *)
(* (context-projector.ts): the last messages, with large results of past   *)
(* turns replaced by stubs that cite their evidence, and an archive message*)
(* in place of all that came before.                                       *)
(*                                                                         *)
(* The tools of a turn run in parallel, and so does their recording.  The  *)
(* large reads of the run are of one file, which a shell command or an edit*)
(* may change or remove while it runs; a process that it leaves behind is  *)
(* left out.  What the loop of the worker does otherwise is                *)
(* PiWorkerRuntime; here a turn ends, fails or is tried again as that      *)
(* module allows.                                                          *)
(***************************************************************************)
EXTENDS Integers, Sequences

CONSTANTS
  SourceTexts,   \* what the file that is read may say
  Preserved,     \* RECENT_FULL_MESSAGE_COUNT + MIDDLE_PROJECTED_MESSAGE_COUNT
  MaxCalls,      \* bound: tool calls of the run
  MaxBatch,      \* bound: tool calls of a turn
  MaxTurns,      \* bound: turns of the run
  MaxPrompts     \* bound: the prompt and its completion reminders

ASSUME ContextDeclarations ==
  /\ {"none", "raw", "gone"} \cap SourceTexts = {}
  /\ Preserved \in Nat \ {0}
  /\ MaxCalls \in Nat /\ MaxBatch \in Nat
  /\ MaxTurns \in Nat /\ MaxPrompts \in Nat

VARIABLES
  stage,         \* where the loop of the worker is
  transcript,    \* the messages so far
  base,          \* those there were when this prompt began
  turn,          \* the turn index of the observations
  prompts,
  calls,         \* the tool calls, in the order the model made them
  rawFiles,      \* the calls whose text is under context/raw
  source,        \* the text of the file that is read, or "gone"
  view,          \* the view of the last request
  shown,         \* the calls whose text was in some request
  archive,       \* pendingArchive: how many messages the last projection archived
  catalog        \* how many the segment catalog on disk describes

loopVars == <<stage, transcript, base, turn, prompts>>
viewVars == <<view, shown, archive>>
contextVars == <<loopVars, viewVars, calls, rawFiles, source, catalog>>

\* Small results stay; large ones of bash and read are demoted.
ToolKinds == {"small", "bash", "read"}

Phases == {"running", "drafted", "cited", "pushed", "done"}

\* A tool call with its observation: asked and saw are history, the turn of the
\* call and the text that a large read returned; turn is turn_index, and cites
\* the file under context/raw or, as a source_hash, the text it was taken of.
Call == [tool : ToolKinds, phase : Phases,
         asked : 0..MaxTurns, turn : 0..MaxTurns,
         saw : SourceTexts \cup {"none"}, cites : SourceTexts \cup {"none", "raw"}]

User == [role |-> "user", calls |-> {}]
Assistant(ids) == [role |-> "assistant", calls |-> ids]
Result(id) == [role |-> "result", calls |-> {id}]

Ids == DOMAIN calls

NoView == [from |-> 0, upto |-> 0, stubs |-> {}]

Stages == {"idle", "starting", "viewing", "asking", "tools", "turn_end", "closed"}

ContextTypeOK ==
  /\ stage \in Stages
  /\ transcript \in Seq([role : {"user", "assistant", "result"}, calls : SUBSET Ids])
  /\ base \in 0..Len(transcript)
  /\ turn \in 0..MaxTurns
  /\ prompts \in 0..MaxPrompts
  /\ calls \in Seq(Call)
  /\ Len(calls) <= MaxCalls
  /\ rawFiles \subseteq Ids
  /\ source \in SourceTexts \cup {"gone"}
  /\ view \in [from : Nat, upto : Nat, stubs : SUBSET Ids]
  /\ shown \subseteq Ids
  /\ archive \in Nat /\ catalog \in Nat

ContextInit ==
  /\ stage = "idle"
  /\ transcript = <<>> /\ base = 0
  /\ turn = 0 /\ prompts = 0
  /\ calls = <<>>
  /\ rawFiles = {} /\ source \in SourceTexts
  /\ view = NoView /\ shown = {}
  /\ archive = 0 /\ catalog = 0

----------------------------------------------------------------------------
\* findAssistantToolCallIndex: the last message before i that made the call.
Owner(messages, i) ==
  {j \in 1..i - 1 : /\ messages[j].role = "assistant"
                    /\ messages[i].calls \subseteq messages[j].calls
                    /\ \A k \in j + 1..i - 1 :
                         ~ (messages[k].role = "assistant"
                            /\ messages[i].calls \subseteq messages[k].calls)}

\* Mutant: the boundary may fall between a call and its result.
AdjustedAsIs(messages, count) == count

\* adjustArchiveBoundaryForToolPairs: a boundary at a result moves to the call
\* that asked for it.  There it stops, since no call is a result.
Adjusted(messages, count) ==
  IF messages[count + 1].role = "result" /\ Owner(messages, count + 1) # {}
    THEN (CHOOSE j \in Owner(messages, count + 1) : TRUE) - 1
    ELSE count

\* buildArchive: how many messages are archived.
ArchivedCount(messages) ==
  IF Len(messages) <= Preserved
    THEN 0
    ELSE Adjusted(messages, Len(messages) - Preserved)

\* recordAfterToolCall has pushed the observation.
Observed(id) == calls[id].phase \in {"pushed", "done"}

\* inlinePolicy: demote_after_turn, otherwise keep.
Demoted(id) == calls[id].tool = "bash" \/ calls[id].saw # "none"

\* Mutant: a large result is demoted at once.
ShouldProjectAtOnce(id) == Observed(id) /\ Demoted(id) /\ turn > calls[id].turn

\* shouldProject: from the second turn after the one it was observed in.
ShouldProject(id) == Observed(id) /\ Demoted(id) /\ turn > calls[id].turn + 1

ResultsFrom(messages, from) ==
  UNION {messages[i].calls : i \in {k \in from + 1..Len(messages) : messages[k].role = "result"}}

\* render.
Projected ==
  LET from    == ArchivedCount(transcript)
      results == ResultsFrom(transcript, from)
  IN  [from |-> from, upto |-> Len(transcript),
       stubs |-> {id \in results : ShouldProject(id)}]

----------------------------------------------------------------------------
\* runPrompt: the user prompt, or a reminder, after the messages so far.
Prompt ==
  /\ stage = "idle"
  /\ prompts < MaxPrompts
  /\ prompts' = prompts + 1
  /\ base' = Len(transcript)
  /\ transcript' = Append(transcript, User)
  /\ stage' = "starting"
  /\ UNCHANGED <<turn, viewVars, calls, rawFiles, source, catalog>>

\* Mutant: the turn is counted past its bound, by provider retries too.
StartTurnUncounted ==
  /\ stage = "starting"
  /\ turn' = turn + 1
  /\ stage' = "viewing"
  /\ UNCHANGED <<transcript, base, prompts, viewVars, calls, rawFiles, source, catalog>>

\* noteTurnStart.
StartTurn ==
  /\ stage = "starting"
  /\ turn < MaxTurns
  /\ turn' = turn + 1
  /\ stage' = "viewing"
  /\ UNCHANGED <<transcript, base, prompts, viewVars, calls, rawFiles, source, catalog>>

\* transformContext.
Project ==
  /\ stage = "viewing"
  /\ view' = Projected
  /\ archive' = Projected.from
  /\ shown' = shown \cup (ResultsFrom(transcript, Projected.from) \ Projected.stubs)
  /\ stage' = "asking"
  /\ UNCHANGED <<transcript, base, turn, prompts, calls, rawFiles, source, catalog>>

\* The model answers with tool calls, or with none, text or an error message.
Answer(tools) ==
  LET first == Len(calls) + 1
  IN  /\ stage = "asking"
      /\ Len(calls) + Len(tools) <= MaxCalls
      /\ transcript' = Append(transcript, Assistant(first..Len(calls) + Len(tools)))
      /\ calls' = calls \o [k \in 1..Len(tools) |->
                              [tool |-> tools[k], phase |-> "running",
                               asked |-> turn, turn |-> 0,
                               saw |-> "none", cites |-> "none"]]
      /\ stage' = IF tools = <<>> THEN "turn_end" ELSE "tools"
      /\ UNCHANGED <<base, turn, prompts, viewVars, rawFiles, source, catalog>>

\* A transient failure starts the prompt again, with the transcript it had.
ProviderThrows ==
  /\ stage = "asking"
  /\ transcript' = SubSeq(transcript, 1, base + 1)
  /\ stage' = "starting"
  /\ UNCHANGED <<base, turn, prompts, viewVars, calls, rawFiles, source, catalog>>

----------------------------------------------------------------------------
\* A shell command or an edit that runs changes the file, or removes it.
SourceChanges ==
  /\ \E id \in Ids : calls[id].phase = "running" /\ calls[id].tool # "read"
  /\ source' \in (SourceTexts \cup {"gone"}) \ {source}
  /\ UNCHANGED <<loopVars, viewVars, calls, rawFiles, catalog>>

\* What a read returns of the file: if it is gone an error, which is small.
TextRead(id) == IF calls[id].tool = "read" /\ source # "gone" THEN source ELSE "none"

\* A tool returns, and recordAfterToolCall drafts its observation.
ToolReturns(id) ==
  /\ calls[id].phase = "running"
  /\ calls' = [calls EXCEPT ![id].phase = "drafted", ![id].turn = turn,
                             ![id].saw = TextRead(id)]
  /\ UNCHANGED <<loopVars, viewVars, rawFiles, source, catalog>>

\* writeBashRawRef: the file Pi kept of the output, or the text.
KeepBashOutput(id) ==
  /\ calls[id].phase = "drafted" /\ calls[id].tool = "bash"
  /\ rawFiles' = rawFiles \cup {id}
  /\ calls' = [calls EXCEPT ![id].phase = "cited", ![id].cites = "raw"]
  /\ UNCHANGED <<loopVars, viewVars, source, catalog>>

\* readSourceMetadata: the file is read again and hashed as it is now; if it
\* cannot be, the text that was returned is written down.
CiteSource(id) ==
  /\ calls[id].phase = "drafted" /\ calls[id].saw # "none"
  /\ \/ /\ source # "gone"
        /\ calls' = [calls EXCEPT ![id].phase = "cited", ![id].cites = source]
        /\ UNCHANGED rawFiles
     \/ /\ calls' = [calls EXCEPT ![id].phase = "cited", ![id].cites = "raw"]
        /\ rawFiles' = rawFiles \cup {id}
  /\ UNCHANGED <<loopVars, viewVars, source, catalog>>

\* The observation is pushed ...
Push(id) ==
  /\ \/ calls[id].phase = "cited"
     \/ calls[id].phase = "drafted" /\ ~Demoted(id)
  /\ calls' = [calls EXCEPT ![id].phase = "pushed"]
  /\ UNCHANGED <<loopVars, viewVars, rawFiles, source, catalog>>

\* ... and appended to the index and the events.
AppendObservation(id) ==
  /\ calls[id].phase = "pushed"
  /\ calls' = [calls EXCEPT ![id].phase = "done"]
  /\ UNCHANGED <<loopVars, viewVars, rawFiles, source, catalog>>

Recording(id) ==
  \/ ToolReturns(id) \/ KeepBashOutput(id) \/ CiteSource(id)
  \/ Push(id) \/ AppendObservation(id)

\* Mutant: the turn does not wait for its observations to be recorded.
ToolsDoneUnrecorded ==
  LET asked == transcript[Len(transcript)].calls
      first == CHOOSE i \in asked : \A j \in asked : i <= j
  IN  /\ stage = "tools"
      /\ \A id \in asked : calls[id].phase # "running"
      /\ transcript' = transcript \o
           [k \in 1..Len(calls) + 1 - first |-> Result(k - 1 + first)]
      /\ stage' = "turn_end"
      /\ UNCHANGED <<base, turn, prompts, viewVars, calls, rawFiles, source, catalog>>

\* The results of the turn follow its calls, in the order of the calls.
ToolsDone ==
  LET asked == transcript[Len(transcript)].calls
      first == CHOOSE i \in asked : \A j \in asked : i <= j
  IN  /\ stage = "tools"
      /\ \A id \in asked : calls[id].phase = "done"
      /\ transcript' = transcript \o
           [k \in 1..Len(calls) + 1 - first |-> Result(k - 1 + first)]
      /\ stage' = "turn_end"
      /\ UNCHANGED <<base, turn, prompts, viewVars, calls, rawFiles, source, catalog>>

----------------------------------------------------------------------------
\* shouldStopAfterTurn projects again, and under pressure writes a checkpoint;
\* then the loop stops, or goes on if there were tools.
TurnEnds ==
  /\ stage = "turn_end"
  /\ archive' = ArchivedCount(transcript)
  /\ catalog' \in {catalog, IF archive' > 0 THEN archive' ELSE catalog}
  /\ stage' \in IF transcript[Len(transcript)].role = "result"
                  THEN {"idle", "starting"} ELSE {"idle"}
  /\ UNCHANGED <<transcript, base, turn, prompts, view, shown, calls, rawFiles, source>>

\* Mutant: only a checkpoint writes the segments.
CloseQuietly ==
  /\ stage # "closed"
  /\ stage' = "closed"
  /\ UNCHANGED <<transcript, base, turn, prompts, viewVars, calls, rawFiles, source, catalog>>

\* The run ends, or something in it throws: writeDiagnostics.
Close ==
  /\ stage # "closed"
  /\ stage' = "closed"
  /\ catalog' = IF archive > 0 THEN archive ELSE catalog
  /\ UNCHANGED <<transcript, base, turn, prompts, viewVars, calls, rawFiles, source>>

Batches == UNION {[1..n -> ToolKinds] : n \in 0..MaxBatch}

ContextNext ==
  \/ Prompt \/ StartTurn \/ Project
  \/ \E tools \in Batches : Answer(tools)
  \/ ProviderThrows
  \/ \E id \in Ids : Recording(id)
  \/ SourceChanges
  \/ ToolsDone \/ TurnEnds \/ Close

ContextSpec == ContextInit /\ [][ContextNext]_contextVars
----------------------------------------------------------------------------
Held(i) == i \in view.from + 1..view.upto

\* What a provider gets has no result without the call that asked for it, and
\* no call without its result, wherever the archive ends.
PairsKept ==
  stage = "asking" =>
    \A i \in DOMAIN transcript : Held(i) =>
      /\ transcript[i].role = "result" =>
           \E j \in DOMAIN transcript :
             Held(j) /\ transcript[j].role = "assistant" /\ transcript[i].calls \subseteq transcript[j].calls
      /\ transcript[i].role = "assistant" =>
           transcript[i].calls \subseteq ResultsFrom(transcript, view.from)

\* Whatever is taken out of the view, as a stub or with the archive, had been
\* in a request: no result is hidden before it was ever shown.
ShownBeforeHidden ==
  stage = "asking" =>
    \A i \in DOMAIN transcript :
      transcript[i].role = "result" /\ (~Held(i) \/ transcript[i].calls \subseteq view.stubs)
        => transcript[i].calls \subseteq shown

\* Another tool of the same turn, which may have changed the file.
Beside(id) == \E j \in Ids : calls[j].asked = calls[id].asked /\ calls[j].tool # "read"

\* Every stub and every line of the observation index of a large result cites
\* evidence: its text under context/raw, or the hash of its source file.  The
\* hash is of the text that the model was shown, unless a tool that may write
\* ran in the same turn: then the file may have changed between the read and
\* the hashing of it.  A file that changes in a later turn is not kept, but
\* told from what was read by the hash.
EvidenceCited ==
  \A id \in Ids :
    Demoted(id) /\ (id \in view.stubs \/ calls[id].phase = "done") =>
      \/ calls[id].cites = "raw" /\ id \in rawFiles
      \/ /\ calls[id].cites \in SourceTexts
         /\ calls[id].cites = calls[id].saw \/ Beside(id)

\* The archive the last request cites is on disk once the run has ended.
CitedArchiveWritten == stage = "closed" => catalog >= view.from
=============================================================================
