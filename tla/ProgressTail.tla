---------------------------- MODULE ProgressTail ----------------------------
(***************************************************************************)
(* How the user sees what a worker does: the worker appends its events to a*)
(* file, a thread of the host tails that file (piworker_progress.py) and   *)
(* hands what it reads to the progress stream (progress_stream.py), to     *)
(* which the flow itself reports too, and a view prints the stream while   *)
(* the run goes on.  Tailing stops with a last poll when the worker is     *)
(* gone.  Nobody in this chain waits for anybody but through the lock of   *)
(* the stream and a join that may time out.                                *)
(***************************************************************************)
EXTENDS Integers, Sequences, FiniteSetsExt

CONSTANTS
  Lines,         \* bound: events the worker writes
  Notes,         \* bound: artifact notes and heartbeats
  Reports        \* events of the flow after the worker: the record, the end

ASSUME ProgressDeclarations ==
  Lines \in Nat /\ Notes \in Nat /\ Reports \in Nat \ {0}

VARIABLES
  file,          \* halves of lines: [n, last], n = 0 of an earlier attempt
  worker,
  offset, pending,
  thread, host,
  hand,          \* who -> events of its poll it has yet to hand on
  seen,          \* event -> how often it was handed on
  notes, reports,
  slot,          \* who -> number of the event it is appending, or 0
  counter,       \* _counter of the writer
  stream,        \* [id, by], id = 0 of an earlier run
  torn,          \* an earlier run left a torn line in the stream
  rendered,      \* rendered_count of the view
  printed, viewer

tailVars == <<offset, pending, hand, seen>>
streamVars == <<slot, counter, stream>>
screenVars == <<rendered, printed, viewer>>
progressVars == <<file, worker, tailVars, thread, host, notes, reports, streamVars,
                  torn, screenVars>>

Pollers == {"thread", "host"}
Events == 0..Lines
Half == [n : Events, last : BOOLEAN]
ProgressEvent == [id : Nat, by : Pollers]

ProgressTypeOK ==
  /\ file \in Seq(Half) /\ worker \in {"running", "gone"}
  /\ offset \in 0..Len(file) /\ pending \in Seq(Half)
  /\ thread \in {"none", "looping", "reading", "emitting", "ended"}
  /\ host \in {"starting", "running", "stopping", "polling", "emitting", "reporting", "done"}
  /\ hand \in [Pollers -> SUBSET Events] /\ seen \in [Events -> Nat]
  /\ notes \in 0..Notes /\ reports \in 0..Reports
  /\ slot \in [Pollers -> Nat] /\ counter \in Nat
  /\ stream \in Seq(ProgressEvent)
  /\ torn \in BOOLEAN /\ rendered \in Nat /\ viewer \in {"open", "closed"}
  /\ printed \in Seq(ProgressEvent)

ProgressInit ==
  /\ file \in {<<>>, <<[n |-> 0, last |-> FALSE]>>,
               <<[n |-> 0, last |-> FALSE], [n |-> 0, last |-> TRUE]>>}
  /\ worker = "running"
  /\ offset = 0 /\ pending = <<>>
  /\ thread = "none" /\ host = "starting"
  /\ hand = [who \in Pollers |-> {}] /\ seen = [n \in Events |-> 0]
  /\ notes = Notes /\ reports = Reports
  /\ slot = [who \in Pollers |-> 0] /\ counter = 0
  /\ stream \in {<<>>, <<[id |-> 0, by |-> "host"]>>}
  /\ torn \in BOOLEAN
  /\ rendered = IF torn THEN 0 ELSE Len(stream)
  /\ printed = <<>> /\ viewer = "open"

----------------------------------------------------------------------------
\* The events that are whole lines of the data, each a line of its own.
WholeIn(data) ==
  {data[i].n : i \in {k \in 1..Len(data) - 1 :
                        /\ k = 1 \/ data[k - 1].last
                        /\ ~data[k].last /\ data[k + 1] = [data[k] EXCEPT !.last = TRUE]}}

LastEnd(data) == Max({0} \cup {i \in DOMAIN data : data[i].last})

\* Mutant: what follows the last newline is not kept for the next poll.
RestDropped(data) == <<>>

\* What follows the last newline.
Rest(data) == SubSeq(data, LastEnd(data) + 1, Len(data))

\* _read_new_events.
Read(who) ==
  LET data == pending \o SubSeq(file, offset + 1, Len(file))
  IN  /\ offset' = Len(file)
      /\ pending' = Rest(data)
      /\ hand' = [hand EXCEPT ![who] = WholeIn(data)]
      /\ UNCHANGED seen

\* _lock of the writer.
Free(who) == \A other \in Pollers : slot[other] = 0

\* emit numbers an event ...
TakeNumber(who) ==
  /\ Free(who)
  /\ counter' = counter + 1
  /\ slot' = [slot EXCEPT ![who] = counter + 1]
  /\ UNCHANGED stream

\* ... and appends it, or the append fails.
Appended(who) ==
  /\ slot[who] # 0
  /\ stream' = Append(stream, [id |-> slot[who], by |-> who])
  /\ slot' = [slot EXCEPT ![who] = 0]
  /\ UNCHANGED counter

AppendFails(who) ==
  /\ slot[who] # 0
  /\ slot' = [slot EXCEPT ![who] = 0]
  /\ UNCHANGED <<counter, stream>>

----------------------------------------------------------------------------
NextHalf ==
  IF file = <<>> \/ file[Len(file)].n = 0 THEN [n |-> 1, last |-> FALSE]
  ELSE IF file[Len(file)].last THEN [n |-> file[Len(file)].n + 1, last |-> FALSE]
  ELSE [file[Len(file)] EXCEPT !.last = TRUE]

\* The worker writes its events; a reader may see half of one.
WorkerWrites ==
  /\ host = "running" /\ worker = "running"
  /\ NextHalf.n <= Lines
  /\ file' = Append(file, NextHalf)
  /\ UNCHANGED <<worker, tailVars, thread, host, notes, reports, streamVars, torn, screenVars>>

\* The worker ends, or is killed in the middle of a line; stop.
WorkerGone ==
  /\ host = "running"
  /\ worker' = "gone" /\ host' = "stopping"
  /\ UNCHANGED <<file, tailVars, thread, notes, reports, streamVars, torn, screenVars>>

\* start: the first event, then the thread.
Start ==
  /\ host = "starting"
  /\ \/ TakeNumber("host") /\ UNCHANGED <<host, thread>>
     \/ (Appended("host") \/ AppendFails("host")) /\ host' = "running" /\ thread' = "looping"
  /\ UNCHANGED <<file, worker, tailVars, notes, reports, torn, screenVars>>

\* _run: the thread polls until it is told to stop.
Loop ==
  /\ thread = "looping"
  /\ thread' = IF host = "running" THEN "reading" ELSE "ended"
  /\ UNCHANGED <<file, worker, tailVars, host, notes, reports, streamVars, torn, screenVars>>

\* The join of stop, or its timeout, which finds the thread in a slow sink: the
\* read of a local file is shorter than the timeout.
Join ==
  /\ host = "stopping"
  /\ thread \in {"ended", "emitting"}
  /\ host' = "polling"
  /\ UNCHANGED <<file, worker, tailVars, thread, notes, reports, streamVars, torn, screenVars>>

\* poll_once reads ...
ThreadReads ==
  /\ thread = "reading"
  /\ Read("thread")
  /\ thread' = "emitting"
  /\ UNCHANGED <<file, worker, host, notes, reports, streamVars, torn, screenVars>>

HostReads ==
  /\ host = "polling"
  /\ Read("host")
  /\ host' = "emitting"
  /\ UNCHANGED <<file, worker, thread, notes, reports, streamVars, torn, screenVars>>

Emitting(who) == IF who = "thread" THEN thread = "emitting" ELSE host = "emitting"

\* ... and hands on event by event; one may say nothing, or come too early.
HandOn(who) ==
  /\ Emitting(who) /\ slot[who] = 0 /\ hand[who] # {}
  /\ hand' = [hand EXCEPT ![who] = @ \ {Min(@)}]
  /\ seen' = [seen EXCEPT ![Min(hand[who])] = @ + 1]
  /\ TakeNumber(who) \/ UNCHANGED streamVars
  /\ UNCHANGED <<file, worker, offset, pending, thread, host, notes, reports, torn, screenVars>>

\* _artifact_summaries and _emit_heartbeat.
Note(who) ==
  /\ Emitting(who) /\ slot[who] = 0 /\ hand[who] = {}
  /\ notes > 0
  /\ notes' = notes - 1
  /\ TakeNumber(who)
  /\ UNCHANGED <<file, worker, tailVars, thread, host, reports, torn, screenVars>>

\* _emit catches what the sink raises.
Handed(who) ==
  /\ Emitting(who)
  /\ Appended(who) \/ AppendFails(who)
  /\ UNCHANGED <<file, worker, tailVars, thread, host, notes, reports, torn, screenVars>>

PollEnds(who) ==
  /\ Emitting(who) /\ slot[who] = 0 /\ hand[who] = {}
  /\ IF who = "thread" THEN thread' = "looping" /\ UNCHANGED host
                       ELSE host' = "reporting" /\ UNCHANGED thread
  /\ UNCHANGED <<file, worker, tailVars, notes, reports, streamVars, torn, screenVars>>

\* The flow's own events: an append that fails ends the run with an error.
Report ==
  /\ host = "reporting"
  /\ \/ TakeNumber("host") /\ UNCHANGED <<host, reports>>
     \/ /\ Appended("host")
        /\ reports' = reports - 1
        /\ host' = IF reports = 1 THEN "done" ELSE "reporting"
     \/ AppendFails("host") /\ host' = "done" /\ UNCHANGED reports
  /\ UNCHANGED <<file, worker, tailVars, thread, notes, torn, screenVars>>

----------------------------------------------------------------------------
\* _render_new_events: a torn line makes every read fail.
Rendered ==
  IF torn
    THEN UNCHANGED <<rendered, printed>>
    ELSE /\ printed' = printed \o SubSeq(stream, rendered + 1, Len(stream))
         /\ rendered' = Len(stream)

Render ==
  /\ viewer = "open" /\ host # "done"
  /\ Rendered
  /\ UNCHANGED <<file, worker, tailVars, thread, host, notes, reports, streamVars, torn, viewer>>

\* Mutant: the loop ends with the run, without a last look.
LastRenderSkipped ==
  /\ viewer = "open" /\ host = "done"
  /\ viewer' = "closed"
  /\ UNCHANGED <<file, worker, tailVars, thread, host, notes, reports, streamVars, torn, rendered, printed>>

LastRender ==
  /\ viewer = "open" /\ host = "done"
  /\ Rendered
  /\ viewer' = "closed"
  /\ UNCHANGED <<file, worker, tailVars, thread, host, notes, reports, streamVars, torn>>

ProgressNext ==
  \/ WorkerWrites \/ WorkerGone
  \/ Start \/ Loop \/ Join
  \/ ThreadReads \/ HostReads
  \/ \E who \in Pollers : HandOn(who) \/ Note(who) \/ Handed(who) \/ PollEnds(who)
  \/ Report \/ Render \/ LastRender

ProgressSpec == ProgressInit /\ [][ProgressNext]_progressVars
----------------------------------------------------------------------------
\* Once the last poll is over, every whole event of the file was handed on once,
\* or is in the hand of a thread the join gave up on: none is lost between two
\* polls, or at the end, and none is read twice.
TailedOnce ==
  host \in {"reporting", "done"} =>
    \A n \in WholeIn(file) : seen[n] + (IF n \in hand["thread"] THEN 1 ELSE 0) = 1

\* The events of an earlier run at the head of the stream.
Earlier == IF stream # <<>> /\ stream[1].id = 0 THEN 1 ELSE 0

\* The view prints this run's part of the stream, which two threads write, in
\* the order of the events' numbers and each event once; when it is over, up to
\* the last event of the flow itself, unless an earlier run left the stream
\* unreadable.
ViewComplete ==
  LET ours == SubSeq(stream, Earlier + 1, Len(stream))
  IN  /\ \A i, j \in DOMAIN printed : i < j => printed[i].id < printed[j].id
      /\ printed = SubSeq(ours, 1, Len(printed))
      /\ viewer = "closed" /\ ~torn =>
           \A i \in DOMAIN ours : ours[i].by = "host" => i <= Len(printed)
=============================================================================
