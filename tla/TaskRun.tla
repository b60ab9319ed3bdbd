------------------------------- MODULE TaskRun -------------------------------
(***************************************************************************)
(* The task contract of a product run (task_contract.py), what a worker and*)
(* a judge are given of it (task_projection.py), and the ledger from which *)
(* the run's verdict is replayed (decision_ledger.py).                     *)
(*                                                                         *)
(* The kernel does not drive these: a product does, in an order of its own.*)
(* It writes the contract's file and appends to the ledger in steps of     *)
(* their own, and may die between them.  So any entry may be appended at   *)
(* any time, by a worker or a judge that still holds an earlier version,   *)
(* and an append may be cut short.  A hash is represented by the content it*)
(* was taken of.                                                           *)
(***************************************************************************)
EXTENDS Integers, Sequences

CONSTANTS
  Contents,      \* what a contract may say
  MaxEntries     \* bound: ledger lines

ASSUME TaskRunDeclarations ==
  /\ "none" \notin Contents
  /\ MaxEntries \in Nat

VARIABLES
  contract,      \* the object in memory: its lists are not frozen
  contractFile,
  brief, rubric, \* WorkerBrief and JudgeRubric as given out
  ledger,
  force          \* history: what the ledger last froze or revised to

taskVars == <<contract, contractFile, brief, rubric, ledger, force>>

Nothing == [hash |-> "none", content |-> "none"]

\* TaskContract: the hash is taken when the object is made.
Made(content) == [hash |-> content, content |-> content]
TaskContract == [hash : Contents, content : Contents]

\* Kinds with the same part in a replay are one: an entry of progress is an
\* execution report, a revision's judge report a judge report, and so on.
Kinds == {"contract_frozen", "execution_report_recorded", "judge_report_recorded",
          "repair_execution_recorded", "revision_requested", "revision_applied",
          "final_package_emitted"}
Statuses == {"accepted", "repair", "revision_required", "rejected", "completed", "failed"}

\* given is history: what the reporter's projection said.
LedgerEntry == [kind : Kinds, hash : Contents, given : Contents \cup {"none"},
                status : Statuses, whole : BOOLEAN]

TaskTypeOK ==
  /\ {contract, contractFile} \subseteq TaskContract \cup {Nothing}
  /\ {brief, rubric} \subseteq TaskContract \cup {Nothing}
  /\ ledger \in Seq(LedgerEntry) /\ Len(ledger) <= MaxEntries
  /\ force \in Contents \cup {"none"}

TaskInit ==
  /\ contract = Nothing /\ contractFile = Nothing
  /\ brief = Nothing /\ rubric = Nothing
  /\ ledger = <<>> /\ force = "none"

----------------------------------------------------------------------------
\* Mutant: a contract is projected as it now is, under the hash it had.
DriftIgnored(object) == object # Nothing

\* to_dict refuses an object whose content is no longer what was hashed.
NotDrifted(object) == object # Nothing /\ object.content = object.hash

Line(kind, hash, given, status) ==
  [kind |-> kind, hash |-> hash, given |-> given, status |-> status, whole |-> TRUE]

\* append_decision_ledger_entry: after a torn line the entry is part of it.
AppendLine(line) ==
  /\ Len(ledger) < MaxEntries
  /\ ledger' = IF ledger # <<>> /\ ~ledger[Len(ledger)].whole
                 THEN ledger ELSE Append(ledger, line)

----------------------------------------------------------------------------
\* The product makes a contract and writes what freeze returns ...
Freeze(content) ==
  /\ contract = Nothing
  /\ contract' = Made(content) /\ contractFile' = Made(content)
  /\ UNCHANGED <<brief, rubric, ledger, force>>

\* ... or replaces one: a TaskContractRevision changes the hash.
ReviseContract(content) ==
  /\ NotDrifted(contract)
  /\ content # contract.hash
  /\ contract' = Made(content) /\ contractFile' = Made(content)
  /\ UNCHANGED <<brief, rubric, ledger, force>>

\* The entry for it is a write of its own, if the product lives to make it.
RecordContract(kind) ==
  /\ kind \in {"contract_frozen", "revision_applied"}
  /\ contract # Nothing
  /\ AppendLine(Line(kind, contract.hash, "none", "completed"))
  /\ force' = IF ledger' = ledger THEN force ELSE contract.hash
  /\ UNCHANGED <<contract, contractFile, brief, rubric>>

\* A list of the object is changed by whoever holds it.
Drift(content) ==
  /\ contract # Nothing
  /\ contract' = [contract EXCEPT !.content = content]
  /\ UNCHANGED <<contractFile, brief, rubric, ledger, force>>

\* from_dict compares the hash in the file with the content.
LoadContract ==
  /\ NotDrifted(contractFile)
  /\ contract' = Made(contractFile.content)
  /\ UNCHANGED <<contractFile, brief, rubric, ledger, force>>

\* project_worker_brief and project_judge_rubric name the contract's hash and
\* copy its clauses; which refs they may copy is left out.
ProjectBrief ==
  /\ NotDrifted(contract)
  /\ brief' = contract
  /\ UNCHANGED <<contract, contractFile, rubric, ledger, force>>

ProjectRubric ==
  /\ NotDrifted(contract)
  /\ rubric' = contract
  /\ UNCHANGED <<contract, contractFile, brief, ledger, force>>

\* A worker reports on the brief it was given, a judge on its rubric.
ReportExecution(kind, status) ==
  /\ kind \in {"execution_report_recorded", "repair_execution_recorded"}
  /\ status \in {"completed", "failed"}
  /\ brief # Nothing
  /\ AppendLine(Line(kind, brief.hash, brief.content, status))
  /\ UNCHANGED <<contract, contractFile, brief, rubric, force>>

Judge(status) ==
  /\ status \in {"accepted", "repair", "revision_required", "rejected"}
  /\ rubric # Nothing
  /\ AppendLine(Line("judge_report_recorded", rubric.hash, rubric.content, status))
  /\ UNCHANGED <<contract, contractFile, brief, rubric, force>>

\* The product asks for a revision, or hands a final package over, under the
\* hash of the rubric it last gave out.
Request(kind) ==
  /\ kind \in {"revision_requested", "final_package_emitted"}
  /\ rubric # Nothing
  /\ AppendLine(Line(kind, rubric.hash, "none", "completed"))
  /\ UNCHANGED <<contract, contractFile, brief, rubric, force>>

\* The process of the product dies; the contract file it was writing may be
\* torn, and then it cannot be loaded ...
HostDies ==
  /\ contract # Nothing
  /\ contract' = Nothing
  /\ contractFile' \in {contractFile, Nothing}
  /\ UNCHANGED <<brief, rubric, ledger, force>>

\* ... or it dies in an append, the last one.
TearLastLine ==
  /\ Len(ledger) > 0
  /\ ledger' = [ledger EXCEPT ![Len(ledger)].whole = FALSE]
  /\ contract' = Nothing
  /\ UNCHANGED <<contractFile, brief, rubric, force>>

TaskNext ==
  \/ \E content \in Contents : Freeze(content) \/ ReviseContract(content) \/ Drift(content)
  \/ LoadContract
  \/ ProjectBrief \/ ProjectRubric
  \/ \E kind \in Kinds : RecordContract(kind) \/ Request(kind)
  \/ \E kind \in Kinds, status \in Statuses : ReportExecution(kind, status)
  \/ \E status \in Statuses : Judge(status)
  \/ HostDies \/ TearLastLine

TaskSpec == TaskInit /\ [][TaskNext]_taskVars
----------------------------------------------------------------------------
\* Mutant: only the run and contract ids are compared.
ChainUnchecked(lines) == TRUE

\* _validate_ledger_sequence: the hash changes with revision_applied, and only
\* with it.
Chained(lines) ==
  \A i \in 2..Len(lines) :
    (lines[i].hash # lines[i - 1].hash) <=> lines[i].kind = "revision_applied"

\* _status_from_tail.
TailStatus(entry) ==
  CASE entry.kind = "final_package_emitted"     -> "accepted"
    [] entry.kind = "judge_report_recorded"     -> entry.status
    [] entry.kind = "repair_execution_recorded"
         -> IF entry.status = "completed" THEN "repair" ELSE "blocked"
    [] entry.kind \in {"revision_requested", "revision_applied"} -> "revision_required"
    [] OTHER -> "blocked"

\* RunReplaySummary: the verdict, and the contract it is about.
RunReplaySummary(entry) == [status |-> TailStatus(entry), hash |-> entry.hash]

Refused == [status |-> "raises", hash |-> "none"]

\* replay_decision_ledger.
Replay(lines) ==
  IF \/ lines = <<>>
     \/ \E i \in DOMAIN lines : ~lines[i].whole
     \/ lines[1].kind = "revision_applied"
     \/ ~Chained(lines)
    THEN Refused
    ELSE RunReplaySummary(lines[Len(lines)])
----------------------------------------------------------------------------
\* A run replays as accepted only under the contract that its ledger last froze
\* or revised to.  If the last word is a judge's, that judge was given a rubric
\* which says what this contract says: not one of an earlier version, nor one
\* projected from an object that was changed after it was hashed, nor one of a
\* revision whose entry the product did not live to append.  A final package is
\* taken as the product's word, for which the replay wants no verdict; and a
\* ledger that was never told of a freeze has nothing in force.
AcceptedInForce ==
  LET verdict == Replay(ledger)
      tail    == ledger[Len(ledger)]
  IN  verdict.status = "accepted" /\ force # "none" =>
        /\ verdict.hash = force
        /\ tail.kind = "judge_report_recorded" => tail.given = force
=============================================================================
