--------------------------- MODULE EvidenceStore ---------------------------
(***************************************************************************)
(* The evidence ledger kept as one JSON file per record                    *)
(* (evidence_store.py).  A store reads the directory when it is opened and *)
(* from then on numbers records by its own list; whether a number is taken *)
(* it asks the disk only just before it writes.  Several processes may     *)
(* have a store of one directory open, and any may die in its write.       *)
(*                                                                         *)
(* Records are appended under the ids the store makes, as the adapter does;*)
(* ids of the caller's choice are not modelled.                            *)
(***************************************************************************)
EXTENDS Integers, Sequences

CONSTANTS
  Stores,        \* FileEvidenceStore objects, in processes of their own
  MaxRecords     \* bound: appends begun

ASSUME MaxRecordsNat == MaxRecords \in Nat

VARIABLES
  disk,          \* number -> [token, whole] of the file, or None
  mem,           \* store -> _records
  doing,         \* store -> where its append is
  begun,         \* tokens: every append has a payload of its own
  acked,         \* [at, token] of the appends that returned
  raced          \* two stores were past the look at one file at a time

evidenceVars == <<disk, mem, doing, begun, acked, raced>>

Numbers == 1..MaxRecords
Tokens == 1..MaxRecords
None == [token |-> 0, whole |-> FALSE]
EvidenceRecord == [token : Tokens, whole : BOOLEAN]

Doing == {"closed", "open", "claimed", "writing", "written_half"}

EvidenceTypeOK ==
  /\ disk \in [Numbers -> EvidenceRecord \cup {None}]
  /\ mem \in [Stores -> Seq(Tokens)]
  /\ doing \in [Stores -> Doing]
  /\ begun \in 0..MaxRecords
  /\ acked \subseteq [at : Numbers, token : Tokens]
  /\ raced \in BOOLEAN

EvidenceInit ==
  /\ disk = [n \in Numbers |-> None]
  /\ mem = [s \in Stores |-> <<>>]
  /\ doing = [s \in Stores |-> "closed"]
  /\ begun = 0 /\ acked = {} /\ raced = FALSE

Files == {n \in Numbers : disk[n] # None}

Last(s) == Len(mem[s])

----------------------------------------------------------------------------
\* _load_existing: every file is whole, and they are 1, 2, 3, ...
Openable ==
  /\ \A n \in Files : disk[n].whole
  /\ \A n \in Files : \A k \in 1..n : k \in Files

Open(s) ==
  /\ doing[s] = "closed"
  /\ Openable
  /\ \E n \in 0..MaxRecords :
       /\ Files = 1..n
       /\ mem' = [mem EXCEPT ![s] = [k \in 1..n |-> disk[k].token]]
  /\ doing' = [doing EXCEPT ![s] = "open"]
  /\ UNCHANGED <<disk, begun, acked, raced>>

\* InMemoryEvidenceStore.append: the list grows first.
Claim(s) ==
  /\ doing[s] = "open"
  /\ begun < MaxRecords
  /\ begun' = begun + 1
  /\ mem' = [mem EXCEPT ![s] = Append(@, begun + 1)]
  /\ doing' = [doing EXCEPT ![s] = "claimed"]
  /\ UNCHANGED <<disk, acked, raced>>

\* Mutant: the list keeps a record whose number was taken.
RefuseWithoutRollback(s) ==
  /\ doing[s] = "claimed"
  /\ Last(s) \in Files
  /\ doing' = [doing EXCEPT ![s] = "open"]
  /\ UNCHANGED <<disk, mem, begun, acked, raced>>

\* The file exists: the record is taken back, and append raises.
Refuse(s) ==
  /\ doing[s] = "claimed"
  /\ Last(s) \in Files
  /\ mem' = [mem EXCEPT ![s] = SubSeq(@, 1, Len(@) - 1)]
  /\ doing' = [doing EXCEPT ![s] = "open"]
  /\ UNCHANGED <<disk, begun, acked, raced>>

\* It does not: append goes on to write it.
Pass(s) ==
  /\ doing[s] = "claimed"
  /\ Last(s) \notin Files
  /\ doing' = [doing EXCEPT ![s] = "writing"]
  /\ raced' = (raced \/ \E other \in Stores \ {s} :
                          doing[other] = "writing" /\ Last(other) = Last(s))
  /\ UNCHANGED <<disk, mem, begun, acked>>

\* write_text: the file is there, empty, before it is whole.
WriteHalf(s) ==
  /\ doing[s] = "writing"
  /\ disk' = [disk EXCEPT ![Last(s)] = [token |-> mem[s][Last(s)], whole |-> FALSE]]
  /\ doing' = [doing EXCEPT ![s] = "written_half"]
  /\ UNCHANGED <<mem, begun, acked, raced>>

WriteRest(s) ==
  /\ doing[s] = "written_half"
  /\ disk' = [disk EXCEPT ![Last(s)] = [token |-> mem[s][Last(s)], whole |-> TRUE]]
  /\ acked' = acked \cup {[at |-> Last(s), token |-> mem[s][Last(s)]]}
  /\ doing' = [doing EXCEPT ![s] = "open"]
  /\ UNCHANGED <<mem, begun, raced>>

\* The process ends or dies.
StoreDies(s) ==
  /\ doing[s] # "closed"
  /\ doing' = [doing EXCEPT ![s] = "closed"]
  /\ mem' = [mem EXCEPT ![s] = <<>>]
  /\ UNCHANGED <<disk, begun, acked, raced>>

EvidenceNext ==
  \E s \in Stores :
    \/ Open(s) \/ Claim(s) \/ Refuse(s) \/ Pass(s)
    \/ WriteHalf(s) \/ WriteRest(s) \/ StoreDies(s)

EvidenceSpec == EvidenceInit /\ [][EvidenceNext]_evidenceVars
----------------------------------------------------------------------------
\* Whatever stores collide and die, the files on disk are numbered 1, 2, 3, ...:
\* only a torn file can keep a ledger from being opened, never a gap.  And a
\* record whose append returned is the one on disk under its number, and the one
\* every open store has, unless two stores were past the look at its file at one
\* time: a collision seen in time never replaces a record.
AcknowledgedKept ==
  /\ \A n \in Files : \A k \in 1..n : k \in Files
  /\ ~raced =>
       \A record \in acked :
         /\ disk[record.at] = [token |-> record.token, whole |-> TRUE]
         /\ \A s \in Stores :
              doing[s] = "open" /\ record.at <= Last(s) => mem[s][record.at] = record.token
=============================================================================
