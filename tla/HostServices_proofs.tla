------------------------- MODULE HostServices_proofs -------------------------
(***************************************************************************)
(* Theorems about the services of the host: evidence stores of several     *)
(* processes, for any number of stores and records; the task contract with *)
(* its projections and its ledger, for any contents and length; and what   *)
(* the host lets its tools and its extensions do, for any refs, manifests, *)
(* grants and places.                                                      *)
(***************************************************************************)
EXTENDS HostServices, ContextView_proofs, ProgressTail_proofs

(***************************************************************************)
(* The evidence store.                                                     *)
(***************************************************************************)
\* An append that has begun but not returned: the last record of the list is
\* not yet the store's.
AppendPending(s) == doing[s] \in {"claimed", "writing", "written_half"}
HeldUpTo(s) == IF AppendPending(s) THEN Last(s) - 1 ELSE Last(s)

StoreBounded ==
  /\ Files \subseteq 1..begun
  /\ \A s \in Stores : Last(s) <= begun /\ (AppendPending(s) => Last(s) >= 1)

NoGap == \A n \in Files : \A k \in 1..n : k \in Files

\* What a store holds is on disk.
HeldOnDisk ==
  \A s \in Stores : \A k \in 1..HeldUpTo(s) :
    k \in Files /\ (~raced => disk[k].token = mem[s][k])

\* No two stores write one file, and none writes one that is there.
Claims ==
  ~raced => \A s \in Stores :
    /\ doing[s] = "writing" => Last(s) \notin Files
    /\ doing[s] = "written_half" =>
         disk[Last(s)] = [token |-> mem[s][Last(s)], whole |-> FALSE]
    /\ \A t \in Stores \ {s} :
         doing[s] \in {"writing", "written_half"} /\ doing[t] \in {"writing", "written_half"}
           => Last(s) # Last(t)

AckedOnDisk ==
  ~raced => \A record \in acked : disk[record.at] = [token |-> record.token, whole |-> TRUE]

StoreInvariant == EvidenceTypeOK /\ StoreBounded /\ NoGap /\ HeldOnDisk /\ Claims /\ AckedOnDisk

LEMMA StoreNumbers ==
  ASSUME StoreInvariant
  PROVE  begun \in Nat /\ \A s \in Stores : Last(s) \in Nat
BY MaxRecordsNat DEF StoreInvariant, EvidenceTypeOK, Last

----------------------------------------------------------------------------
LEMMA StoreInit == EvidenceInit => StoreInvariant
<1> SUFFICES ASSUME EvidenceInit PROVE StoreInvariant
  OBVIOUS
<1>1. Files = {}
  BY DEF EvidenceInit, Files
<1>2. \A s \in Stores : Last(s) = 0 /\ ~AppendPending(s)
  BY DEF EvidenceInit, Last, AppendPending
<1>3. EvidenceTypeOK
  <2>1. 0 \in 0..MaxRecords /\ <<>> \in Seq(Tokens)
    BY MaxRecordsNat
  <2> QED BY <2>1 DEF EvidenceInit, EvidenceTypeOK, Doing
<1> QED
  BY <1>1, <1>2, <1>3 DEF EvidenceInit, StoreInvariant, StoreBounded, NoGap, HeldOnDisk, Claims, AckedOnDisk, HeldUpTo

\* The steps that leave the disk alone.
LEMMA OpenKeeps ==
  ASSUME StoreInvariant, NEW s \in Stores, Open(s)
  PROVE  StoreInvariant'
<1> USE MaxRecordsNat DEF StoreInvariant
<1>1. PICK n \in 0..MaxRecords :
        /\ Files = 1..n
        /\ mem' = [mem EXCEPT ![s] = [k \in 1..n |-> disk[k].token]]
  BY DEF Open
<1>2. \A k \in 1..n : disk[k].token \in Tokens
  BY <1>1 DEF EvidenceTypeOK, Files, None, EvidenceRecord, Numbers
<1>3. mem' \in [Stores -> Seq(Tokens)]
  <2>1. [k \in 1..n |-> disk[k].token] \in Seq(Tokens)
    BY <1>2
  <2> QED BY <1>1, <2>1 DEF EvidenceTypeOK
<1>4. mem'[s] = [k \in 1..n |-> disk[k].token] /\ Last(s)' = n
  BY <1>1 DEF EvidenceTypeOK, Last
<1>5. Files' = Files
  BY DEF Open, Files
<1>6. \A t \in Stores \ {s} : mem'[t] = mem[t] /\ doing'[t] = doing[t] /\ Last(t)' = Last(t)
  BY <1>1 DEF Open, EvidenceTypeOK, Last
<1>7. doing'[s] = "open" /\ UNCHANGED <<disk, begun, acked, raced>>
  BY DEF Open, EvidenceTypeOK
<1>8. EvidenceTypeOK'
  BY <1>3, <1>7 DEF Open, EvidenceTypeOK, Doing
<1>9. StoreBounded'
  <2>1. n <= begun
    BY <1>1, StoreNumbers DEF StoreBounded
  <2> QED BY <1>4, <1>5, <1>6, <1>7, <2>1 DEF StoreBounded, AppendPending
<1>10. NoGap' /\ AckedOnDisk'
  BY <1>5, <1>7 DEF NoGap, AckedOnDisk
<1>11. HeldOnDisk'
  BY <1>1, <1>4, <1>5, <1>6, <1>7 DEF HeldOnDisk, HeldUpTo, AppendPending
<1>12. Claims'
  BY <1>4, <1>5, <1>6, <1>7 DEF Claims
<1> QED BY <1>8, <1>9, <1>10, <1>11, <1>12

LEMMA ClaimKeeps ==
  ASSUME StoreInvariant, NEW s \in Stores, Claim(s)
  PROVE  StoreInvariant'
<1> USE MaxRecordsNat DEF StoreInvariant
<1>1. /\ mem'[s] = Append(mem[s], begun + 1) /\ mem' \in [Stores -> Seq(Tokens)]
      /\ Last(s)' = Last(s) + 1 /\ Last(s) \in Nat
      /\ \A k \in 1..Last(s) : mem'[s][k] = mem[s][k]
  BY DEF Claim, EvidenceTypeOK, Last, Tokens
<1>2. \A t \in Stores \ {s} : mem'[t] = mem[t] /\ doing'[t] = doing[t] /\ Last(t)' = Last(t)
  BY DEF Claim, EvidenceTypeOK, Last
<1>3. /\ doing'[s] = "claimed" /\ doing[s] = "open" /\ begun' = begun + 1
      /\ UNCHANGED <<disk, acked, raced>> /\ Files' = Files /\ begun \in Nat
  BY DEF Claim, EvidenceTypeOK, Files
<1>4. EvidenceTypeOK'
  BY <1>1, <1>3 DEF Claim, EvidenceTypeOK, Doing
<1>5. StoreBounded'
  <2>1. Files' \subseteq 1..begun'
    BY <1>3 DEF StoreBounded
  <2>2. Last(s)' <= begun' /\ Last(s)' >= 1
    BY <1>1, <1>3 DEF StoreBounded
  <2>3. \A t \in Stores \ {s} : Last(t)' <= begun' /\ (AppendPending(t)' => Last(t)' >= 1)
    BY <1>2, <1>3, StoreNumbers DEF StoreBounded, AppendPending
  <2> QED BY <2>1, <2>2, <2>3 DEF StoreBounded
<1>6. NoGap' /\ AckedOnDisk'
  BY <1>3 DEF NoGap, AckedOnDisk
<1>7. HeldOnDisk'
  <2>1. \A t \in Stores : HeldUpTo(t)' = HeldUpTo(t) /\ \A k \in 1..HeldUpTo(t) : mem'[t][k] = mem[t][k]
    <3>1. HeldUpTo(s)' = Last(s) /\ HeldUpTo(s) = Last(s)
      BY <1>1, <1>3 DEF HeldUpTo, AppendPending
    <3>2. \A t \in Stores \ {s} : HeldUpTo(t)' = HeldUpTo(t)
      BY <1>2 DEF HeldUpTo, AppendPending
    <3> QED BY <1>1, <1>2, <3>1, <3>2
  <2> QED BY <1>3, <2>1 DEF HeldOnDisk
<1>8. Claims'
  BY <1>2, <1>3 DEF Claims
<1> QED BY <1>4, <1>5, <1>6, <1>7, <1>8

LEMMA RefuseKeeps ==
  ASSUME StoreInvariant, NEW s \in Stores, Refuse(s)
  PROVE  StoreInvariant'
<1> USE MaxRecordsNat DEF StoreInvariant
<1>1. Last(s) >= 1 /\ Last(s) \in Nat
  BY DEF Refuse, StoreBounded, AppendPending, EvidenceTypeOK, Last
<1>2. /\ mem' \in [Stores -> Seq(Tokens)]
      /\ Last(s)' = Last(s) - 1
      /\ \A k \in 1..Last(s) - 1 : mem'[s][k] = mem[s][k]
  <2>1. mem[s] \in Seq(Tokens) /\ Len(mem[s]) = Last(s)
    BY DEF EvidenceTypeOK, Last
  <2>2. /\ SubSeq(mem[s], 1, Last(s) - 1) \in Seq(Tokens)
        /\ Len(SubSeq(mem[s], 1, Last(s) - 1)) = Last(s) - 1
        /\ \A k \in 1..Last(s) - 1 : SubSeq(mem[s], 1, Last(s) - 1)[k] = mem[s][k]
    BY <1>1, <2>1
  <2>3. mem' = [mem EXCEPT ![s] = SubSeq(mem[s], 1, Last(s) - 1)]
    BY <2>1 DEF Refuse
  <2> QED BY <2>2, <2>3 DEF EvidenceTypeOK, Last
<1>3. \A t \in Stores \ {s} : mem'[t] = mem[t] /\ doing'[t] = doing[t] /\ Last(t)' = Last(t)
  BY DEF Refuse, EvidenceTypeOK, Last
<1>4. /\ doing'[s] = "open" /\ doing[s] = "claimed"
      /\ UNCHANGED <<disk, begun, acked, raced>> /\ Files' = Files
  BY DEF Refuse, EvidenceTypeOK, Files
<1>5. EvidenceTypeOK'
  BY <1>2, <1>4 DEF Refuse, EvidenceTypeOK, Doing
<1>6. StoreBounded'
  BY <1>1, <1>2, <1>3, <1>4, StoreNumbers DEF StoreBounded, AppendPending
<1>7. NoGap' /\ AckedOnDisk'
  BY <1>4 DEF NoGap, AckedOnDisk
<1>8. HeldOnDisk'
  <2>1. \A t \in Stores : HeldUpTo(t)' = HeldUpTo(t) /\ \A k \in 1..HeldUpTo(t) : mem'[t][k] = mem[t][k]
    BY <1>2, <1>3, <1>4 DEF HeldUpTo, AppendPending
  <2> QED BY <1>4, <2>1 DEF HeldOnDisk
<1>9. Claims'
  <2>1. \A t \in Stores : doing'[t] \in {"writing", "written_half"} =>
          t # s /\ doing[t] = doing'[t] /\ mem'[t] = mem[t] /\ Last(t)' = Last(t)
    BY <1>3, <1>4
  <2> QED BY <1>4, <2>1 DEF Claims
<1> QED BY <1>5, <1>6, <1>7, <1>8, <1>9

LEMMA PassKeeps ==
  ASSUME StoreInvariant, NEW s \in Stores, Pass(s)
  PROVE  StoreInvariant'
<1> USE DEF StoreInvariant
<1>1. /\ \A t \in Stores : Last(t)' = Last(t)
      /\ \A t \in Stores \ {s} : doing'[t] = doing[t]
      /\ doing'[s] = "writing" /\ doing[s] = "claimed"
      /\ UNCHANGED <<disk, mem, begun, acked>> /\ Files' = Files
      /\ raced => raced'
  BY DEF Pass, EvidenceTypeOK, Files, Last
<1>2. EvidenceTypeOK'
  BY <1>1 DEF Pass, EvidenceTypeOK, Doing
<1>3. StoreBounded' /\ NoGap' /\ AckedOnDisk'
  BY <1>1 DEF StoreBounded, NoGap, AckedOnDisk, AppendPending
<1>4. HeldOnDisk'
  BY <1>1 DEF HeldOnDisk, HeldUpTo, AppendPending
<1>5. Claims'
  <2> SUFFICES ASSUME ~raced' PROVE Claims'
    BY DEF Claims
  <2>1. Last(s) \notin Files /\ ~raced
    BY <1>1 DEF Pass
  <2>2. \A t \in Stores \ {s} : doing[t] = "writing" => Last(t) # Last(s)
    BY DEF Pass, Claims
  <2>3. \A t \in Stores \ {s} : doing[t] = "written_half" => Last(t) # Last(s)
    <3> SUFFICES ASSUME NEW t \in Stores \ {s}, doing[t] = "written_half", Last(t) = Last(s)
                 PROVE  FALSE
      OBVIOUS
    <3>1. disk[Last(t)] = [token |-> mem[t][Last(t)], whole |-> FALSE]
      BY <2>1 DEF Claims
    <3>2. Last(t) \in 1..Len(mem[t]) /\ mem[t][Last(t)] \in Tokens
      BY DEF StoreBounded, AppendPending, EvidenceTypeOK, Last
    <3>3. Last(t) \in Numbers
      BY <3>2, MaxRecordsNat DEF StoreBounded, EvidenceTypeOK, Last, Numbers
    <3>4. disk[Last(t)] # None
      BY <3>1, <3>2 DEF None, Tokens
    <3> QED BY <2>1, <3>3, <3>4 DEF Files
  <2> QED BY <1>1, <2>1, <2>2, <2>3 DEF Claims
<1> QED BY <1>2, <1>3, <1>4, <1>5

LEMMA StoreDiesKeeps ==
  ASSUME StoreInvariant, NEW s \in Stores, StoreDies(s)
  PROVE  StoreInvariant'
<1> USE DEF StoreInvariant
<1>1. /\ mem'[s] = <<>> /\ Last(s)' = 0 /\ doing'[s] = "closed"
      /\ \A t \in Stores \ {s} : mem'[t] = mem[t] /\ doing'[t] = doing[t] /\ Last(t)' = Last(t)
      /\ UNCHANGED <<disk, begun, acked, raced>> /\ Files' = Files
  BY DEF StoreDies, EvidenceTypeOK, Files, Last
<1>2. EvidenceTypeOK'
  BY <1>1 DEF StoreDies, EvidenceTypeOK, Doing
<1>3. StoreBounded' /\ NoGap' /\ AckedOnDisk'
  BY <1>1 DEF StoreBounded, NoGap, AckedOnDisk, AppendPending, EvidenceTypeOK
<1>4. HeldOnDisk'
  BY <1>1 DEF HeldOnDisk, HeldUpTo, AppendPending
<1>5. Claims'
  BY <1>1 DEF Claims
<1> QED BY <1>2, <1>3, <1>4, <1>5

----------------------------------------------------------------------------
\* The steps that write: a file is opened, and made whole.
LEMMA LastNumber ==
  ASSUME StoreInvariant, NEW s \in Stores, AppendPending(s)
  PROVE  /\ Last(s) \in Numbers /\ Last(s) \in Nat /\ Last(s) <= begun
         /\ mem[s][Last(s)] \in Tokens
         /\ HeldUpTo(s) = Last(s) - 1
BY MaxRecordsNat DEF StoreInvariant, StoreBounded, EvidenceTypeOK, Last, Numbers, HeldUpTo

LEMMA WriteHalfKeeps ==
  ASSUME StoreInvariant, NEW s \in Stores, WriteHalf(s)
  PROVE  StoreInvariant'
<1> USE DEF StoreInvariant
<1> DEFINE half == [token |-> mem[s][Last(s)], whole |-> FALSE]
<1>1. doing[s] = "writing" /\ AppendPending(s)
  BY DEF WriteHalf, AppendPending
<1>2. half \in EvidenceRecord /\ half # None /\ Last(s) \in Numbers
  BY <1>1, LastNumber DEF EvidenceRecord, None, Tokens
<1>3. /\ disk'[Last(s)] = half
      /\ \A k \in Numbers : k # Last(s) => disk'[k] = disk[k]
      /\ Files' = Files \cup {Last(s)}
  BY <1>2 DEF WriteHalf, EvidenceTypeOK, Files
<1>4. /\ \A t \in Stores : Last(t)' = Last(t)
      /\ \A t \in Stores \ {s} : doing'[t] = doing[t]
      /\ doing'[s] = "written_half"
      /\ UNCHANGED <<mem, begun, acked, raced>>
  BY DEF WriteHalf, EvidenceTypeOK, Last
<1>5. EvidenceTypeOK'
  BY <1>2, <1>4 DEF WriteHalf, EvidenceTypeOK, Doing
<1>6. StoreBounded'
  <2>1. Files' \subseteq 1..begun'
    <3>1. Last(s) \in 1..begun
      BY <1>1, LastNumber, StoreNumbers DEF StoreBounded
    <3>2. begun' = begun /\ Files \subseteq 1..begun
      BY <1>4 DEF StoreBounded
    <3> QED BY <1>3, <3>1, <3>2
  <2>2. \A t \in Stores : AppendPending(t)' => AppendPending(t)
    BY <1>1, <1>4 DEF AppendPending
  <2> QED BY <1>4, <2>1, <2>2 DEF StoreBounded
<1>7. NoGap'
  BY <1>1, <1>3, <1>4, LastNumber DEF NoGap, HeldOnDisk, Numbers
<1>8. ~raced => Last(s) \notin Files
  BY <1>1 DEF Claims
<1>9. Files \subseteq Numbers
  BY DEF Files
<1>10. AckedOnDisk'
  <2> SUFFICES ASSUME ~raced, NEW record \in acked
               PROVE  disk'[record.at] = [token |-> record.token, whole |-> TRUE]
    BY <1>4 DEF AckedOnDisk
  <2>1. disk[record.at] = [token |-> record.token, whole |-> TRUE] /\ record.at \in Numbers
    BY DEF AckedOnDisk, EvidenceTypeOK
  <2>2. disk[record.at] # None
    BY <2>1 DEF None
  <2>3. record.at # Last(s)
    BY <1>8, <2>1, <2>2 DEF Files
  <2> QED BY <1>3, <2>1, <2>3
<1>11. HeldOnDisk'
  <2> SUFFICES ASSUME NEW t \in Stores, NEW k \in 1..HeldUpTo(t)
               PROVE  k \in Files' /\ (~raced => disk'[k].token = mem[t][k])
    BY <1>1, <1>4 DEF HeldOnDisk, HeldUpTo, AppendPending
  <2>1. k \in Files /\ (~raced => disk[k].token = mem[t][k])
    BY DEF HeldOnDisk
  <2> QED BY <1>3, <1>8, <1>9, <2>1
<1>12. Claims'
  <2> SUFFICES ASSUME ~raced PROVE Claims'
    BY <1>4 DEF Claims
  <2>1. ASSUME NEW t \in Stores \ {s}, doing[t] = "writing" PROVE Last(t) \notin Files'
    BY <1>1, <1>3, <2>1 DEF Claims
  <2>2. ASSUME NEW t \in Stores \ {s}, doing[t] = "written_half"
        PROVE  disk'[Last(t)] = [token |-> mem[t][Last(t)], whole |-> FALSE]
    <3>1. Last(t) \in Numbers
      BY <2>2, LastNumber DEF AppendPending
    <3>2. Last(t) # Last(s)
      BY <1>1, <2>2 DEF Claims
    <3> QED BY <1>3, <2>2, <3>1, <3>2 DEF Claims
  <2>3. \A t, u \in Stores : t # u /\ doing'[t] \in {"writing", "written_half"}
                             /\ doing'[u] \in {"writing", "written_half"} => Last(t) # Last(u)
    BY <1>1, <1>4 DEF Claims
  <2>4. doing'[s] = "written_half" /\ disk'[Last(s)] = half
    BY <1>3, <1>4
  <2>5. \A t \in Stores :
          /\ doing'[t] = "writing" => Last(t) \notin Files'
          /\ doing'[t] = "written_half" =>
               disk'[Last(t)] = [token |-> mem[t][Last(t)], whole |-> FALSE]
    BY <1>4, <2>1, <2>2, <2>4
  <2> QED BY <1>4, <2>3, <2>5 DEF Claims
<1> QED BY <1>5, <1>6, <1>7, <1>10, <1>11, <1>12

LEMMA WriteRestKeeps ==
  ASSUME StoreInvariant, NEW s \in Stores, WriteRest(s)
  PROVE  StoreInvariant'
<1> USE DEF StoreInvariant
<1> DEFINE full == [token |-> mem[s][Last(s)], whole |-> TRUE]
<1>1. doing[s] = "written_half" /\ AppendPending(s)
  BY DEF WriteRest, AppendPending
<1>2. full \in EvidenceRecord /\ full # None /\ Last(s) \in Numbers
  BY <1>1, LastNumber DEF EvidenceRecord, None, Tokens
<1>3. /\ disk'[Last(s)] = full
      /\ \A k \in Numbers : k # Last(s) => disk'[k] = disk[k]
      /\ Files' = Files \cup {Last(s)}
  BY <1>2 DEF WriteRest, EvidenceTypeOK, Files
<1>4. /\ \A t \in Stores : Last(t)' = Last(t)
      /\ \A t \in Stores \ {s} : doing'[t] = doing[t]
      /\ doing'[s] = "open"
      /\ acked' = acked \cup {[at |-> Last(s), token |-> mem[s][Last(s)]]}
      /\ UNCHANGED <<mem, begun, raced>>
  BY DEF WriteRest, EvidenceTypeOK, Last
<1>5. EvidenceTypeOK'
  BY <1>1, <1>2, <1>4, LastNumber DEF WriteRest, EvidenceTypeOK, Doing
<1>6. StoreBounded'
  <2>1. Files' \subseteq 1..begun'
    <3>1. Last(s) \in 1..begun
      BY <1>1, LastNumber, StoreNumbers DEF StoreBounded
    <3>2. begun' = begun /\ Files \subseteq 1..begun
      BY <1>4 DEF StoreBounded
    <3> QED BY <1>3, <3>1, <3>2
  <2>2. \A t \in Stores : AppendPending(t)' => AppendPending(t)
    BY <1>1, <1>4 DEF AppendPending
  <2> QED BY <1>4, <2>1, <2>2 DEF StoreBounded
<1>7. NoGap'
  BY <1>1, <1>3, <1>4, LastNumber DEF NoGap, HeldOnDisk, Numbers
<1>8. ~raced => disk[Last(s)] = [token |-> mem[s][Last(s)], whole |-> FALSE]
  BY <1>1 DEF Claims
<1>9. Files \subseteq Numbers
  BY DEF Files
<1>10. AckedOnDisk'
  <2> SUFFICES ASSUME ~raced, NEW record \in acked'
               PROVE  disk'[record.at] = [token |-> record.token, whole |-> TRUE]
    BY <1>4 DEF AckedOnDisk
  <2>1. CASE record \in acked
    <3>1. disk[record.at] = [token |-> record.token, whole |-> TRUE] /\ record.at \in Numbers
      BY <2>1 DEF AckedOnDisk, EvidenceTypeOK
    <3>2. record.at # Last(s)
      BY <1>8, <3>1
    <3> QED BY <1>3, <3>1, <3>2
  <2>2. CASE record = [at |-> Last(s), token |-> mem[s][Last(s)]]
    BY <1>3, <2>2
  <2> QED BY <1>4, <2>1, <2>2
<1>11. HeldOnDisk'
  <2> SUFFICES ASSUME NEW t \in Stores, NEW k \in 1..HeldUpTo(t)'
               PROVE  k \in Files' /\ (~raced => disk'[k].token = mem[t][k])
    BY <1>4 DEF HeldOnDisk
  <2>1. CASE k = Last(s)
    <3>1. ~raced => disk'[k].token = disk[k].token
      BY <1>3, <1>8, <2>1
    <3>2. CASE t = s
      BY <1>3, <2>1, <3>2
    <3>3. CASE t # s
      <4>1. k \in 1..HeldUpTo(t)
        BY <1>4, <3>3 DEF HeldUpTo, AppendPending
      <4> QED BY <1>3, <3>1, <4>1 DEF HeldOnDisk
    <3> QED BY <3>2, <3>3
  <2>2. CASE k # Last(s)
    <3>1. k \in 1..HeldUpTo(t)
      BY <1>1, <1>4, <2>2, LastNumber DEF HeldUpTo, AppendPending
    <3> QED BY <1>3, <1>9, <2>2, <3>1 DEF HeldOnDisk
  <2> QED BY <2>1, <2>2
<1>12. Claims'
  <2> SUFFICES ASSUME ~raced PROVE Claims'
    BY <1>4 DEF Claims
  <2>1. ASSUME NEW t \in Stores \ {s}, doing[t] = "writing" PROVE Last(t) \notin Files'
    BY <1>1, <1>3, <2>1 DEF Claims
  <2>2. ASSUME NEW t \in Stores \ {s}, doing[t] = "written_half"
        PROVE  disk'[Last(t)] = [token |-> mem[t][Last(t)], whole |-> FALSE]
    <3>1. Last(t) \in Numbers
      BY <2>2, LastNumber DEF AppendPending
    <3>2. Last(t) # Last(s)
      BY <1>1, <2>2 DEF Claims
    <3> QED BY <1>3, <2>2, <3>1, <3>2 DEF Claims
  <2>3. \A t, u \in Stores : t # u /\ doing'[t] \in {"writing", "written_half"}
                             /\ doing'[u] \in {"writing", "written_half"} => Last(t) # Last(u)
    BY <1>1, <1>4 DEF Claims
  <2> QED BY <1>3, <1>4, <2>1, <2>2, <2>3 DEF Claims
<1> QED BY <1>5, <1>6, <1>7, <1>10, <1>11, <1>12

----------------------------------------------------------------------------
LEMMA StoreNext == StoreInvariant /\ [EvidenceNext]_evidenceVars => StoreInvariant'
<1>1. ASSUME StoreInvariant, UNCHANGED evidenceVars PROVE StoreInvariant'
  <2>1. StoreInvariant /\ UNCHANGED evidenceVars
    BY <1>1
  <2>2. EvidenceTypeOK' /\ StoreBounded' /\ NoGap'
    BY <2>1 DEF StoreInvariant, evidenceVars, EvidenceTypeOK, StoreBounded, NoGap, Files, Last,
       AppendPending
  <2>3. HeldOnDisk'
    BY <2>1 DEF StoreInvariant, evidenceVars, HeldOnDisk, Files, Last, HeldUpTo, AppendPending
  <2>4. Claims' /\ AckedOnDisk'
    BY <2>1 DEF StoreInvariant, evidenceVars, Claims, AckedOnDisk, Files, Last
  <2> QED
    BY <2>2, <2>3, <2>4 DEF StoreInvariant
<1> QED
  BY <1>1, OpenKeeps, ClaimKeeps, RefuseKeeps, PassKeeps, WriteHalfKeeps, WriteRestKeeps,
     StoreDiesKeeps DEF EvidenceNext

\* The files of a ledger have no gap, and a record whose append returned stays as
\* it was written, on disk and in every open store, for any number of stores:
\* unless two of them were past the look at one file at one time.
THEOREM AcknowledgedRecordsKept == EvidenceSpec => []AcknowledgedKept
<1>1. StoreInvariant => AcknowledgedKept
  <2> SUFFICES ASSUME StoreInvariant PROVE AcknowledgedKept
    OBVIOUS
  <2>1. ASSUME ~raced, NEW record \in acked, NEW s \in Stores, doing[s] = "open",
               record.at <= Last(s)
        PROVE  mem[s][record.at] = record.token
    <3>1. record.at \in 1..HeldUpTo(s)
      <4>1. record.at \in Nat /\ record.at >= 1
        BY MaxRecordsNat DEF StoreInvariant, EvidenceTypeOK, Numbers
      <4>2. HeldUpTo(s) = Last(s) /\ Last(s) \in Nat
        BY <2>1, StoreNumbers DEF HeldUpTo, AppendPending
      <4> QED BY <2>1, <4>1, <4>2
    <3>2. disk[record.at].token = record.token
      <4>1. disk[record.at] = [token |-> record.token, whole |-> TRUE]
        BY <2>1 DEF StoreInvariant, AckedOnDisk
      <4> QED BY <4>1
    <3>3. disk[record.at].token = mem[s][record.at]
      BY <2>1, <3>1 DEF StoreInvariant, HeldOnDisk
    <3> QED BY <3>2, <3>3
  <2>2. \A n \in Files : \A k \in 1..n : k \in Files
    BY DEF StoreInvariant, NoGap
  <2>3. ~raced => \A record \in acked : disk[record.at] = [token |-> record.token, whole |-> TRUE]
    BY DEF StoreInvariant, AckedOnDisk
  <2> QED BY <2>1, <2>2, <2>3 DEF AcknowledgedKept
<1> QED
  BY StoreInit, StoreNext, <1>1, PTL DEF EvidenceSpec

(***************************************************************************)
(* The task contract and the decision ledger.                              *)
(***************************************************************************)
LEMMA LedgerAppended ==
  ASSUME TaskTypeOK, NEW kind \in Kinds, NEW hash \in Contents,
         NEW given \in Contents \cup {"none"}, NEW status \in Statuses,
         AppendLine(Line(kind, hash, given, status))
  PROVE  ledger' \in Seq(LedgerEntry) /\ Len(ledger') <= MaxEntries
<1>1. Line(kind, hash, given, status) \in LedgerEntry
  BY DEF Line, LedgerEntry
<1>2. CASE ledger' = ledger
  BY <1>2 DEF TaskTypeOK
<1>3. CASE ledger' = Append(ledger, Line(kind, hash, given, status))
  BY <1>1, <1>3, TaskRunDeclarations DEF TaskTypeOK, AppendLine
<1> QED
  BY <1>2, <1>3 DEF AppendLine

LEMMA TaskTypeInit == TaskInit => TaskTypeOK
BY TaskRunDeclarations DEF TaskInit, TaskTypeOK

\* What is not Nothing has a hash and a content.
LEMMA SomeContract ==
  ASSUME NEW object \in TaskContract \cup {Nothing}, object # Nothing
  PROVE  object \in TaskContract /\ object.hash \in Contents /\ object.content \in Contents
BY DEF TaskContract

LEMMA TaskTypeNext == TaskTypeOK /\ [TaskNext]_taskVars => TaskTypeOK'
<1> SUFFICES ASSUME TaskTypeOK, [TaskNext]_taskVars PROVE TaskTypeOK'
  OBVIOUS
<1> USE TaskRunDeclarations DEF TaskTypeOK
<1>1. ASSUME NEW content \in Contents, Freeze(content) \/ ReviseContract(content)
      PROVE  TaskTypeOK'
  BY <1>1 DEF Freeze, ReviseContract, Made, TaskContract
<1>2. ASSUME NEW content \in Contents, Drift(content) PROVE TaskTypeOK'
  <2>1. contract \in TaskContract
    BY <1>2, SomeContract DEF Drift
  <2>2. contract' \in TaskContract
    BY <1>2, <2>1 DEF Drift, TaskContract
  <2> QED BY <1>2, <2>2 DEF Drift
<1>3. ASSUME LoadContract PROVE TaskTypeOK'
  <2>1. contractFile.content \in Contents
    BY <1>3, SomeContract DEF LoadContract, NotDrifted
  <2> QED BY <1>3, <2>1 DEF LoadContract, Made, TaskContract
<1>4. ASSUME ProjectBrief \/ ProjectRubric PROVE TaskTypeOK'
  BY <1>4 DEF ProjectBrief, ProjectRubric
<1>5. ASSUME NEW kind \in Kinds, RecordContract(kind) PROVE TaskTypeOK'
  <2>1. contract.hash \in Contents
    BY <1>5, SomeContract DEF RecordContract
  <2>2. ledger' \in Seq(LedgerEntry) /\ Len(ledger') <= MaxEntries
    BY <1>5, <2>1, LedgerAppended DEF RecordContract, Statuses
  <2>3. force' \in Contents \cup {"none"}
    BY <1>5, <2>1 DEF RecordContract
  <2> QED BY <1>5, <2>2, <2>3 DEF RecordContract
<1>6. ASSUME NEW kind \in Kinds, NEW status \in Statuses, ReportExecution(kind, status)
      PROVE  TaskTypeOK'
  <2>1. brief.hash \in Contents /\ brief.content \in Contents
    BY <1>6, SomeContract DEF ReportExecution
  <2>2. ledger' \in Seq(LedgerEntry) /\ Len(ledger') <= MaxEntries
    BY <1>6, <2>1, LedgerAppended DEF ReportExecution
  <2> QED BY <1>6, <2>2 DEF ReportExecution
<1>7. ASSUME NEW status \in Statuses, Judge(status) PROVE TaskTypeOK'
  <2>1. rubric.hash \in Contents /\ rubric.content \in Contents
    BY <1>7, SomeContract DEF Judge
  <2>2. ledger' \in Seq(LedgerEntry) /\ Len(ledger') <= MaxEntries
    BY <1>7, <2>1, LedgerAppended DEF Judge, Kinds
  <2> QED BY <1>7, <2>2 DEF Judge
<1>8. ASSUME NEW kind \in Kinds, Request(kind) PROVE TaskTypeOK'
  <2>1. rubric.hash \in Contents
    BY <1>8, SomeContract DEF Request
  <2>2. ledger' \in Seq(LedgerEntry) /\ Len(ledger') <= MaxEntries
    BY <1>8, <2>1, LedgerAppended DEF Request, Statuses
  <2> QED BY <1>8, <2>2 DEF Request
<1>9. ASSUME HostDies PROVE TaskTypeOK'
  BY <1>9 DEF HostDies
<1>10. ASSUME TearLastLine PROVE TaskTypeOK'
  <2>1. ledger' \in Seq(LedgerEntry) /\ Len(ledger') = Len(ledger)
    <3>1. [ledger[Len(ledger)] EXCEPT !.whole = FALSE] \in LedgerEntry
      <4>1. ledger[Len(ledger)] \in LedgerEntry
        BY <1>10 DEF TearLastLine
      <4> QED BY <4>1 DEF LedgerEntry
    <3>2. ledger' = [ledger EXCEPT ![Len(ledger)] = [ledger[Len(ledger)] EXCEPT !.whole = FALSE]]
      BY <1>10 DEF TearLastLine
    <3>3. ledger \in [1..Len(ledger) -> LedgerEntry] /\ Len(ledger) \in Nat
      OBVIOUS
    <3>4. ledger' \in [1..Len(ledger) -> LedgerEntry]
      BY <3>1, <3>2, <3>3
    <3> QED BY <3>3, <3>4
  <2> QED BY <1>10, <2>1 DEF TearLastLine
<1>11. CASE UNCHANGED taskVars
  BY <1>11 DEF taskVars
<1> QED
  BY <1>1, <1>2, <1>3, <1>4, <1>5, <1>6, <1>7, <1>8, <1>9, <1>10, <1>11 DEF TaskNext

\* A contract, its projections and its ledger keep their types: what a worker or
\* a judge reports under is a hash of some contract.
THEOREM TaskTypeCorrect == TaskSpec => []TaskTypeOK
BY TaskTypeInit, TaskTypeNext, PTL DEF TaskSpec

----------------------------------------------------------------------------
IsTorn == \E i \in DOMAIN ledger : ~ledger[i].whole

Replayable == ledger # <<>> /\ ~IsTorn /\ ledger[1].kind # "revision_applied" /\ Chained(ledger)

\* A projection says what its hash names, though the object it was made from may
\* have been changed since; so a judge that reports under a hash was given that.
RubricFaithful == rubric.content = rubric.hash

JudgesGiven ==
  \A i \in DOMAIN ledger :
    ledger[i].kind = "judge_report_recorded" => ledger[i].given = ledger[i].hash

\* A ledger that replays names the contract in force in its last entry,
\* whatever kind of entry that is.
TailInForce ==
  /\ ledger = <<>> => force = "none"
  /\ Replayable /\ force # "none" => ledger[Len(ledger)].hash = force

LedgerInvariant == RubricFaithful /\ JudgesGiven /\ TailInForce

LEMMA TornStays ==
  ASSUME TaskTypeOK, IsTorn, NEW line, AppendLine(line)
  PROVE  IsTorn'
<1>1. PICK i \in DOMAIN ledger : ~ledger[i].whole
  BY DEF IsTorn
<1>2. ledger' = ledger \/ ledger' = Append(ledger, line)
  BY DEF AppendLine
<1>3. i \in DOMAIN ledger' /\ ledger'[i] = ledger[i]
  BY <1>2 DEF TaskTypeOK
<1> QED BY <1>1, <1>3 DEF IsTorn

\* A line appended to a whole ledger is its last, after what was there.
LEMMA AppendedToWhole ==
  ASSUME TaskTypeOK, ~IsTorn, NEW line, AppendLine(line)
  PROVE  /\ ledger' # <<>>
         /\ ledger' = Append(ledger, line)
         /\ ledger'[Len(ledger')] = line
         /\ Len(ledger') = Len(ledger) + 1
         /\ \A i \in DOMAIN ledger : ledger'[i] = ledger[i]
<1>1. ledger' = Append(ledger, line)
  BY DEF AppendLine, IsTorn, TaskTypeOK
<1> QED BY <1>1 DEF TaskTypeOK

\* If the longer ledger replays, so did the shorter one, and an entry that is
\* no revision carries on with the hash before it.
LEMMA ReplayablePrefix ==
  ASSUME TaskTypeOK, ledger # <<>>, NEW line, AppendLine(line), Replayable'
  PROVE  /\ Replayable
         /\ line.kind # "revision_applied" => line.hash = ledger[Len(ledger)].hash
<1>1. ~IsTorn
  BY TornStays DEF Replayable
<1>2. /\ ledger'[Len(ledger) + 1] = line
      /\ Len(ledger') = Len(ledger) + 1
      /\ \A i \in 1..Len(ledger) : ledger'[i] = ledger[i]
      /\ Len(ledger) \in Nat /\ Len(ledger) >= 1
  BY <1>1, AppendedToWhole DEF TaskTypeOK
<1>3. \A i \in 2..Len(ledger) + 1 :
        (ledger'[i].hash # ledger'[i - 1].hash) <=> ledger'[i].kind = "revision_applied"
  BY <1>2 DEF Replayable, Chained
<1>4. Chained(ledger)
  BY <1>2, <1>3 DEF Chained
<1>5. ledger[1].kind # "revision_applied"
  BY <1>2 DEF Replayable
<1>6. (line.hash # ledger[Len(ledger)].hash) <=> line.kind = "revision_applied"
  BY <1>2, <1>3
<1> QED BY <1>1, <1>4, <1>5, <1>6 DEF Replayable

\* A line that brings in no contract goes on under the one in force.
LEMMA ReportCarriesOn ==
  ASSUME TaskTypeOK, TailInForce, NEW line, AppendLine(line), UNCHANGED force,
         line.kind # "revision_applied"
  PROVE  TailInForce'
<1>1. ledger' # <<>>
  BY DEF AppendLine, TaskTypeOK
<1>2. ASSUME Replayable', force # "none" PROVE ledger'[Len(ledger')].hash = force
  <2>1. ledger # <<>>
    BY <1>2 DEF TailInForce
  <2>2. line.hash = ledger[Len(ledger)].hash /\ Replayable
    BY <1>2, <2>1, ReplayablePrefix
  <2>3. ledger'[Len(ledger')] = line
    BY <2>2, AppendedToWhole DEF Replayable
  <2> QED BY <1>2, <2>2, <2>3 DEF TailInForce
<1> QED BY <1>1, <1>2 DEF TailInForce

\* One that brings a contract in has it in force, unless it is lost behind a
\* torn line.
LEMMA RecordComesIn ==
  ASSUME TaskTypeOK, TailInForce, NEW line, AppendLine(line),
         force' = IF ledger' = ledger THEN force ELSE line.hash
  PROVE  TailInForce'
<1>1. ledger' # <<>>
  BY DEF AppendLine, TaskTypeOK
<1>2. ASSUME Replayable' PROVE ledger'[Len(ledger')].hash = force'
  <2>1. ~IsTorn
    BY <1>2, TornStays DEF Replayable
  <2>2. ledger'[Len(ledger')] = line /\ Len(ledger') = Len(ledger) + 1
    BY <2>1, AppendedToWhole
  <2>3. ledger' # ledger
    BY <2>2 DEF TaskTypeOK
  <2> QED BY <2>2, <2>3
<1> QED BY <1>1, <1>2 DEF TailInForce

\* A line keeps what the judges were given, if it does so itself.
LEMMA GivenAppended ==
  ASSUME TaskTypeOK, JudgesGiven, NEW line, AppendLine(line),
         line.kind = "judge_report_recorded" => line.given = line.hash
  PROVE  JudgesGiven'
<1>1. CASE ledger' = ledger
  BY <1>1 DEF JudgesGiven
<1>2. CASE ledger' = Append(ledger, line)
  BY <1>2 DEF JudgesGiven, TaskTypeOK
<1> QED BY <1>1, <1>2 DEF AppendLine

LEMMA LedgerInit == TaskInit => LedgerInvariant
BY DEF TaskInit, LedgerInvariant, RubricFaithful, JudgesGiven, TailInForce, Nothing

LEMMA LedgerNext ==
  ASSUME TaskTypeOK, LedgerInvariant, [TaskNext]_taskVars
  PROVE  LedgerInvariant'
<1> USE DEF LedgerInvariant
<1>1. ASSUME UNCHANGED <<ledger, force>>, RubricFaithful' PROVE LedgerInvariant'
  BY <1>1 DEF TailInForce, JudgesGiven, Replayable, IsTorn
<1>2. ASSUME NEW content \in Contents,
             Freeze(content) \/ ReviseContract(content) \/ Drift(content)
      PROVE  LedgerInvariant'
  BY <1>1, <1>2 DEF Freeze, ReviseContract, Drift, RubricFaithful
<1>3. ASSUME LoadContract \/ ProjectBrief \/ HostDies PROVE LedgerInvariant'
  BY <1>1, <1>3 DEF LoadContract, ProjectBrief, HostDies, RubricFaithful
<1>4. ASSUME ProjectRubric PROVE LedgerInvariant'
  BY <1>1, <1>4 DEF ProjectRubric, NotDrifted, RubricFaithful
<1>5. ASSUME NEW kind \in Kinds, RecordContract(kind) PROVE LedgerInvariant'
  <2>1. PICK line : /\ AppendLine(line)
                    /\ line.kind # "judge_report_recorded"
                    /\ force' = IF ledger' = ledger THEN force ELSE line.hash
    BY <1>5 DEF RecordContract, Line
  <2>2. RubricFaithful'
    BY <1>5 DEF RecordContract, RubricFaithful
  <2> QED BY <2>1, <2>2, RecordComesIn, GivenAppended
<1>6. ASSUME NEW line, AppendLine(line), UNCHANGED <<rubric, force>>,
             line.kind # "revision_applied",
             line.kind = "judge_report_recorded" => line.given = line.hash
      PROVE  LedgerInvariant'
  <2>1. RubricFaithful'
    BY <1>6 DEF RubricFaithful
  <2> QED BY <1>6, <2>1, ReportCarriesOn, GivenAppended
<1>7. ASSUME NEW kind \in Kinds, NEW status \in Statuses, ReportExecution(kind, status)
      PROVE  LedgerInvariant'
  BY <1>6, <1>7 DEF ReportExecution, Line
<1>8. ASSUME NEW status \in Statuses, Judge(status) PROVE LedgerInvariant'
  BY <1>6, <1>8 DEF Judge, Line, RubricFaithful
<1>9. ASSUME NEW kind \in Kinds, Request(kind) PROVE LedgerInvariant'
  BY <1>6, <1>9 DEF Request, Line
<1>10. ASSUME TearLastLine PROVE LedgerInvariant'
  <2>1. RubricFaithful'
    BY <1>10 DEF TearLastLine, RubricFaithful
  <2> DEFINE last == Len(ledger)
  <2>2. /\ ledger \in [1..last -> LedgerEntry]
        /\ last \in 1..last /\ last \in Nat
    BY <1>10 DEF TearLastLine, TaskTypeOK
  <2>3. ledger' = [ledger EXCEPT ![last] = [ledger[last] EXCEPT !.whole = FALSE]]
    BY <1>10 DEF TearLastLine
  <2> HIDE DEF last
  <2>4. DOMAIN ledger = 1..last /\ DOMAIN ledger' = 1..last
    BY <2>2, <2>3
  <2>5. ledger'[last] = [ledger[last] EXCEPT !.whole = FALSE]
    BY <2>2, <2>3
  <2>6. \A i \in 1..last : i # last => ledger'[i] = ledger[i]
    BY <2>2, <2>3
  <2>7. ledger[last] \in LedgerEntry
    BY <2>2
  <2>8. /\ ~ledger'[last].whole
        /\ ledger'[last].kind = ledger[last].kind
        /\ ledger'[last].given = ledger[last].given
        /\ ledger'[last].hash = ledger[last].hash
    BY <2>5, <2>7 DEF LedgerEntry
  <2>9. JudgesGiven'
    BY <2>4, <2>6, <2>8 DEF JudgesGiven
  <2>10. IsTorn'
    BY <2>2, <2>4, <2>8 DEF IsTorn
  <2>11. ledger' # <<>>
    <3>1. DOMAIN <<>> = {}
      OBVIOUS
    <3> QED BY <2>2, <2>4, <3>1
  <2> QED BY <2>1, <2>9, <2>10, <2>11 DEF TailInForce, Replayable
<1>11. CASE UNCHANGED taskVars
  BY <1>1, <1>11 DEF taskVars, RubricFaithful
<1> QED
  BY <1>2, <1>3, <1>4, <1>5, <1>7, <1>8, <1>9, <1>10, <1>11 DEF TaskNext

\* A run is accepted under the contract in force only, by a judge that was given
\* what this contract says: for any order of reports under any hash, objects that
\* drift, deaths between a contract's file and its entry, and torn lines.
THEOREM AcceptedIsInForce == TaskSpec => []AcceptedInForce
<1>1. TaskTypeOK /\ LedgerInvariant /\ [TaskNext]_taskVars => LedgerInvariant'
  BY LedgerNext
<1>2. TaskTypeOK /\ LedgerInvariant => AcceptedInForce
  <2> SUFFICES ASSUME TaskTypeOK, LedgerInvariant, Replay(ledger).status = "accepted",
                      force # "none"
               PROVE  /\ Replay(ledger).hash = force
                      /\ LET tail == ledger[Len(ledger)]
                         IN  tail.kind = "judge_report_recorded" => tail.given = force
    BY DEF AcceptedInForce
  <2>1. /\ Replayable
        /\ Replay(ledger).hash = ledger[Len(ledger)].hash
    BY DEF Replayable, IsTorn, Replay, Refused, RunReplaySummary
  <2>2. ledger[Len(ledger)].hash = force
    BY <2>1 DEF LedgerInvariant, TailInForce
  <2>3. Len(ledger) \in DOMAIN ledger
    BY <2>1 DEF Replayable, TaskTypeOK
  <2> QED BY <2>1, <2>2, <2>3 DEF LedgerInvariant, JudgesGiven
<1> QED
  BY TaskTypeCorrect, LedgerInit, <1>1, <1>2, PTL DEF TaskSpec

(***************************************************************************)
(* The tool gateway and the extension lock.                                *)
(***************************************************************************)
\* An assumption that is cited is cited with what it says.
USE DEF PolicyValid

LEMMA ProfileDeniesAsWorkspace ==
  ASSUME manifest \in Manifest
  PROVE  /\ SandboxProfile.deny = WorkspaceManifest.deny
         /\ WorkspaceManifest.read = manifest.read
         /\ WorkspaceManifest.write = manifest.write
BY DEF Manifest, SandboxProfile, WorkspaceManifest

LEMMA AllowedByBoth ==
  ASSUME GatewayTypeOK, NEW tool \in Tools, NEW ref \in Enforced(SandboxProfile, tool)
  PROVE  LET roots   == IF tool = "read" THEN manifest.read ELSE manifest.write
             implied == IF tool = "read" THEN Inputs ELSE Outputs
         IN  IF roots # {}
               THEN ref \in RunWorkspace(tool)
               ELSE ref \in RootsUnder(implied) \ RootsUnder(WorkspaceManifest.deny)
<1>1. /\ SandboxProfile.deny = WorkspaceManifest.deny
      /\ WorkspaceManifest.read = manifest.read
      /\ WorkspaceManifest.write = manifest.write
  BY ProfileDeniesAsWorkspace DEF GatewayTypeOK
<1>2. /\ SandboxProfile.read = Unless(manifest.read, Inputs)
      /\ SandboxProfile.write = Unless(manifest.write, Outputs)
  BY DEF SandboxProfile
<1> QED BY <1>1, <1>2 DEF RunWorkspace, Enforced, Unless, Tools

GatewayInvariant == GatewayTypeOK /\ AllowedAsWorkspace

LEMMA GatewayInitially == GatewayInit => GatewayInvariant
<1>1. 0 \in 0..MaxTime
  BY PolicyDeclarations
<1> QED
  BY <1>1
  DEF GatewayInit, GatewayInvariant, GatewayTypeOK, CapabilityGrant, ToolGatewayResult,
      Decisions, Tools, AllowedAsWorkspace

LEMMA GatewayKept == GatewayInvariant /\ [GatewayNext]_gatewayVars => GatewayInvariant'
<1> SUFFICES ASSUME GatewayInvariant, [GatewayNext]_gatewayVars PROVE GatewayInvariant'
  OBVIOUS
<1>1. ASSUME NEW grant \in copies, NEW tool \in Tools, NEW ref \in Refs,
             Dispatch(grant, tool, ref)
      PROVE  GatewayInvariant'
  <2>1. grant.revoked \in BOOLEAN
    BY DEF GatewayInvariant, GatewayTypeOK, CapabilityGrant
  <2>2. result' \in ToolGatewayResult
    BY <1>1, <2>1
    DEF Dispatch, GatewayInvariant, GatewayTypeOK, ToolGatewayResult, Decisions
  <2>3. GatewayTypeOK'
    BY <1>1, <2>2 DEF Dispatch, GatewayInvariant, GatewayTypeOK
  <2>4. UNCHANGED manifest /\ result'.tool = tool /\ result'.ref = ref
        /\ result'.at = now /\ result'.revoked = grant.revoked
    BY <1>1 DEF Dispatch
  <2>5. result'.decision = "allowed" =>
          IsActive(grant) /\ ref \in Enforced(SandboxProfile, tool)
    BY <1>1 DEF Dispatch
  <2>6. WorkspaceManifest' = WorkspaceManifest
    BY <2>4 DEF WorkspaceManifest
  <2>7. AllowedAsWorkspace'
    BY <2>4, <2>5, <2>6, AllowedByBoth
    DEF AllowedAsWorkspace, IsActive, GatewayInvariant, Enforced, RunWorkspace
  <2> QED BY <2>3, <2>7 DEF GatewayInvariant
<1>2. CASE Revoke
  <2>1. [revoked |-> TRUE] \in CapabilityGrant
    BY DEF CapabilityGrant
  <2>2. GatewayTypeOK'
    BY <1>2, <2>1 DEF Revoke, GatewayInvariant, GatewayTypeOK
  <2>3. AllowedAsWorkspace'
    BY <1>2 DEF Revoke, GatewayInvariant, AllowedAsWorkspace, RunWorkspace,
        WorkspaceManifest
  <2> QED BY <2>2, <2>3 DEF GatewayInvariant
<1>3. CASE Tick
  <2>1. now' \in 0..MaxTime
    BY <1>3, PolicyDeclarations DEF Tick, GatewayInvariant, GatewayTypeOK
  <2> QED
    BY <1>3, <2>1
    DEF Tick, GatewayInvariant, GatewayTypeOK, AllowedAsWorkspace, RunWorkspace,
        WorkspaceManifest
<1>4. CASE UNCHANGED gatewayVars
  BY <1>4
  DEF gatewayVars, GatewayInvariant, GatewayTypeOK, AllowedAsWorkspace, RunWorkspace,
        WorkspaceManifest
<1> QED BY <1>1, <1>2, <1>3, <1>4 DEF GatewayNext

\* What the sandbox allows the run workspace would allow, for any policy and any
\* manifest, up to the refs that an empty list of roots stands for.
THEOREM AllowedByWorkspace == GatewaySpec => []AllowedAsWorkspace
<1>1. GatewayInvariant => AllowedAsWorkspace
  BY DEF GatewayInvariant
<1> QED BY GatewayInitially, GatewayKept, <1>1, PTL DEF GatewaySpec
----------------------------------------------------------------------------
Installing == compiling \in {"removing", "copying", "copied_half"}

\* The places this install has yet to come to.
Unfinished == {Place[Grants[i]] : i \in {k \in DOMAIN Grants : k >= at}}

HalfCopied == {p \in Places : installed[p] # Missing /\ ~installed[p].whole}

InstallTyped ==
  /\ installed \in [Places -> Package]
  /\ compiling \in {"no", "removing", "copying", "copied_half", "locking"}
  /\ at \in DOMAIN Grants

\* A package is put in its own place only.
OwnPlaces == \A p \in Places :
  installed[p] # Missing => \E g \in Grantees : Place[g] = p /\ installed[p].of = g

\* What is half copied is noted, or being copied right now; an install that goes
\* on comes to all of it.
HalvesNoted ==
  /\ Installing => HalfCopied \subseteq Unfinished
  /\ HalfCopied = {} \/ cut \/ (compiling = "copied_half" /\ HalfCopied \subseteq {Place[Grant]})

\* No worker of an earlier call is left when the host installs.
NoneLoaded == Installing => DOMAIN loaded = {}

ExtensionInvariant ==
  /\ InstallTyped /\ OwnPlaces /\ HalvesNoted /\ NoneLoaded
  /\ LoadedAsGranted /\ LoadedWhole

\* The grants are numbered without a gap.
LEMMA GrantsNumbered ==
  /\ Len(Grants) \in Nat /\ Len(Grants) >= 1
  /\ DOMAIN Grants = 1..Len(Grants)
  /\ \A i \in DOMAIN Grants : Grants[i] \in Grantees /\ Place[Grants[i]] \in Places
BY ExtensionDeclarations DEF Grantees, Places

LEMMA ExtensionInitially == ExtensionInit => ExtensionInvariant
<1> SUFFICES ASSUME ExtensionInit PROVE ExtensionInvariant
  OBVIOUS
<1>1. InstallTyped
  BY GrantsNumbered DEF ExtensionInit, InstallTyped, Package
<1>2. OwnPlaces /\ HalvesNoted /\ NoneLoaded
  BY DEF ExtensionInit, OwnPlaces, HalvesNoted, HalfCopied, Installing, NoneLoaded
<1>3. LoadedAsGranted /\ LoadedWhole
  BY DEF ExtensionInit, LoadedAsGranted, LoadedWhole, Empty
<1> QED BY <1>1, <1>2, <1>3 DEF ExtensionInvariant

\* The next grant, or the lock once all are there.
LEMMA PutNextTyped ==
  ASSUME InstallTyped, PutNext("removing")
  PROVE  /\ at' \in DOMAIN Grants
         /\ \/ compiling' = "removing" /\ at < Len(Grants) /\ at' = at + 1
            \/ compiling' = "locking" /\ at = Len(Grants) /\ at' = 1
BY GrantsNumbered DEF InstallTyped, PutNext

LEMMA InstallKeeps ==
  ASSUME ExtensionInvariant, Install \/ RemoveOld \/ CopyHalf \/ CopyRest
  PROVE  ExtensionInvariant'
<1> USE DEF ExtensionInvariant
<1>1. /\ at \in DOMAIN Grants /\ Grant \in Grantees /\ Place[Grant] \in Places
      /\ installed \in [Places -> Package]
  BY GrantsNumbered DEF InstallTyped, Grant
<1>2. CASE Install
  <2>1. /\ compiling' = "removing" /\ at' = 1 /\ loaded' = Empty
        /\ UNCHANGED <<declared, installed, cut>> /\ compiling = "no"
    BY <1>2 DEF Install
  <2>2. \A p \in Places : p \in Unfinished'
    BY <2>1, GrantsNumbered DEF Unfinished, Places, Grantees
  <2>3. InstallTyped' /\ OwnPlaces'
    BY <2>1, GrantsNumbered DEF InstallTyped, OwnPlaces
  <2>4. HalvesNoted'
    BY <2>1, <2>2 DEF HalvesNoted, HalfCopied
  <2>5. NoneLoaded' /\ LoadedAsGranted' /\ LoadedWhole'
    BY <2>1 DEF NoneLoaded, LoadedAsGranted, LoadedWhole, Empty
  <2> QED BY <2>3, <2>4, <2>5
<1>3. CASE RemoveOld
  <2>1. /\ compiling = "removing" /\ compiling' = "copying"
        /\ installed' = [installed EXCEPT ![Place[Grant]] = Missing]
        /\ UNCHANGED <<declared, at, loaded, cut>>
    BY <1>3 DEF RemoveOld
  <2>2. \A p \in Places : installed'[p] = IF p = Place[Grant] THEN Missing ELSE installed[p]
    BY <1>1, <2>1
  <2>3. InstallTyped' /\ OwnPlaces'
    BY <1>1, <2>1, <2>2 DEF InstallTyped, Package, OwnPlaces
  <2>4. HalfCopied' \subseteq HalfCopied /\ UNCHANGED Unfinished
    BY <2>1, <2>2 DEF HalfCopied, Unfinished
  <2>5. HalvesNoted'
    BY <2>1, <2>4 DEF HalvesNoted, Installing
  <2>6. NoneLoaded' /\ LoadedAsGranted' /\ LoadedWhole'
    BY <2>1 DEF NoneLoaded, Installing, LoadedAsGranted, LoadedWhole
  <2> QED BY <2>3, <2>5, <2>6
<1>4. CASE CopyHalf
  <2>1. /\ compiling = "copying" /\ compiling' = "copied_half"
        /\ installed' = [installed EXCEPT ![Place[Grant]] = [of |-> Grant, whole |-> FALSE]]
        /\ UNCHANGED <<declared, at, loaded, cut>>
    BY <1>4 DEF CopyHalf
  <2>2. \A p \in Places :
          installed'[p] = IF p = Place[Grant] THEN [of |-> Grant, whole |-> FALSE]
                                              ELSE installed[p]
    BY <1>1, <2>1
  <2>3. InstallTyped'
    BY <1>1, <2>1 DEF InstallTyped, Package
  <2>4. OwnPlaces'
    BY <1>1, <2>2 DEF OwnPlaces
  <2>5. HalfCopied' \subseteq HalfCopied \cup {Place[Grant]} /\ UNCHANGED <<Unfinished, Grant>>
    BY <2>1, <2>2 DEF HalfCopied, Unfinished, Grant
  <2>6. Place[Grant] \in Unfinished
    BY <1>1, GrantsNumbered DEF Unfinished, Grant
  <2>7. HalvesNoted'
    BY <2>1, <2>5, <2>6 DEF HalvesNoted, Installing
  <2>8. NoneLoaded' /\ LoadedAsGranted' /\ LoadedWhole'
    BY <2>1 DEF NoneLoaded, Installing, LoadedAsGranted, LoadedWhole
  <2> QED BY <2>3, <2>4, <2>7, <2>8
<1>5. CASE CopyRest
  <2>1. /\ compiling = "copied_half" /\ PutNext("removing")
        /\ cut' = (cut /\ at < Len(Grants))
        /\ UNCHANGED <<declared, loaded>>
    BY <1>5 DEF CopyRest
  <2>2. /\ at' \in DOMAIN Grants
        /\ \/ compiling' = "removing" /\ at < Len(Grants) /\ at' = at + 1
           \/ compiling' = "locking" /\ at = Len(Grants) /\ at' = 1
    BY <2>1, PutNextTyped
  <2>3. [of |-> Grant, whole |-> TRUE] \in Package
    BY <1>1 DEF Package
  <2>4. installed' = [installed EXCEPT ![Place[Grant]] = [of |-> Grant, whole |-> TRUE]]
    BY <1>5 DEF CopyRest
  <2>5. \A p \in Places :
          installed'[p] = IF p = Place[Grant] THEN [of |-> Grant, whole |-> TRUE]
                                              ELSE installed[p]
    BY <1>1, <2>4
  <2>6. InstallTyped'
    BY <1>1, <2>2, <2>3, <2>4 DEF InstallTyped
  <2>7. OwnPlaces'
    BY <1>1, <2>5 DEF OwnPlaces
  <2>8. HalfCopied' = HalfCopied \ {Place[Grant]} /\ HalfCopied \subseteq Unfinished
    BY <2>1, <2>5 DEF HalfCopied, HalvesNoted, Installing
  <2>9. Unfinished \ {Place[Grant]} \subseteq Unfinished' \/ at = Len(Grants)
    BY <1>1, <2>2, GrantsNumbered DEF Unfinished, Grant
  <2>10. at = Len(Grants) => Unfinished = {Place[Grant]}
    BY <1>1, GrantsNumbered DEF Unfinished, Grant
  <2>11. HalvesNoted'
    BY <2>1, <2>2, <2>8, <2>9, <2>10 DEF HalvesNoted, Installing
  <2>12. NoneLoaded' /\ LoadedAsGranted' /\ LoadedWhole'
    BY <2>1, <2>2 DEF NoneLoaded, Installing, LoadedAsGranted, LoadedWhole
  <2> QED BY <2>6, <2>7, <2>11, <2>12
<1> QED BY <1>2, <1>3, <1>4, <1>5

LEMMA LockKeeps ==
  ASSUME ExtensionInvariant, VerifyInstalled \/ LockEntry \/ WriteLock \/ Die
  PROVE  ExtensionInvariant'
<1> USE DEF ExtensionInvariant
<1>1. UNCHANGED <<declared, installed, loaded>>
  BY DEF VerifyInstalled, LockEntry, WriteLock, Die
<1>2. compiling' \in {"no", "locking"} /\ at' \in DOMAIN Grants
  BY GrantsNumbered DEF VerifyInstalled, LockEntry, WriteLock, Die, InstallTyped
<1>3. cut' <=> cut \/ compiling = "copied_half"
  <2>1. CASE Die
    BY <2>1 DEF Die
  <2>2. CASE VerifyInstalled \/ LockEntry \/ WriteLock
    <3>1. cut' = cut /\ compiling # "copied_half"
      BY <2>2 DEF VerifyInstalled, LockEntry, WriteLock
    <3> QED BY <3>1
  <2> QED BY <2>1, <2>2
<1>4. InstallTyped' /\ OwnPlaces'
  BY <1>1, <1>2 DEF InstallTyped, OwnPlaces
<1>5. HalvesNoted' /\ NoneLoaded'
  BY <1>1, <1>2, <1>3 DEF HalvesNoted, HalfCopied, Installing, NoneLoaded
<1>6. LoadedAsGranted' /\ LoadedWhole'
  BY <1>1, <1>3 DEF LoadedAsGranted, LoadedWhole
<1> QED BY <1>4, <1>5, <1>6

LEMMA LoadKeeps ==
  ASSUME ExtensionInvariant, Load
  PROVE  ExtensionInvariant'
<1> USE DEF ExtensionInvariant
<1>1. /\ UNCHANGED <<declared, installed, compiling, at, cut>> /\ compiling = "no"
      /\ loaded' = [g \in Grantees |-> installed[Place[g]]]
      /\ Loadable = Grantees /\ \A g \in Grantees : installed[Place[g]] # Missing
  BY DEF Load
<1>2. \A g \in Grantees : Place[g] \in Places /\ loaded'[g] = installed[Place[g]]
  BY <1>1 DEF Places
<1>3. LoadedAsGranted'
  <2> SUFFICES ASSUME NEW g \in Grantees
               PROVE  /\ declared.needs[g] \subseteq declared.allowed
                      /\ Alone(g) => loaded'[g].of = g
    BY <1>1 DEF LoadedAsGranted
  <2>1. declared.needs[g] \subseteq declared.allowed
    BY <1>1 DEF Loadable, Mismatch
  <2>2. PICK h \in Grantees : Place[h] = Place[g] /\ installed[Place[g]].of = h
    BY <1>1, <1>2 DEF OwnPlaces
  <2> QED BY <1>2, <2>1, <2>2 DEF Alone
<1>4. LoadedWhole'
  BY <1>1, <1>2 DEF LoadedWhole, HalvesNoted, HalfCopied
<1>5. InstallTyped' /\ OwnPlaces' /\ HalvesNoted' /\ NoneLoaded'
  BY <1>1
  DEF InstallTyped, OwnPlaces, HalvesNoted, HalfCopied, Installing, NoneLoaded
<1> QED BY <1>3, <1>4, <1>5

LEMMA ExtensionKept ==
  ExtensionInvariant /\ [ExtensionNext]_extensionVars => ExtensionInvariant'
<1> SUFFICES ASSUME ExtensionInvariant, [ExtensionNext]_extensionVars
             PROVE  ExtensionInvariant'
  OBVIOUS
<1>1. ASSUME NEW needs, NEW allowed, Revise(needs, allowed) PROVE ExtensionInvariant'
  <2>1. DOMAIN loaded' = {}
    BY <1>1 DEF Revise, Empty
  <2> QED
    BY <1>1, <2>1
    DEF Revise, ExtensionInvariant, InstallTyped, OwnPlaces, HalvesNoted, HalfCopied,
        Installing, NoneLoaded, LoadedAsGranted, LoadedWhole
<1>2. CASE UNCHANGED extensionVars
  BY <1>2
  DEF extensionVars, ExtensionInvariant, InstallTyped, OwnPlaces, HalvesNoted, HalfCopied,
      Unfinished, Installing, Grant, NoneLoaded, LoadedAsGranted, LoadedWhole
<1> QED
  BY <1>1, <1>2, InstallKeeps, LockKeeps, LoadKeeps DEF ExtensionNext

LEMMA ExtensionInvariantHolds == ExtensionSpec => []ExtensionInvariant
BY ExtensionInitially, ExtensionKept, PTL DEF ExtensionSpec

\* What is loaded is allowed by the manifest of this very call, and is the
\* grant's own package, for any grants, needs and places.
THEOREM LoadedIsGranted == ExtensionSpec => []LoadedAsGranted
<1>1. ExtensionInvariant => LoadedAsGranted
  BY DEF ExtensionInvariant
<1> QED BY ExtensionInvariantHolds, <1>1, PTL

\* Nothing is loaded in halves, unless an install died and none came after it.
THEOREM LoadedIsWhole == ExtensionSpec => []LoadedWhole
<1>1. ExtensionInvariant => LoadedWhole
  BY DEF ExtensionInvariant
<1> QED BY ExtensionInvariantHolds, <1>1, PTL

LEMMA ExtensionTypeInit == ExtensionInit => ExtensionTypeOK
<1> SUFFICES ASSUME ExtensionInit PROVE ExtensionTypeOK
  OBVIOUS
<1>1. Empty \in Locks /\ Empty \in Loads
  <2>1. Empty \in [{} -> Entry] /\ Empty \in [{} -> Package]
    BY DEF Empty
  <2> QED
    BY <2>1 DEF Locks, Loads
<1>2. 1 \in 1..Len(Grants) + 1
  BY GrantsNumbered
<1>3. installed \in [Places -> Package]
  BY DEF ExtensionInit, Package
<1> QED
  BY <1>1, <1>2, <1>3 DEF ExtensionInit, ExtensionTypeOK

LEMMA ExtensionTypeNext ==
  ExtensionTypeOK /\ InstallTyped /\ InstallTyped' /\ [ExtensionNext]_extensionVars
    => ExtensionTypeOK'
<1> SUFFICES ASSUME ExtensionTypeOK, InstallTyped, InstallTyped', [ExtensionNext]_extensionVars
             PROVE  ExtensionTypeOK'
  OBVIOUS
<1> DEFINE KeepsTypes ==
             /\ declared' \in [needs : [Grantees -> SUBSET Powers], allowed : SUBSET Powers]
             /\ entries' \in Locks /\ lock' \in Locks /\ loaded' \in Loads
             /\ cut' \in BOOLEAN
<1>1. Empty \in Locks /\ Empty \in Loads
  <2>1. Empty \in [{} -> Entry] /\ Empty \in [{} -> Package]
    BY DEF Empty
  <2> QED
    BY <2>1 DEF Locks, Loads
<1>2. /\ declared \in [needs : [Grantees -> SUBSET Powers], allowed : SUBSET Powers]
      /\ entries \in Locks /\ lock \in Locks /\ loaded \in Loads /\ cut \in BOOLEAN
      /\ installed \in [Places -> Package]
  BY DEF ExtensionTypeOK
<1> HIDE DEF KeepsTypes
<1>3. ASSUME Install \/ VerifyInstalled \/ RemoveOld \/ CopyHalf \/ CopyRest \/ WriteLock \/ Die
      PROVE  KeepsTypes
  BY <1>1, <1>2, <1>3
  DEF KeepsTypes, Install, VerifyInstalled, RemoveOld, CopyHalf, CopyRest, WriteLock, Die
<1>4. ASSUME LockEntry PROVE KeepsTypes
  <2>1. PICK S \in SUBSET Grantees : entries \in [S -> Entry]
    BY <1>2 DEF Locks
  <2>2. Grant \in Grantees /\ installed[Place[Grant]] \in Package
    BY <1>2, GrantsNumbered DEF Grant, InstallTyped
  <2>3. entries' \in Locks
    <3> DEFINE more == S \cup {Grant}
               entry == [needs |-> declared.needs[Grant], package |-> installed[Place[Grant]]]
               next == [g \in more |-> IF g = Grant THEN entry ELSE entries[g]]
    <3>1. entry \in Entry
      BY <1>2, <2>2 DEF Entry
    <3> HIDE DEF entry
    <3>2. next \in [more -> Entry] /\ more \in SUBSET Grantees
      BY <2>1, <2>2, <3>1
    <3>3. next \in Locks
      BY <3>2 DEF Locks
    <3>4. \/ entries' = next
          \/ entries' = Empty
      BY <1>4, <2>1 DEF LockEntry, entry
    <3> QED
      BY <1>1, <3>3, <3>4
  <2> QED
    BY <1>2, <1>4, <2>3 DEF KeepsTypes, LockEntry
<1>5. ASSUME Load PROVE KeepsTypes
  <2>1. loaded' = [g \in Grantees |-> installed[Place[g]]]
    BY <1>5 DEF Load
  <2>2. \A g \in Grantees : installed[Place[g]] \in Package
    BY <1>2, GrantsNumbered DEF Grantees
  <2>3. loaded' \in [Grantees -> Package]
    BY <2>1, <2>2
  <2>4. loaded' \in Loads
    BY <2>3 DEF Loads
  <2> QED
    BY <1>2, <1>5, <2>4 DEF KeepsTypes, Load
<1>6. ASSUME NEW needs \in [Grantees -> SUBSET Powers], NEW allowed \in SUBSET Powers,
             Revise(needs, allowed)
      PROVE  KeepsTypes
  BY <1>1, <1>2, <1>6 DEF KeepsTypes, Revise
<1>7. ASSUME UNCHANGED extensionVars PROVE KeepsTypes
  BY <1>2, <1>7 DEF KeepsTypes, extensionVars
<1>8. KeepsTypes
  BY <1>3, <1>4, <1>5, <1>6, <1>7 DEF ExtensionNext
<1>9. at' \in 1..Len(Grants) + 1
  BY GrantsNumbered DEF InstallTyped
<1> QED
  BY <1>8, <1>9 DEF KeepsTypes, InstallTyped, ExtensionTypeOK

(***************************************************************************)
(* The composition.                                                        *)
(***************************************************************************)

\* Each service takes its own steps or none, by the way HostSpec is composed; so
\* what is proved of a service alone holds in the runs that explore them all.
LEMMA PartsKeepTheirSpecs ==
  HostSpec => /\ ContextSpec /\ ProgressSpec /\ EvidenceSpec
              /\ TaskSpec /\ GatewaySpec /\ ExtensionSpec
<1>1. HostInit => /\ ContextInit /\ ProgressInit /\ EvidenceInit
                  /\ TaskInit /\ GatewayInit /\ ExtensionInit
  BY DEF HostInit
<1>2. ASSUME [HostNext]_hostVars
      PROVE  /\ ContextNext \/ UNCHANGED contextVars
             /\ ProgressNext \/ UNCHANGED progressVars
             /\ EvidenceNext \/ UNCHANGED evidenceVars
             /\ TaskNext \/ UNCHANGED taskVars
             /\ GatewayNext \/ UNCHANGED gatewayVars
             /\ ExtensionNext \/ UNCHANGED extensionVars
  BY <1>2, Zenon DEF HostNext, hostVars
<1>3. [HostNext]_hostVars =>
        /\ [ContextNext]_contextVars /\ [ProgressNext]_progressVars
        /\ [EvidenceNext]_evidenceVars /\ [TaskNext]_taskVars
        /\ [GatewayNext]_gatewayVars /\ [ExtensionNext]_extensionVars
  BY <1>2
<1> QED
  BY <1>1, <1>3, PTL
  DEF HostSpec, ContextSpec, ProgressSpec, EvidenceSpec, TaskSpec, GatewaySpec, ExtensionSpec

LEMMA EvidenceTypeCorrect == EvidenceSpec => []EvidenceTypeOK
<1>1. StoreInvariant => EvidenceTypeOK
  BY DEF StoreInvariant
<1> QED
  BY <1>1, StoreInit, StoreNext, PTL DEF EvidenceSpec

LEMMA GatewayTypeCorrect == GatewaySpec => []GatewayTypeOK
<1>1. GatewayInvariant => GatewayTypeOK
  BY DEF GatewayInvariant
<1> QED
  BY <1>1, GatewayInitially, GatewayKept, PTL DEF GatewaySpec

LEMMA ExtensionTypeCorrect == ExtensionSpec => []ExtensionTypeOK
<1>1. ExtensionInvariant => InstallTyped
  BY DEF ExtensionInvariant
<1> QED
  BY <1>1, ExtensionInvariantHolds, ExtensionTypeInit, ExtensionTypeNext, PTL DEF ExtensionSpec

\* The variables of all six services keep their types, and none of their bounds, such
\* as the turns of a worker or the lines of a ledger, is passed.
THEOREM HostTypeCorrect == HostSpec => []HostTypeOK
<1>1. /\ ContextTypeOK /\ ProgressTypeOK /\ EvidenceTypeOK
      /\ TaskTypeOK /\ GatewayTypeOK /\ ExtensionTypeOK
      => HostTypeOK
  BY DEF HostTypeOK
<1> QED
  BY <1>1, PartsKeepTheirSpecs, ContextTypeCorrect, ProgressTypeCorrect, EvidenceTypeCorrect,
     TaskTypeCorrect, GatewayTypeCorrect, ExtensionTypeCorrect, PTL
==============================================================================
