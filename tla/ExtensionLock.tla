---------------------------- MODULE ExtensionLock ----------------------------
(***************************************************************************)
(* From the grants of a permission manifest to the extensions a worker     *)
(* loads (extensions.py, and the worker's extensions.ts): the host copies  *)
(* local packages into the install root, hashes what is installed into a   *)
(* lock, and much later a worker compares that lock with the manifest it   *)
(* is given and loads what then is installed.                              *)
(*                                                                         *)
(* The install root is shared by the runs of a workspace; a package is put *)
(* under the last part of its path.  Packages of npm, which one command    *)
(* installs, are not modelled.                                             *)
(***************************************************************************)
EXTENDS Integers, Sequences

CONSTANTS
  Grants,        \* the extension grants, in the order of the manifest
  Place,         \* [Grants -> where the package is installed]
  Powers         \* what an extension may need: the network, a variable

Grantees == {Grants[i] : i \in DOMAIN Grants}

ASSUME ExtensionDeclarations ==
  /\ Grants \in Seq(STRING) \ {<<>>}
  /\ \A i, j \in DOMAIN Grants : Grants[i] = Grants[j] => i = j
  /\ DOMAIN Place = Grantees

VARIABLES
  declared,      \* the manifest: [needs: what the grants declare, allowed]
  installed,     \* place -> [of, whole], or Missing
  compiling,     \* "no", "removing", "copying", "locking"
  at,            \* index of the grant it is at
  entries,       \* lock entries so far
  lock,          \* extension_lock.json: grant -> entry, or empty
  loaded,        \* what the worker loaded: grant -> package, or empty
  cut            \* an install died in a copy, and none has been completed since

extensionVars == <<declared, installed, compiling, at, entries, lock, loaded, cut>>

Places == {Place[g] : g \in Grantees}
Missing == [of |-> "nobody", whole |-> FALSE]
Package == [of : Grantees, whole : BOOLEAN] \cup {Missing}
\* ExtensionLockEntry, and a lock.
Entry == [needs : SUBSET Powers, package : Package]
Empty == [g \in {} |-> 0]
Locks == UNION {[S -> Entry] : S \in SUBSET Grantees}
\* The load report: which packages were loaded.
Loads == UNION {[S -> Package] : S \in SUBSET Grantees}

ExtensionTypeOK ==
  /\ declared \in [needs : [Grantees -> SUBSET Powers], allowed : SUBSET Powers]
  /\ installed \in [Places -> Package]
  /\ compiling \in {"no", "removing", "copying", "copied_half", "locking"}
  /\ at \in 1..Len(Grants) + 1
  /\ entries \in Locks /\ lock \in Locks
  /\ loaded \in Loads
  /\ cut \in BOOLEAN

ExtensionInit ==
  /\ declared \in [needs : [Grantees -> SUBSET Powers], allowed : {Powers}]
  /\ installed = [p \in Places |-> Missing]
  /\ compiling = "no" /\ at = 1
  /\ entries = Empty /\ lock = Empty /\ loaded = Empty
  /\ cut = FALSE
----------------------------------------------------------------------------
Grant == Grants[at]
PutNext(phase) ==
  IF at < Len(Grants) THEN compiling' = phase /\ at' = at + 1
                      ELSE compiling' = "locking" /\ at' = 1

\* The call that loaded something is over when the host installs for the next.
Install ==
  /\ compiling = "no"
  /\ compiling' = "removing" /\ at' = 1
  /\ loaded' = Empty
  /\ UNCHANGED <<declared, installed, entries, lock, cut>>

VerifyInstalled ==
  /\ compiling = "no"
  /\ compiling' = "locking" /\ at' = 1
  /\ UNCHANGED <<declared, installed, entries, lock, loaded, cut>>

\* Mutant: what is there already is left as it is.
RemoveNothing ==
  /\ compiling = "removing"
  /\ IF installed[Place[Grant]] # Missing
       THEN PutNext("removing") /\ cut' = (cut /\ at < Len(Grants))
       ELSE compiling' = "copying" /\ UNCHANGED <<at, cut>>
  /\ UNCHANGED <<declared, installed, entries, lock, loaded>>

\* _copy_local_extension_package: rmtree, then the copy, file by file.
RemoveOld ==
  /\ compiling = "removing"
  /\ installed' = [installed EXCEPT ![Place[Grant]] = Missing]
  /\ compiling' = "copying"
  /\ UNCHANGED <<declared, at, entries, lock, loaded, cut>>

CopyHalf ==
  /\ compiling = "copying"
  /\ installed' = [installed EXCEPT ![Place[Grant]] =
                     [of |-> Grant, whole |-> FALSE]]
  /\ compiling' = "copied_half"
  /\ UNCHANGED <<declared, at, entries, lock, loaded, cut>>

CopyRest ==
  /\ compiling = "copied_half"
  /\ installed' = [installed EXCEPT ![Place[Grant]] =
                     [of |-> Grant, whole |-> TRUE]]
  /\ PutNext("removing")
  /\ cut' = (cut /\ at < Len(Grants))
  /\ UNCHANGED <<declared, entries, lock, loaded>>

\* The needs of a grant must be allowed, and its package be there.
LockEntry ==
  /\ compiling = "locking" /\ Grant \notin DOMAIN entries
  /\ IF declared.needs[Grant] \subseteq declared.allowed /\ installed[Place[Grant]] # Missing
       THEN /\ entries' = [g \in DOMAIN entries \cup {Grant} |->
                             IF g = Grant
                               THEN [needs |-> declared.needs[g], package |-> installed[Place[g]]]
                               ELSE entries[g]]
            /\ at' = IF at < Len(Grants) THEN at + 1 ELSE at
            /\ UNCHANGED compiling
       ELSE compiling' = "no" /\ at' = 1 /\ entries' = Empty
  /\ UNCHANGED <<declared, installed, lock, loaded, cut>>

\* write_extension_lock.
WriteLock ==
  /\ compiling = "locking" /\ DOMAIN entries = Grantees
  /\ lock' = entries
  /\ compiling' = "no" /\ at' = 1 /\ entries' = Empty
  /\ UNCHANGED <<declared, installed, loaded, cut>>

\* The host dies; what it has copied so far stays.
Die ==
  /\ compiling # "no"
  /\ compiling' = "no" /\ at' = 1 /\ entries' = Empty
  /\ cut' = (cut \/ compiling = "copied_half")
  /\ UNCHANGED <<declared, installed, lock, loaded>>
----------------------------------------------------------------------------
\* Mutant: what a grant needs is looked at when the lock is compiled only.
MismatchOfEntry(g) == g \notin DOMAIN lock \/ lock[g].needs # declared.needs[g]

\* _grant_lock_mismatch, and grantLockMismatch of the worker.
Mismatch(g) ==
  \/ g \notin DOMAIN lock
  \/ lock[g].needs # declared.needs[g]
  \/ ~(declared.needs[g] \subseteq declared.allowed)

\* verify_extension_lock: the records that are not rejected.
Loadable == {g \in Grantees : ~Mismatch(g)}

\* The worker ends unless every grant is loadable and its module is there.
Load ==
  /\ compiling = "no"
  /\ Loadable = Grantees
  /\ \A g \in Grantees : installed[Place[g]] # Missing
  /\ loaded' = [g \in Grantees |-> installed[Place[g]]]
  /\ UNCHANGED <<declared, installed, compiling, at, entries, lock, cut>>

\* The next call has another manifest.
Revise(needs, allowed) ==
  /\ declared' = [needs |-> needs, allowed |-> allowed]
  /\ loaded' = Empty
  /\ compiling = "no"
  /\ UNCHANGED <<installed, compiling, at, entries, lock, cut>>

ExtensionNext ==
  \/ Install \/ VerifyInstalled
  \/ RemoveOld \/ CopyHalf \/ CopyRest \/ LockEntry \/ WriteLock \/ Die
  \/ Load
  \/ \E needs \in [Grantees -> SUBSET Powers], allowed \in SUBSET Powers : Revise(needs, allowed)

ExtensionSpec == ExtensionInit /\ [][ExtensionNext]_extensionVars
----------------------------------------------------------------------------
Alone(g) == \A h \in Grantees : Place[h] = Place[g] => h = g

\* What a worker has loaded asks for no more than the manifest of its own call
\* allows, though the lock was made under an earlier one; and the module of a
\* grant is the grant's own package, if no other is installed in its place.
LoadedAsGranted ==
  \A g \in DOMAIN loaded :
    /\ declared.needs[g] \subseteq declared.allowed
    /\ Alone(g) => loaded[g].of = g

\* No worker loads a package that is half copied: an install that died is made
\* good by the next one.  Until then what is there is locked and loaded.
LoadedWhole == \A g \in DOMAIN loaded : loaded[g].whole \/ cut
=============================================================================
