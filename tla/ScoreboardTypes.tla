--------------------------- MODULE ScoreboardTypes --------------------------
(***************************************************************************)
(* Every step of Scoreboard keeps the types, for any number of processes,  *)
(* slots, sessions and lock attempts.                                      *)
(***************************************************************************)
EXTENDS Scoreboard, TLAPS

\* The daemon is not a session.
LEMMA ProcFacts ==
  /\ Sess \subseteq Proc /\ Daemon \in Proc /\ NoPid \notin Proc
  /\ \A p \in Proc : p # Daemon => p \in Sess
  /\ FreeEntry \in Entry
  /\ \A p \in Sess, x \in EntryState : [pid |-> p, st |-> x] \in Entry
BY PidAssumption DEF Proc, FreeEntry, Entry, EntryState

-----------------------------------------------------------------------------
(* The type invariant.  It is inductive together with two facts: an entry  *)
(* about to be erased is in the file, and the daemon never enters a call   *)
(* that writes an entry of its own.                                        *)

ScrubLabels ==
  {"scrub_lock", "scrub_entry", "scrub_skip", "scrub_read", "scrub_erase"}
EraseInFile == \A p \in Proc : pc[p] = "scrub_erase" => spos[p] <= eof
DaemonScrubs == pc[Daemon] \in {"idle"} \cup ScrubLabels /\ ~have[Daemon]

TInv == TypeOK /\ EraseInFile /\ DaemonScrubs

\* The types hold at the start.
LEMMA TInit == Init => TInv
<1> SUFFICES ASSUME Init PROVE TInv
  OBVIOUS
<1>1. mutex \in [w : Proc \cup {NoPid}, r : SUBSET Proc] /\ file \in [Slots -> Entry]
  BY ProcFacts DEF Init
<1>2. pc \in [Proc -> Labels] /\ stage \in [Proc -> Stages]
  BY DEF Init, Labels, Stages
<1>3. /\ pos \in [Proc -> Offsets] /\ spos \in [Proc -> Offsets]
      /\ lstart \in [Proc -> Offsets] /\ saved \in [Proc -> Offsets]
  BY BoundAssumption DEF Init, Offsets
<1>4. have \in [Proc -> BOOLEAN] /\ contended \in BOOLEAN
  BY Zenon DEF Init
<1>5. tries \in [Proc -> Nat] /\ count \in [Proc -> Nat]
  BY DEF Init
<1>6. eof \in 0..MaxSlots /\ forks \in 0..MaxForks
  BY BoundAssumption DEF Init
<1>7. elock \in [Ranges -> Proc \cup {NoPid}]
  BY DEF Init
<1>8. EraseInFile /\ DaemonScrubs
  BY ProcFacts, PidAssumption DEF Init, EraseInFile, DaemonScrubs, ScrubLabels
<1> QED BY <1>1, <1>2, <1>3, <1>4, <1>5, <1>6, <1>7, <1>8 DEF TInv, TypeOK

\* One try of a lock.
LEMMA AttemptTypes ==
  ASSUME TypeOK, NEW p \in Proc, NEW g \in BOOLEAN, NEW ok \in Labels,
         NEW failed \in Labels, Attempt(p, g, ok, failed)
  PROVE  pc' \in [Proc -> Labels] /\ tries' \in [Proc -> Nat]
BY DEF TypeOK, Attempt, Goto

\* The mutex, for writing.
LEMMA WLockTypes ==
  ASSUME TypeOK, NEW p \in Proc, NEW ok \in Labels, NEW failed \in Labels,
         wlock_scoreboard(p, ok, failed)
  PROVE  /\ pc' \in [Proc -> Labels] /\ tries' \in [Proc -> Nat]
         /\ mutex' \in [w : Proc \cup {NoPid}, r : SUBSET Proc]
         /\ contended' \in BOOLEAN
<1>1. CanWLock(p) \in BOOLEAN
  BY DEF CanWLock
<1>2. pc' \in [Proc -> Labels] /\ tries' \in [Proc -> Nat]
  BY <1>1, AttemptTypes DEF wlock_scoreboard
<1>3. mutex' \in [w : Proc \cup {NoPid}, r : SUBSET Proc]
  BY DEF TypeOK, wlock_scoreboard
<1>4. contended' \in BOOLEAN
  BY DEF TypeOK, wlock_scoreboard
<1> QED BY <1>2, <1>3, <1>4

\* The mutex, for reading.
LEMMA RLockTypes ==
  ASSUME TypeOK, NEW p \in Proc, NEW ok \in Labels, NEW failed \in Labels,
         rlock_scoreboard(p, ok, failed)
  PROVE  /\ pc' \in [Proc -> Labels] /\ tries' \in [Proc -> Nat]
         /\ mutex' \in [w : Proc \cup {NoPid}, r : SUBSET Proc]
         /\ contended' \in BOOLEAN
<1>1. CanRLock(p) \in BOOLEAN
  BY DEF CanRLock
<1>2. pc' \in [Proc -> Labels] /\ tries' \in [Proc -> Nat]
  BY <1>1, AttemptTypes DEF rlock_scoreboard
<1>3. mutex' \in [w : Proc \cup {NoPid}, r : SUBSET Proc]
  BY DEF TypeOK, rlock_scoreboard
<1>4. contended' \in BOOLEAN
  BY DEF TypeOK, rlock_scoreboard
<1> QED BY <1>2, <1>3, <1>4

\* The lock of an entry.
LEMMA ELockTypes ==
  ASSUME TypeOK, NEW p \in Proc, NEW off, NEW ok \in Labels,
         NEW failed \in Labels, wlock_entry(p, off, ok, failed)
  PROVE  /\ pc' \in [Proc -> Labels] /\ tries' \in [Proc -> Nat]
         /\ elock' \in [Ranges -> Proc \cup {NoPid}]
<1>1. CanELock(p, off) \in BOOLEAN
  BY DEF CanELock
<1>2. pc' \in [Proc -> Labels] /\ tries' \in [Proc -> Nat]
  BY <1>1, AttemptTypes DEF wlock_entry
<1>3. elock' \in [Ranges -> Proc \cup {NoPid}]
  BY Zenon DEF TypeOK, wlock_entry
<1> QED BY <1>2, <1>3

\* The mutex is released.
LEMMA UnlockType ==
  ASSUME TypeOK, NEW p \in Proc, unlock_scoreboard(p)
  PROVE  mutex' \in [w : Proc \cup {NoPid}, r : SUBSET Proc]
BY DEF TypeOK, unlock_scoreboard

\* An entry is written.
LEMMA WriteTypes ==
  ASSUME TypeOK, NEW p \in Proc, NEW e \in Entry, write_entry(p, e)
  PROVE  /\ file' \in [Slots -> Entry] /\ eof' \in 0..MaxSlots
         /\ pos' \in [Proc -> Offsets]
         /\ eof <= eof'
<1>1. file' \in [Slots -> Entry]
  BY DEF TypeOK, write_entry
<1>2. eof' \in 0..MaxSlots /\ eof <= eof'
  BY BoundAssumption DEF TypeOK, write_entry, Slots, Offsets
<1>3. pos' \in [Proc -> Offsets]
  BY DEF TypeOK, write_entry
<1> QED BY <1>1, <1>2, <1>3

\* A process ends and its locks with it.
LEMMA ExitTypes ==
  ASSUME TypeOK, NEW p \in Proc, Exit(p)
  PROVE  TypeOK'
<1>1. mutex' \in [w : Proc \cup {NoPid}, r : SUBSET Proc]
  BY UnlockType DEF Exit
<1>2. elock' \in [Ranges -> Proc \cup {NoPid}]
  BY DEF TypeOK, Exit, DropEntryLocks
<1>3. pc' \in [Proc -> Labels] /\ stage' \in [Proc -> Stages]
  BY DEF TypeOK, Exit, Goto, Labels, Stages
<1>4. have' \in [Proc -> BOOLEAN]
  BY DEF TypeOK, Exit
<1>5. /\ pos' \in [Proc -> Offsets] /\ spos' \in [Proc -> Offsets]
      /\ lstart' \in [Proc -> Offsets] /\ saved' \in [Proc -> Offsets]
  BY BoundAssumption DEF TypeOK, Exit, Offsets
<1>6. tries' \in [Proc -> Nat] /\ count' \in [Proc -> Nat]
  BY DEF TypeOK, Exit
<1>7. UNCHANGED <<file, eof, forks, contended>>
  BY DEF Exit
<1> QED BY <1>1, <1>2, <1>3, <1>4, <1>5, <1>6, <1>7 DEF TypeOK

\* Every action of a session or of a scrub keeps the types.
LEMMA StepTypes ==
  ASSUME TInv, NEW p \in Proc, Step(p)
  PROVE  TypeOK'
<1> USE ProcFacts DEF TInv
<1>a. CASE Add(p)
  <2>0. p \in Sess
    BY <1>a DEF DaemonScrubs, ScrubLabels, Add, AddLock, AddScan, AddWrite, AddUnlock
  <2>1. CASE AddLock(p)
    BY <2>1, WLockTypes, Zenon DEF TypeOK, AddLock, Labels
  <2>2. CASE AddScan(p)
    <3>1. pos' \in [Proc -> Offsets] /\ lstart' \in [Proc -> Offsets]
      BY <2>2, BoundAssumption DEF TypeOK, AddScan, Offsets
    <3>2. pc' \in [Proc -> Labels]
      BY <2>2 DEF TypeOK, AddScan, Goto, Labels
    <3> QED BY <3>1, <3>2, <2>2 DEF TypeOK, AddScan
  <2>3. CASE AddWrite(p)
    <3>1. /\ file' \in [Slots -> Entry] /\ eof' \in 0..MaxSlots
          /\ pos' \in [Proc -> Offsets]
      BY <2>0, <2>3, WriteTypes, Zenon DEF AddWrite, EntryState
    <3>2. have' \in [Proc -> BOOLEAN]
      BY <2>3 DEF TypeOK, AddWrite
    <3>3. pc' \in [Proc -> Labels]
      BY <2>3 DEF TypeOK, AddWrite, Goto, Labels
    <3> QED BY <3>1, <3>2, <3>3, <2>3 DEF TypeOK, AddWrite
  <2>4. CASE AddUnlock(p)
    <3>1. pc' \in [Proc -> Labels]
      BY <2>4 DEF TypeOK, AddUnlock, Goto, Labels
    <3> QED BY <3>1, <2>4, UnlockType DEF TypeOK, AddUnlock
  <2> QED BY <1>a, <2>1, <2>2, <2>3, <2>4 DEF Add
<1>b. CASE Update(p)
  <2>0. p \in Sess
    BY <1>b DEF DaemonScrubs, ScrubLabels, Update, UpdateLock, UpdateWrite, UpdateUnlock
  <2>1. CASE UpdateLock(p)
    BY <2>1, ELockTypes, Zenon DEF TypeOK, UpdateLock, Labels
  <2>2. CASE UpdateWrite(p)
    <3>1. /\ file' \in [Slots -> Entry] /\ eof' \in 0..MaxSlots
          /\ pos' \in [Proc -> Offsets]
      BY <2>0, <2>2, WriteTypes, Zenon DEF UpdateWrite, EntryState
    <3>2. pc' \in [Proc -> Labels]
      BY <2>2 DEF TypeOK, UpdateWrite, Goto, Labels
    <3> QED BY <3>1, <3>2, <2>2 DEF TypeOK, UpdateWrite
  <2>3. CASE UpdateUnlock(p)
    <3>1. elock' \in [Ranges -> Proc \cup {NoPid}]
      BY <2>3, Zenon DEF TypeOK, UpdateUnlock, unlock_entry
    <3>2. pc' \in [Proc -> Labels]
      BY <2>3 DEF TypeOK, UpdateUnlock, Goto, Labels
    <3> QED BY <3>1, <3>2, <2>3 DEF TypeOK, UpdateUnlock
  <2> QED BY <1>b, <2>1, <2>2, <2>3 DEF Update
<1>c. CASE Scan(p)
  <2>1. CASE pr_rewind_scoreboard(p)
    <3>1. /\ pos' \in [Proc -> Offsets] /\ saved' \in [Proc -> Offsets]
          /\ count' \in [Proc -> Nat]
      BY <2>1, BoundAssumption DEF TypeOK, pr_rewind_scoreboard, Offsets
    <3>2. pc' \in [Proc -> Labels]
      BY <2>1 DEF TypeOK, pr_rewind_scoreboard, Goto, Labels
    <3> QED BY <3>1, <3>2, <2>1 DEF TypeOK, pr_rewind_scoreboard
  <2>2. CASE ReadLock(p)
    BY <2>2, RLockTypes, Zenon DEF TypeOK, ReadLock, Labels
  <2>3. CASE pr_scoreboard_entry_read(p)
    <3>1. pos' \in [Proc -> Offsets] /\ count' \in [Proc -> Nat]
      BY <2>3, BoundAssumption DEF TypeOK, pr_scoreboard_entry_read, Offsets
    <3>2. pc' \in [Proc -> Labels]
      BY <2>3 DEF TypeOK, pr_scoreboard_entry_read, Goto, Labels
    <3>3. mutex' \in [w : Proc \cup {NoPid}, r : SUBSET Proc]
      BY <2>3, UnlockType DEF TypeOK, pr_scoreboard_entry_read
    <3> QED BY <3>1, <3>2, <3>3, <2>3 DEF TypeOK, pr_scoreboard_entry_read
  <2>4. CASE pr_restore_scoreboard(p)
    <3>1. pos' \in [Proc -> Offsets] /\ count' \in [Proc -> Nat]
      BY <2>4 DEF TypeOK, pr_restore_scoreboard
    <3>2. pc' \in [Proc -> Labels] /\ stage' \in [Proc -> Stages]
      BY <2>4 DEF TypeOK, pr_restore_scoreboard, Goto, Labels, Stages
    <3> QED BY <3>1, <3>2, <2>4 DEF TypeOK, pr_restore_scoreboard
  <2> QED BY <1>c, <2>1, <2>2, <2>3, <2>4 DEF Scan
<1>d. CASE Delete(p)
  <2>1. CASE DeleteNone(p) \/ DeleteUnlock(p)
    BY <2>1, ExitTypes DEF DeleteNone, DeleteUnlock
  <2>2. CASE DeleteLockEntry(p)
    BY <2>2, ELockTypes, Zenon DEF TypeOK, DeleteLockEntry, Labels
  <2>3. CASE DeleteLock(p)
    BY <2>3, WLockTypes, Zenon DEF TypeOK, DeleteLock, Labels
  <2>4. CASE DeleteWrite(p)
    <3>1. /\ file' \in [Slots -> Entry] /\ eof' \in 0..MaxSlots
          /\ pos' \in [Proc -> Offsets]
      BY <2>4, WriteTypes DEF DeleteWrite
    <3>2. have' \in [Proc -> BOOLEAN]
      BY <2>4 DEF TypeOK, DeleteWrite
    <3>3. pc' \in [Proc -> Labels]
      BY <2>4 DEF TypeOK, DeleteWrite, Goto, Labels
    <3> QED BY <3>1, <3>2, <3>3, <2>4 DEF TypeOK, DeleteWrite
  <2> QED BY <1>d, <2>1, <2>2, <2>3, <2>4 DEF Delete
<1>e. CASE Scrub(p)
  <2>1. CASE ScrubLock(p)
    <3>1. spos' \in [Proc -> Offsets] /\ lstart' \in [Proc -> Offsets]
      BY <2>1, BoundAssumption DEF TypeOK, ScrubLock, Offsets
    <3> QED BY <3>1, <2>1, WLockTypes, Zenon DEF TypeOK, ScrubLock, Labels
  <2>2. CASE ScrubLockEntry(p)
    BY <2>2, ELockTypes, Zenon DEF TypeOK, ScrubLockEntry, Labels
  <2>3. CASE ScrubSkip(p)
    <3>1. spos' \in [Proc -> Offsets] /\ lstart' \in [Proc -> Offsets]
      BY <2>3, BoundAssumption DEF TypeOK, ScrubSkip, Offsets
    <3>2. pc' \in [Proc -> Labels]
      BY <2>3 DEF TypeOK, ScrubSkip, Goto, Labels
    <3> QED BY <3>1, <3>2, <2>3 DEF TypeOK, ScrubSkip
  <2>4. ASSUME spos[p] <= eof, ScrubUnlock(p)
        PROVE  /\ spos' \in [Proc -> Offsets] /\ lstart' \in [Proc -> Offsets]
               /\ elock' \in [Ranges -> Proc \cup {NoPid}]
               /\ pc' \in [Proc -> Labels]
    <3>1. spos' \in [Proc -> Offsets] /\ lstart' \in [Proc -> Offsets]
      BY <2>4, BoundAssumption DEF TypeOK, ScrubUnlock, Offsets
    <3>2. elock' \in [Ranges -> Proc \cup {NoPid}]
      BY <2>4, Zenon DEF TypeOK, ScrubUnlock
    <3>3. pc' \in [Proc -> Labels]
      BY <2>4 DEF TypeOK, ScrubUnlock, Goto, Labels
    <3> QED BY <3>1, <3>2, <3>3
  <2>5. CASE ScrubRead(p)
    <3>0. UNCHANGED <<file, eof, stage, pos, have, saved, tries, count, forks, contended>>
      BY <2>5 DEF ScrubRead
    <3>1. CASE spos[p] > eof
      <4>1. ScrubEnd(p)
        BY <2>5, <3>1 DEF ScrubRead
      <4>2. spos' \in [Proc -> Offsets] /\ lstart' \in [Proc -> Offsets]
        BY <4>1, BoundAssumption DEF TypeOK, ScrubEnd, Offsets
      <4>3. elock' \in [Ranges -> Proc \cup {NoPid}]
        BY <4>1 DEF TypeOK, ScrubEnd, DropEntryLocks
      <4>4. pc' \in [Proc -> Labels]
        BY <4>1 DEF TypeOK, ScrubEnd, Goto, Labels
      <4>5. mutex' \in [w : Proc \cup {NoPid}, r : SUBSET Proc]
        BY <4>1, UnlockType DEF ScrubEnd
      <4> QED BY <3>0, <4>2, <4>3, <4>4, <4>5 DEF TypeOK
    <3>2. CASE ~(spos[p] > eof)
      <4>1. spos[p] <= eof
        BY <3>2 DEF TypeOK, Offsets
      <4>2. UNCHANGED mutex
        BY <2>5, <3>2 DEF ScrubRead
      <4>3. CASE ScrubUnlock(p)
        BY <2>4, <3>0, <4>1, <4>2, <4>3 DEF TypeOK
      <4>4. CASE Goto(p, "scrub_erase") /\ UNCHANGED <<elock, spos, lstart>>
        <5>1. pc' \in [Proc -> Labels]
          BY <4>4 DEF TypeOK, Goto, Labels
        <5> QED BY <5>1, <3>0, <4>2, <4>4 DEF TypeOK
      <4> QED BY <2>5, <3>2, <4>3, <4>4 DEF ScrubRead
    <3> QED BY <3>1, <3>2
  <2>6. CASE ScrubErase(p)
    <3>1. spos[p] <= eof
      BY <2>6 DEF EraseInFile, ScrubErase
    <3>2. file' \in [Slots -> Entry]
      BY <2>6, Zenon DEF TypeOK, ScrubErase
    <3> QED BY <2>4, <3>1, <3>2, <2>6 DEF TypeOK, ScrubErase
  <2> QED BY <1>e, <2>1, <2>2, <2>3, <2>5, <2>6 DEF Scrub
<1> QED BY <1>a, <1>b, <1>c, <1>d, <1>e DEF Step

\* A session starts, begins a call of its own accord, or is killed.
LEMMA RequestTypes ==
  ASSUME TInv, NEW p \in Sess,
         Fork(p) \/ Login(p) \/ Command(p) \/ Quit(p) \/ Kill(p)
  PROVE  TypeOK'
<1> USE ProcFacts DEF TInv
<1>1. CASE Fork(p)
  <2>1. pc' \in [Proc -> Labels] /\ forks' \in 0..MaxForks
    BY <1>1, BoundAssumption DEF TypeOK, Fork, Goto, Labels
  <2> QED BY <1>1, <2>1 DEF TypeOK, Fork
<1>2. CASE Login(p)
  <2>1. pc' \in [Proc -> Labels] /\ stage' \in [Proc -> Stages]
    BY <1>2 DEF TypeOK, Login, Goto, Labels, Stages
  <2> QED BY <1>2, <2>1 DEF TypeOK, Login
<1>3. CASE Command(p)
  <2>1. pc' \in [Proc -> Labels]
    BY <1>3 DEF TypeOK, Command, Goto, Labels
  <2> QED BY <1>3, <2>1 DEF TypeOK, Command
<1>4. CASE Quit(p)
  <2>1. pc' \in [Proc -> Labels] /\ stage' \in [Proc -> Stages]
    BY <1>4 DEF TypeOK, Quit, Goto, Labels, Stages
  <2> QED BY <1>4, <2>1 DEF TypeOK, Quit
<1>5. CASE Kill(p)
  BY <1>5, ExitTypes DEF Kill
<1> QED BY <1>1, <1>2, <1>3, <1>4, <1>5

=============================================================================
