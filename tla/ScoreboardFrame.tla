--------------------------- MODULE ScoreboardFrame --------------------------
(***************************************************************************)
(* What a step of one process leaves alone, and the type invariant.        *)
(***************************************************************************)
EXTENDS ScoreboardTypes

\* What a step of p leaves alone: the memory of the other processes, their
\* hold on the mutex, and the length of the file, which never shrinks.
LEMMA StepFrame ==
  ASSUME TInv, NEW p \in Proc,
         \/ Step(p)
         \/ p \in Sess /\ (Fork(p) \/ Login(p) \/ Command(p) \/ Quit(p) \/ Kill(p))
         \/ p = Daemon /\ ScrubTimer
  PROVE  /\ \A q \in Proc \ {p} :
              /\ pc'[q] = pc[q] /\ have'[q] = have[q]
              /\ lstart'[q] = lstart[q] /\ spos'[q] = spos[q]
              /\ mutex.w = q => mutex'.w = q
         /\ eof <= eof'
<1> USE ProcFacts DEF TInv
<1>1. CASE Add(p)
  <2>1. CASE AddLock(p)
    BY <2>1 DEF TypeOK, AddLock, wlock_scoreboard, CanWLock, Attempt, Goto
  <2>2. CASE AddScan(p)
    BY <2>2 DEF TypeOK, AddScan, Goto
  <2>3. CASE AddWrite(p)
    BY <2>3 DEF TypeOK, AddWrite, write_entry, Goto, Slots, Offsets
  <2>4. CASE AddUnlock(p)
    BY <2>4 DEF TypeOK, AddUnlock, unlock_scoreboard, Goto
  <2> QED BY <1>1, <2>1, <2>2, <2>3, <2>4 DEF Add
<1>2. CASE Update(p)
  <2>1. CASE UpdateLock(p)
    BY <2>1 DEF TypeOK, UpdateLock, wlock_entry, Attempt, Goto
  <2>2. CASE UpdateWrite(p)
    BY <2>2 DEF TypeOK, UpdateWrite, write_entry, Goto, Slots, Offsets
  <2>3. CASE UpdateUnlock(p)
    BY <2>3 DEF TypeOK, UpdateUnlock, Goto
  <2> QED BY <1>2, <2>1, <2>2, <2>3 DEF Update
<1>3. CASE Scan(p)
  <2>1. CASE pr_rewind_scoreboard(p)
    BY <2>1 DEF TypeOK, pr_rewind_scoreboard, Goto
  <2>2. CASE ReadLock(p)
    BY <2>2 DEF TypeOK, ReadLock, rlock_scoreboard, CanRLock, Attempt, Goto
  <2>3. CASE pr_scoreboard_entry_read(p)
    BY <2>3 DEF TypeOK, pr_scoreboard_entry_read, unlock_scoreboard, Goto
  <2>4. CASE pr_restore_scoreboard(p)
    BY <2>4 DEF TypeOK, pr_restore_scoreboard, Goto
  <2> QED BY <1>3, <2>1, <2>2, <2>3, <2>4 DEF Scan
<1>4. CASE Delete(p)
  <2>1. CASE DeleteNone(p) \/ DeleteUnlock(p)
    BY <2>1 DEF TypeOK, DeleteNone, DeleteUnlock, Exit, unlock_scoreboard, Goto
  <2>2. CASE DeleteLockEntry(p)
    BY <2>2 DEF TypeOK, DeleteLockEntry, wlock_entry, Attempt, Goto
  <2>3. CASE DeleteLock(p)
    BY <2>3 DEF TypeOK, DeleteLock, wlock_scoreboard, CanWLock, Attempt, Goto
  <2>4. CASE DeleteWrite(p)
    BY <2>4 DEF TypeOK, DeleteWrite, write_entry, Goto, Slots, Offsets
  <2> QED BY <1>4, <2>1, <2>2, <2>3, <2>4 DEF Delete
<1>5. CASE Scrub(p)
  BY <1>5 DEF TypeOK, Scrub, ScrubLock, ScrubLockEntry, ScrubSkip, ScrubRead,
     ScrubErase, ScrubEnd, ScrubUnlock, wlock_entry, wlock_scoreboard,
     CanWLock, Attempt, unlock_scoreboard, Goto
<1>6. CASE p \in Sess /\ (Fork(p) \/ Login(p) \/ Command(p) \/ Quit(p) \/ Kill(p))
  BY <1>6 DEF TypeOK, Fork, Login, Command, Quit, Kill, Exit,
     unlock_scoreboard, Goto
<1>7. CASE p = Daemon /\ ScrubTimer
  BY <1>7 DEF TypeOK, ScrubTimer, Goto
<1> QED BY <1>1, <1>2, <1>3, <1>4, <1>5, <1>6, <1>7 DEF Step

\* Every step keeps the types.
LEMMA TNext == TInv /\ [Next]_vars => TInv'
<1> USE ProcFacts
<1> SUFFICES ASSUME TInv, [Next]_vars PROVE TInv'
  OBVIOUS
<1>1. CASE \E p \in Proc : Step(p)
  <2> PICK p \in Proc : Step(p)
    BY <1>1
  <2>1. TypeOK'
    BY StepTypes
  <2>2. ASSUME pc'[p] = "scrub_erase" PROVE spos'[p] <= eof'
    <3>1. CASE Add(p) \/ Update(p)
      BY <2>2, <3>1 DEF TInv, TypeOK, Add, AddLock, AddScan, AddWrite,
         AddUnlock, Update, UpdateLock, UpdateWrite, UpdateUnlock,
         wlock_entry, wlock_scoreboard, Attempt, Goto
    <3>2. CASE Scan(p)
      BY <2>2, <3>2 DEF TInv, TypeOK, Scan, pr_rewind_scoreboard, ReadLock,
         pr_scoreboard_entry_read, pr_restore_scoreboard, rlock_scoreboard,
         Attempt, Goto
    <3>3. CASE Delete(p)
      BY <2>2, <3>3 DEF TInv, TypeOK, Delete, DeleteNone, DeleteLockEntry,
         DeleteLock, DeleteWrite, DeleteUnlock, Exit, wlock_entry,
         wlock_scoreboard, Attempt, Goto
    <3>4. CASE Scrub(p)
      BY <2>2, <3>4 DEF TInv, TypeOK, Scrub, ScrubLock, ScrubLockEntry,
         ScrubSkip, ScrubRead, ScrubErase, ScrubEnd, ScrubUnlock, wlock_entry,
         wlock_scoreboard, Attempt, Goto, Offsets
    <3> QED BY <3>1, <3>2, <3>3, <3>4 DEF Step
  <2>3. EraseInFile'
    BY <2>1, <2>2, StepFrame DEF TInv, TypeOK, EraseInFile, Offsets
  <2>4. DaemonScrubs'
    <3>1. CASE p # Daemon
      BY <3>1, StepFrame DEF TInv, DaemonScrubs
    <3>2. CASE p = Daemon
      BY <3>2, Zenon DEF Step, Add, AddLock, AddScan, AddWrite, AddUnlock, Update,
         UpdateLock, UpdateWrite, UpdateUnlock, Scan, pr_rewind_scoreboard,
         ReadLock, pr_scoreboard_entry_read, pr_restore_scoreboard, Delete,
         DeleteNone, DeleteLockEntry, DeleteLock, DeleteWrite, DeleteUnlock,
         Scrub, ScrubLock, ScrubLockEntry, ScrubSkip, ScrubRead, ScrubErase,
         ScrubEnd, ScrubUnlock, wlock_entry, wlock_scoreboard, Attempt, Goto,
         TInv, TypeOK, DaemonScrubs, ScrubLabels
    <3> QED BY <3>1, <3>2
  <2> QED BY <2>1, <2>3, <2>4 DEF TInv
<1>2. CASE \E p \in Sess : Fork(p) \/ Login(p) \/ Command(p) \/ Quit(p) \/ Kill(p)
  <2> PICK p \in Sess : Fork(p) \/ Login(p) \/ Command(p) \/ Quit(p) \/ Kill(p)
    BY <1>2
  <2>1. TypeOK'
    BY RequestTypes
  <2>2. pc'[p] # "scrub_erase"
    BY DEF TInv, TypeOK, Fork, Login, Command, Quit, Kill, Exit, Goto
  <2>3. EraseInFile'
    BY <2>1, <2>2, StepFrame DEF TInv, TypeOK, EraseInFile, Offsets
  <2>4. DaemonScrubs'
    BY StepFrame, PidAssumption DEF TInv, DaemonScrubs
  <2> QED BY <2>1, <2>3, <2>4 DEF TInv
<1>3. CASE ScrubTimer
  <2>1. pc' \in [Proc -> Labels]
    BY <1>3 DEF TInv, TypeOK, ScrubTimer, Goto, Labels
  <2>2. TypeOK'
    BY <1>3, <2>1 DEF TInv, TypeOK, ScrubTimer
  <2>3. EraseInFile' /\ DaemonScrubs'
    BY <1>3 DEF TInv, TypeOK, EraseInFile, DaemonScrubs, ScrubTimer, Goto, ScrubLabels
  <2> QED BY <2>2, <2>3 DEF TInv
<1>4. CASE UNCHANGED vars
  BY <1>4 DEF vars, TInv, TypeOK, EraseInFile, DaemonScrubs
<1> QED BY <1>1, <1>2, <1>3, <1>4 DEF Next

\* The type invariant holds for every number of processes and slots: no call
\* of scoreboard.c ever seeks beyond one slot past the end of the file.
THEOREM TypeCorrect == Spec => []TypeOK
<1>1. TInv => TypeOK
  BY DEF TInv
<1> QED BY TInit, TNext, <1>1, PTL DEF Spec

=============================================================================
