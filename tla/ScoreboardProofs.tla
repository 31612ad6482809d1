-------------------------- MODULE ScoreboardProofs --------------------------
(***************************************************************************)
(* No live session's entry is taken over or erased in a standalone server, *)
(* for any number of processes, slots, sessions and lock attempts.         *)
(***************************************************************************)
EXTENDS ScoreboardSession

\* The scrub of the daemon erases only entries whose process is gone.
LEMMA DaemonStep ==
  ASSUME OInv, ~InetdScrub, TInv', Step(Daemon) \/ ScrubTimer
  PROVE  OInv'
<1> USE ProcFacts, PidAssumption
<1>f. /\ \A q \in Sess :
           /\ pc'[q] = pc[q] /\ have'[q] = have[q]
           /\ lstart'[q] = lstart[q]
           /\ mutex.w = q => mutex'.w = q
  BY StepFrame DEF OInv
<1>m. MutexHeld'
  BY <1>f, OwnMutex DEF OInv, MutexHeld, Proc
<1>c. Control'
  BY <1>f DEF OInv, Control
<1>1. CASE ScrubErase(Daemon)
  <2>1. /\ \A q \in Sess : have[q] => lstart[q] # spos[Daemon]
        /\ mutex.w = Daemon
    BY <1>1 DEF OInv, EraseUnowned, MutexHeld, MutexLabels, ScrubErase
  <2>2. file' = [file EXCEPT ![spos[Daemon]] = FreeEntry] /\ UNCHANGED eof
    BY <1>1 DEF ScrubErase
  <2>3. \A s \in Slots : file'[s] = IF s = spos[Daemon] THEN FreeEntry ELSE file[s]
    BY <2>2 DEF OInv, TInv, TypeOK
  <2>4. FreeTail' /\ ClaimFree'
    BY <1>f, <2>2, <2>3 DEF OInv, FreeTail, ClaimFree, FreeEntry
  <2>5. Owned'
    BY <1>f, <2>1, <2>3 DEF OInv, Owned
  <2>6. pc'[Daemon] # "scrub_erase"
    BY <1>1 DEF OInv, TInv, TypeOK, ScrubErase, ScrubUnlock, Goto
  <2>7. EraseUnowned'
    BY <2>6 DEF EraseUnowned
  <2> QED BY <1>m, <1>c, <2>4, <2>5, <2>7 DEF OInv
<1>2. ASSUME UNCHANGED <<file, eof>> PROVE FreeTail' /\ ClaimFree' /\ Owned'
  BY <1>2, <1>f DEF OInv, FreeTail, ClaimFree, Owned
<1>3. CASE ScrubRead(Daemon)
  <2>1. UNCHANGED <<file, eof>>
    BY <1>3 DEF ScrubRead
  <2>2. ASSUME pc'[Daemon] = "scrub_erase", NEW q \in Sess, have[q]
        PROVE  lstart[q] # spos'[Daemon]
    <3>1. /\ spos' = spos /\ ~Alive(file[spos[Daemon]].pid)
      BY <1>3, <2>2 DEF OInv, TInv, TypeOK, ScrubRead, ScrubEnd, ScrubUnlock,
         scoreboard_valid_pid, Goto
    <3>2. file[lstart[q]].pid = q /\ Alive(q)
      BY <2>2 DEF OInv, Owned, Control, NoEntryLabels, Alive
    <3> QED BY <3>1, <3>2
  <2>3. EraseUnowned'
    BY <1>f, <2>2 DEF EraseUnowned
  <2> QED BY <1>m, <1>c, <1>2, <2>1, <2>3 DEF OInv
<1>4. CASE ScrubTimer \/ ScrubLock(Daemon) \/ ScrubLockEntry(Daemon) \/ ScrubSkip(Daemon)
  <2>1. UNCHANGED <<file, eof>> /\ pc'[Daemon] # "scrub_erase"
    BY <1>4, Zenon DEF OInv, TInv, TypeOK, ScrubTimer, ScrubLock, ScrubLockEntry,
       ScrubSkip, wlock_scoreboard, wlock_entry, Attempt, Goto
  <2>2. EraseUnowned'
    BY <2>1 DEF EraseUnowned
  <2> QED BY <1>m, <1>c, <1>2, <2>1, <2>2 DEF OInv
<1>5. Scrub(Daemon) \/ ScrubTimer
  BY Zenon DEF OInv, TInv, DaemonScrubs, ScrubLabels, Step, Add, AddLock, AddScan,
     AddWrite, AddUnlock, Update, UpdateLock, UpdateWrite, UpdateUnlock, Scan,
     pr_rewind_scoreboard, ReadLock, pr_scoreboard_entry_read,
     pr_restore_scoreboard, Delete, DeleteNone, DeleteLockEntry, DeleteLock,
     DeleteWrite, DeleteUnlock
<1> QED BY <1>1, <1>3, <1>4, <1>5 DEF Scrub

\* Every step keeps the invariant of ownership.
LEMMA ONext == ASSUME ~InetdScrub PROVE OInv /\ [Next]_vars => OInv'
<1> SUFFICES ASSUME OInv, [Next]_vars PROVE OInv'
  OBVIOUS
<1>1. TInv'
  BY TNext DEF OInv
<1>2. CASE \E p \in Sess : \/ Step(p)
                           \/ Fork(p) \/ Login(p) \/ Command(p) \/ Quit(p) \/ Kill(p)
  BY <1>1, <1>2, SessionStep
<1>3. CASE Step(Daemon) \/ ScrubTimer
  BY <1>1, <1>3, DaemonStep
<1>4. CASE UNCHANGED vars
  BY <1>1, <1>4 DEF vars, OInv, MutexHeld, Control, FreeTail, ClaimFree,
     EraseUnowned, Owned
<1> QED BY <1>2, <1>3, <1>4 DEF Next, Proc

\* In a standalone server the slot at entry_lock.l_start carries the PID of
\* the live session that has its entry there, for any number of sessions and
\* slots, whatever lock requests of scoreboard.c are refused and whichever
\* sessions are killed: entry_add() and the scrub never take a slot in use.
THEOREM Ownership == ASSUME ~InetdScrub PROVE Spec => []SlotOwnership
<1>1. OInv => SlotOwnership
  BY DEF OInv, Owned, SlotOwnership
<1> QED BY OInit, ONext, <1>1, PTL DEF Spec

\* No step of the standalone server changes the entry of a live session,
\* except that session's own entry_update() or entry_del().
THEOREM EntriesPrivate == ASSUME ~InetdScrub PROVE Spec => OthersLeaveEntryAlone
<1> DEFINE A == \A p \in Sess : \A s \in Slots :
                  /\ Alive(p) /\ have[p] /\ lstart[p] = s /\ file[s].pid = p
                  /\ file'[s] # file[s]
                  => pc[p] \in {"upd_write", "del_write"} /\ pc'[p] # pc[p]
<1>1. OInv /\ [Next]_vars => [A]_vars
  <2> SUFFICES ASSUME OInv, Next, NEW p \in Sess, NEW s \in Slots,
                      have[p], lstart[p] = s, file[s].pid = p, file'[s] # file[s]
               PROVE  pc[p] \in {"upd_write", "del_write"} /\ pc'[p] # pc[p]
    OBVIOUS
  <2> USE ProcFacts, PidAssumption
  <2>1. PICK q \in Proc : Step(q)
    BY DEF Next, ScrubTimer, Fork, Login, Command, Quit, Kill, Exit
  <2>2. \/ AddWrite(q) \/ UpdateWrite(q) \/ DeleteWrite(q) \/ ScrubErase(q)
    BY <2>1, Zenon DEF Step, Add, AddLock, AddScan, AddUnlock, Update, UpdateLock,
       UpdateUnlock, Scan, pr_rewind_scoreboard, ReadLock,
       pr_scoreboard_entry_read, pr_restore_scoreboard, Delete, DeleteNone,
       DeleteLockEntry, DeleteLock, DeleteUnlock, Exit, Scrub, ScrubLock,
       ScrubLockEntry, ScrubSkip, ScrubRead
  <2>3. CASE ScrubErase(q)
    <3>1. q = Daemon
      BY <2>3, Zenon DEF OInv, Control, ScrubLabels, ScrubErase
    <3>2. spos[Daemon] # s
      BY <2>3, <3>1, Zenon DEF OInv, EraseUnowned, ScrubErase
    <3> QED BY <2>3, <3>1, <3>2, Zenon DEF OInv, TInv, TypeOK, ScrubErase
  <2>4. CASE AddWrite(q) \/ UpdateWrite(q) \/ DeleteWrite(q)
    <3>1. q \in Sess
      BY <2>4 DEF OInv, TInv, DaemonScrubs, ScrubLabels, AddWrite, UpdateWrite, DeleteWrite
    <3>2. lstart[q] = s
      BY <2>4 DEF OInv, TInv, TypeOK, AddWrite, UpdateWrite, DeleteWrite, write_entry
    <3>3. q = p /\ ~AddWrite(q)
      BY <2>4, <3>1, <3>2 DEF OInv, ClaimFree, Owned, Control, EntryLabels,
         AddWrite, UpdateWrite, DeleteWrite
    <3> QED BY <2>4, <3>3 DEF OInv, TInv, TypeOK, UpdateWrite, DeleteWrite, Goto
  <2> QED BY <2>2, <2>3, <2>4
<1> QED BY OInit, ONext, <1>1, PTL DEF Spec, OthersLeaveEntryAlone

=============================================================================
