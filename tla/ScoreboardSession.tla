-------------------------- MODULE ScoreboardSession -------------------------
(***************************************************************************)
(* A step of a session keeps the inductive invariant of slot ownership.    *)
(***************************************************************************)
EXTENDS ScoreboardControl

\* Whatever call of the scoreboard API a session is in, and whether it is
\* forked, logs in, quits or is killed.
LEMMA SessionStep ==
  ASSUME OInv, ~InetdScrub, TInv', NEW p \in Sess,
         \/ Step(p)
         \/ Fork(p) \/ Login(p) \/ Command(p) \/ Quit(p) \/ Kill(p)
  PROVE  OInv'
<1> USE ProcFacts, PidAssumption
<1>f. /\ \A q \in Proc \ {p} :
           /\ pc'[q] = pc[q] /\ have'[q] = have[q]
           /\ lstart'[q] = lstart[q] /\ spos'[q] = spos[q]
           /\ mutex.w = q => mutex'.w = q
      /\ eof <= eof'
  BY StepFrame DEF OInv
<1>m. MutexHeld'
  BY <1>f, OwnMutex DEF OInv, MutexHeld
<1>c. Control'
  BY <1>f, OwnControl DEF OInv, Control
<1>1. CASE AddScan(p)
  <2>1. ~have'[p] /\ ~have[p]
    BY <1>1 DEF OInv, TInv, TypeOK, Control, NoEntryLabels, AddScan
  <2>2. UNCHANGED <<file, eof, have>>
    BY <1>1 DEF AddScan
  <2>3. ASSUME pc'[p] = "add_write", lstart'[p] \in Slots
        PROVE  file'[lstart'[p]].pid = NoPid
    BY <1>1, <2>3, Zenon DEF OInv, TInv, TypeOK, FreeTail, AddScan, Goto, Slots, Offsets
  <2>4. ClaimFree'
    BY <1>f, <2>2, <2>3 DEF OInv, ClaimFree
  <2>5. FreeTail'
    BY <2>2 DEF OInv, FreeTail
  <2>6. EraseUnowned' /\ Owned'
    BY <1>f, <2>1, <2>2 DEF OInv, EraseUnowned, Owned
  <2> QED BY <1>m, <1>c, <2>4, <2>5, <2>6 DEF OInv
<1>2. CASE AddWrite(p)
  <2>1. /\ lstart[p] \in Slots /\ file[lstart[p]].pid = NoPid /\ mutex.w = p
        /\ pc[p] = "add_write"
    BY <1>2 DEF OInv, ClaimFree, MutexHeld, MutexLabels, AddWrite, write_entry
  <2>2. /\ file' = [file EXCEPT ![lstart[p]] = [pid |-> p, st |-> "blank"]]
        /\ lstart' = lstart /\ have' = [have EXCEPT ![p] = TRUE]
        /\ eof' = IF lstart[p] > eof THEN lstart[p] ELSE eof
    BY <1>2 DEF AddWrite, write_entry
  <2>3. FreeTail'
    BY <2>1, <2>2 DEF OInv, TInv, TypeOK, FreeTail, Slots
  <2>4. Owned'
    BY <2>1, <2>2 DEF OInv, TInv, TypeOK, Owned
  <2>5. pc'[p] # "add_write" /\ pc'[Daemon] # "scrub_erase"
    BY <1>2, <1>f, <2>1 DEF OInv, TInv, TypeOK, MutexHeld, MutexLabels, AddWrite, Goto
  <2>6. ClaimFree'
    BY <1>f, <2>1, <2>2, <2>5 DEF OInv, MutexHeld, MutexLabels, ClaimFree
  <2>7. EraseUnowned'
    BY <2>5 DEF EraseUnowned
  <2> QED BY <1>m, <1>c, <2>3, <2>4, <2>6, <2>7 DEF OInv
<1>3. CASE UpdateWrite(p) \/ DeleteWrite(p)
  <2>1. PICK e \in Entry : write_entry(p, e) /\ (UpdateWrite(p) => e.pid = p)
                           /\ (DeleteWrite(p) => e.pid = NoPid)
    <3>1. CASE UpdateWrite(p)
      <4>1. ~DeleteWrite(p)
        BY <3>1 DEF UpdateWrite, DeleteWrite
      <4> DEFINE e == [pid |-> p, st |-> IF stage[p] = "conn" THEN "conn" ELSE "auth"]
      <4>2. e \in Entry /\ e.pid = p /\ write_entry(p, e)
        BY <3>1, Zenon DEF UpdateWrite, EntryState
      <4> QED BY <4>1, <4>2
    <3>2. CASE DeleteWrite(p)
      <4>1. ~UpdateWrite(p)
        BY <3>2 DEF UpdateWrite, DeleteWrite
      <4> QED BY <3>2, <4>1 DEF DeleteWrite, FreeEntry
    <3> QED BY <1>3, <3>1, <3>2
  <2>2. have[p] /\ lstart[p] \in Slots /\ file[lstart[p]].pid = p
    BY <1>3 DEF OInv, Owned, Control, EntryLabels, UpdateWrite, DeleteWrite
  <2>3. /\ file' = [file EXCEPT ![lstart[p]] = e]
        /\ eof' = IF lstart[p] > eof THEN lstart[p] ELSE eof
        /\ lstart' = lstart
    BY <1>3, <2>1 DEF write_entry, UpdateWrite, DeleteWrite
  <2>4. lstart[p] <= eof
    <3>1. eof \in Nat /\ lstart[p] \in Nat
      BY <2>2, BoundAssumption DEF OInv, TInv, TypeOK, Slots
    <3>2. ~(lstart[p] > eof)
      BY <2>2 DEF OInv, FreeTail
    <3> QED BY <3>1, <3>2
  <2>5. FreeTail'
    BY <2>2, <2>3, <2>4 DEF OInv, TInv, TypeOK, FreeTail, Slots
  <2>6. pc'[p] # "add_write"
    BY <1>3 DEF OInv, TInv, TypeOK, UpdateWrite, DeleteWrite, Goto
  <2>7. ClaimFree'
    BY <1>f, <2>2, <2>3, <2>6 DEF OInv, TInv, TypeOK, ClaimFree
  <2>8. have'[p] => UpdateWrite(p)
    BY <1>3 DEF OInv, TInv, TypeOK, DeleteWrite
  <2>9. Owned'
    BY <1>f, <2>1, <2>2, <2>3, <2>8 DEF OInv, TInv, TypeOK, Owned
  <2>10. EraseUnowned'
    BY <1>f, <2>2, <2>3 DEF OInv, EraseUnowned
  <2> QED BY <1>m, <1>c, <2>5, <2>7, <2>9, <2>10 DEF OInv
<1>4. CASE /\ UNCHANGED <<file, eof>>
           /\ have'[p] => have[p] /\ lstart'[p] = lstart[p]
           /\ pc'[p] # "add_write"
  BY <1>4, <1>f, <1>m, <1>c, OFrame
<1>5. CASE AddLock(p) \/ AddUnlock(p) \/ UpdateLock(p) \/ UpdateUnlock(p)
  <2>1. CASE AddLock(p) \/ AddUnlock(p)
    BY <2>1, <1>4 DEF OInv, TInv, TypeOK, AddLock, AddUnlock, wlock_scoreboard,
       Attempt, Goto
  <2>2. CASE UpdateLock(p) \/ UpdateUnlock(p)
    BY <2>2, <1>4 DEF OInv, TInv, TypeOK, UpdateLock, UpdateUnlock, wlock_entry,
       Attempt, Goto
  <2> QED BY <1>5, <2>1, <2>2
<1>6. CASE Scan(p)
  <2>1. CASE pr_rewind_scoreboard(p)
    BY <2>1, <1>4 DEF OInv, TInv, TypeOK, pr_rewind_scoreboard, Goto
  <2>2. CASE ReadLock(p)
    BY <2>2, <1>4 DEF OInv, TInv, TypeOK, ReadLock, rlock_scoreboard, Attempt, Goto
  <2>3. CASE pr_scoreboard_entry_read(p)
    BY <2>3, <1>4 DEF OInv, TInv, TypeOK, pr_scoreboard_entry_read, Goto
  <2>4. CASE pr_restore_scoreboard(p)
    <3>1. /\ UNCHANGED <<file, eof, have, lstart>>
          /\ pc'[p] # "add_write"
      BY <2>4 DEF OInv, TInv, TypeOK, pr_restore_scoreboard, Goto
    <3> QED BY <3>1, <1>4
  <2> QED BY <1>6, <2>1, <2>2, <2>3, <2>4 DEF Scan
<1>7. CASE DeleteNone(p) \/ DeleteLockEntry(p) \/ DeleteLock(p) \/ DeleteUnlock(p)
  <2>1. CASE DeleteNone(p) \/ DeleteUnlock(p)
    BY <2>1, <1>4 DEF OInv, TInv, TypeOK, DeleteNone, DeleteUnlock, Exit, Goto
  <2>2. CASE DeleteLockEntry(p)
    BY <2>2, <1>4 DEF OInv, TInv, TypeOK, DeleteLockEntry, wlock_entry, Attempt, Goto
  <2>3. CASE DeleteLock(p)
    BY <2>3, <1>4 DEF OInv, TInv, TypeOK, DeleteLock, wlock_scoreboard, Attempt, Goto
  <2> QED BY <1>7, <2>1, <2>2, <2>3
<1>8. CASE Fork(p) \/ Login(p) \/ Command(p) \/ Quit(p) \/ Kill(p)
  BY <1>8, <1>4 DEF OInv, TInv, TypeOK, Fork, Login, Command, Quit, Kill, Exit, Goto
<1>9. ~Scrub(p)
  BY Zenon DEF OInv, Control, ScrubLabels, Scrub, ScrubLock, ScrubLockEntry,
     ScrubSkip, ScrubRead, ScrubErase
<1> QED BY <1>1, <1>2, <1>3, <1>5, <1>6, <1>7, <1>8, <1>9
        DEF Step, Add, Update, Delete

=============================================================================
