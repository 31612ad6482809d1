-------------------------- MODULE ScoreboardControl -------------------------
(***************************************************************************)
(* The inductive invariant of slot ownership in a standalone server, and   *)
(* the parts of it about the mutex and the control of a session.           *)
(***************************************************************************)
EXTENDS ScoreboardFrame

-----------------------------------------------------------------------------
(* Slot ownership in a standalone server (InetdScrub = FALSE).  Its        *)
(* inductive strengthening says why: the slot that a session is about to   *)
(* claim, or that the scrub is about to erase, belongs to nobody, and the  *)
(* process holds the mutex until it has done so.                           *)

MutexLabels == {"add_scan", "add_write", "add_unlock", "scrub_entry",
                "scrub_skip", "scrub_read", "scrub_erase"}
NoEntryLabels == {"dead", "add_lock", "add_scan", "add_write"}
EntryLabels == {"add_unlock", "upd_lock", "upd_write", "upd_unlock",
                "del_lock", "del_write"}

MutexHeld == \A p \in Proc : pc[p] \in MutexLabels => mutex.w = p
Control == \A p \in Sess :
             /\ pc[p] \notin ScrubLabels
             /\ pc[p] \in NoEntryLabels => ~have[p]
             /\ pc[p] \in EntryLabels => have[p]
FreeTail == \A s \in Slots : s > eof => file[s].pid = NoPid
ClaimFree == \A p \in Sess : pc[p] = "add_write" /\ lstart[p] \in Slots
                               => file[lstart[p]].pid = NoPid
EraseUnowned == pc[Daemon] = "scrub_erase" =>
                  \A p \in Sess : have[p] => lstart[p] # spos[Daemon]
Owned == \A p \in Sess : have[p] =>
           lstart[p] \in Slots /\ file[lstart[p]].pid = p

OInv == /\ TInv /\ MutexHeld /\ Control /\ FreeTail /\ ClaimFree
        /\ EraseUnowned /\ Owned

\* No process has an entry at the start.
LEMMA OInit == Init => OInv
<1> SUFFICES ASSUME Init PROVE OInv
  OBVIOUS
<1>1. TInv
  BY TInit
<1>2. MutexHeld /\ Control
  BY ProcFacts, PidAssumption DEF Init, MutexHeld, Control, MutexLabels, ScrubLabels, NoEntryLabels, EntryLabels
<1>3. FreeTail
  BY DEF Init, FreeTail, FreeEntry
<1>4. ClaimFree /\ EraseUnowned /\ Owned
  BY ProcFacts, PidAssumption DEF Init, ClaimFree, EraseUnowned, Owned
<1> QED BY <1>1, <1>2, <1>3, <1>4 DEF OInv

\* The steps that touch neither the file nor any process's own entry.
LEMMA OFrame ==
  ASSUME OInv, NEW p \in Sess, TInv', MutexHeld', Control',
         UNCHANGED <<file, eof>>,
         \A q \in Proc \ {p} : /\ pc'[q] = pc[q] /\ have'[q] = have[q]
                               /\ lstart'[q] = lstart[q] /\ spos'[q] = spos[q],
         have'[p] => have[p] /\ lstart'[p] = lstart[p],
         pc'[p] # "add_write"
  PROVE  OInv'
<1>1. FreeTail'
  BY DEF OInv, FreeTail
<1>2. ClaimFree'
  BY ProcFacts DEF OInv, ClaimFree
<1>3. EraseUnowned'
  BY ProcFacts, PidAssumption DEF OInv, EraseUnowned
<1>4. Owned'
  BY ProcFacts DEF OInv, Owned
<1> QED BY <1>1, <1>2, <1>3, <1>4 DEF OInv

\* A session acquires the mutex before it looks for a slot and keeps it until
\* its entry is written; the daemon keeps it for a whole scrub.
LEMMA OwnMutex ==
  ASSUME OInv, ~InetdScrub, NEW p \in Proc,
         \/ Step(p)
         \/ p \in Sess /\ (Fork(p) \/ Login(p) \/ Command(p) \/ Quit(p) \/ Kill(p))
         \/ p = Daemon /\ ScrubTimer
  PROVE  pc'[p] \in MutexLabels => mutex'.w = p
<1> USE ProcFacts DEF OInv, TInv
<1>1. CASE Add(p)
  BY <1>1 DEF TypeOK, Add, AddLock, AddScan, AddWrite, AddUnlock, MutexHeld,
     MutexLabels, wlock_scoreboard, Attempt, Goto
<1>2. CASE Update(p)
  BY <1>2 DEF TypeOK, Update, UpdateLock, UpdateWrite, UpdateUnlock,
     MutexLabels, wlock_entry, Attempt, Goto
<1>3. CASE Scan(p)
  BY <1>3 DEF TypeOK, Scan, pr_rewind_scoreboard, ReadLock,
     pr_scoreboard_entry_read, pr_restore_scoreboard, MutexLabels,
     rlock_scoreboard, Attempt, Goto
<1>4. CASE Delete(p)
  BY <1>4 DEF TypeOK, Delete, DeleteNone, DeleteLockEntry, DeleteLock,
     DeleteWrite, DeleteUnlock, Exit, MutexLabels, wlock_entry,
     wlock_scoreboard, Attempt, Goto
<1>5. CASE Scrub(p)
  BY <1>5 DEF TypeOK, Scrub, ScrubLock, ScrubLockEntry, ScrubSkip, ScrubRead,
     ScrubErase, ScrubEnd, ScrubUnlock, MutexHeld, MutexLabels, wlock_entry,
     wlock_scoreboard, Attempt, Goto
<1>6. CASE p \in Sess /\ (Fork(p) \/ Login(p) \/ Command(p) \/ Quit(p) \/ Kill(p))
  BY <1>6 DEF TypeOK, Fork, Login, Command, Quit, Kill, Exit, MutexLabels, Goto
<1>7. CASE p = Daemon /\ ScrubTimer
  BY <1>7 DEF TypeOK, ScrubTimer, MutexLabels, Goto
<1> QED BY <1>1, <1>2, <1>3, <1>4, <1>5, <1>6, <1>7 DEF Step

\* have_entry is set exactly where the control flow of a session needs it.
LEMMA OwnControl ==
  ASSUME OInv, ~InetdScrub, NEW p \in Sess,
         \/ Step(p)
         \/ Fork(p) \/ Login(p) \/ Command(p) \/ Quit(p) \/ Kill(p)
  PROVE  /\ pc'[p] \notin ScrubLabels
         /\ pc'[p] \in NoEntryLabels => ~have'[p]
         /\ pc'[p] \in EntryLabels => have'[p]
<1> USE ProcFacts DEF OInv, TInv
<1>1. CASE Add(p)
  BY <1>1 DEF TypeOK, Add, AddLock, AddScan, AddWrite, AddUnlock, Control,
     ScrubLabels, NoEntryLabels, EntryLabels, wlock_scoreboard, Attempt, Goto
<1>2. CASE Update(p)
  BY <1>2 DEF TypeOK, Update, UpdateLock, UpdateWrite, UpdateUnlock, Control,
     ScrubLabels, NoEntryLabels, EntryLabels, wlock_entry, Attempt, Goto
<1>3. CASE Scan(p)
  BY <1>3 DEF TypeOK, Scan, pr_rewind_scoreboard, ReadLock,
     pr_scoreboard_entry_read, pr_restore_scoreboard, Control, ScrubLabels,
     NoEntryLabels, EntryLabels, rlock_scoreboard, Attempt, Goto
<1>4. CASE Delete(p)
  BY <1>4 DEF TypeOK, Delete, DeleteNone, DeleteLockEntry, DeleteLock,
     DeleteWrite, DeleteUnlock, Exit, Control, ScrubLabels, NoEntryLabels,
     EntryLabels, wlock_entry, wlock_scoreboard, Attempt, Goto
<1>5. CASE Scrub(p)
  BY <1>5 DEF Scrub, ScrubLock, ScrubLockEntry, ScrubSkip, ScrubRead,
     ScrubErase, Control, ScrubLabels
<1>6. CASE Fork(p) \/ Login(p) \/ Command(p) \/ Quit(p) \/ Kill(p)
  BY <1>6 DEF TypeOK, Fork, Login, Command, Quit, Kill, Exit, Control,
     ScrubLabels, NoEntryLabels, EntryLabels, Goto
<1> QED BY <1>1, <1>2, <1>3, <1>4, <1>5, <1>6 DEF Step

=============================================================================
