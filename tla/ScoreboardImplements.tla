------------------------ MODULE ScoreboardImplements ------------------------
(***************************************************************************)
(* A standalone server's scoreboard implements the register of module      *)
(* Registry, for any number of processes, slots, sessions and attempts.    *)
(***************************************************************************)
EXTENDS ScoreboardProofs

\* A step is invisible in the register when it keeps the PIDs in the file,
\* the entries sessions have, and who is alive.
LEMMA Invisible ==
  ASSUME \A s \in Slots : file'[s].pid = file[s].pid,
         \A p \in Sess : /\ have'[p] = have[p]
                         /\ have[p] => lstart'[p] = lstart[p]
                         /\ pc'[p] = "dead" <=> pc[p] = "dead"
  PROVE  UNCHANGED Board!vars
<1>1. [s \in Slots |-> file[s].pid]' = [s \in Slots |-> file[s].pid]
  OBVIOUS
<1>2. [p \in Sess |-> IF have[p] THEN lstart[p] ELSE 0]'
        = [p \in Sess |-> IF have[p] THEN lstart[p] ELSE 0]
  OBVIOUS
<1>3. {p \in Sess : Alive(p)}' = {p \in Sess : Alive(p)}
  BY DEF Alive
<1> QED BY <1>1, <1>2, <1>3 DEF Board!vars

\* The end of a session, in whatever way, is the end of a session.
LEMMA ExitEnds ==
  ASSUME OInv, NEW p \in Sess, pc[p] # "dead", Exit(p)
  PROVE  Board!End(p)
<1> USE ProcFacts DEF OInv, TInv, TypeOK
<1>1. p \in {q \in Sess : Alive(q)}
  BY DEF Alive
<1>2. {q \in Sess : Alive(q)}' = {q \in Sess : Alive(q)} \ {p}
  BY DEF Exit, Goto, Alive
<1>3. [q \in Sess |-> IF have[q] THEN lstart[q] ELSE 0]'
        = [[q \in Sess |-> IF have[q] THEN lstart[q] ELSE 0] EXCEPT ![p] = 0]
  BY Zenon DEF Exit
<1>4. UNCHANGED [s \in Slots |-> file[s].pid]
  BY DEF Exit
<1> QED BY <1>1, <1>2, <1>3, <1>4 DEF Board!End

\* The part of the type invariant that the mapping needs.
LEMMA Types ==
  ASSUME OInv
  PROVE  /\ file \in [Slots -> Entry] /\ pc \in [Proc -> Labels]
         /\ lstart \in [Proc -> Offsets] /\ have \in [Proc -> BOOLEAN]
         /\ Control /\ Owned
BY Zenon DEF OInv, TInv, TypeOK

\* entry_add() takes a slot that is free.
LEMMA AddTakes ==
  ASSUME OInv, NEW p \in Sess, AddWrite(p)
  PROVE  \E s \in Slots : Board!Take(p, s)
<1> USE ProcFacts DEF OInv, TInv, TypeOK
<1>1. lstart[p] \in Slots
  BY DEF AddWrite, write_entry
<1>2. ~have[p] /\ file[lstart[p]].pid = NoPid
  BY <1>1 DEF AddWrite, Control, NoEntryLabels, ClaimFree
<1>3. {q \in Sess : Alive(q)}' = {q \in Sess : Alive(q)} /\ p \in {q \in Sess : Alive(q)}
  BY DEF AddWrite, Goto, Alive
<1>4. [q \in Sess |-> IF have[q] THEN lstart[q] ELSE 0]'
        = [[q \in Sess |-> IF have[q] THEN lstart[q] ELSE 0] EXCEPT ![p] = lstart[p]]
  BY Zenon DEF AddWrite
<1>5. [s \in Slots |-> file[s].pid]'
        = [[s \in Slots |-> file[s].pid] EXCEPT ![lstart[p]] = p]
  BY <1>1, Zenon DEF AddWrite, write_entry
<1>6. PICK s \in Slots : s = lstart[p]
  BY <1>1
<1>7. Board!Take(p, s)
  BY <1>2, <1>3, <1>4, <1>5, <1>6 DEF Board!Take
<1> QED BY <1>7

\* entry_del() clears the session's own slot.
LEMMA DeleteLeaves ==
  ASSUME OInv, NEW p \in Sess, DeleteWrite(p)
  PROVE  Board!Leave(p)
<1> USE ProcFacts DEF OInv, TInv, TypeOK
<1>1. have[p] /\ lstart[p] \in Slots /\ file[lstart[p]].pid = p
  BY DEF DeleteWrite, Control, EntryLabels, Owned
<1>2. {q \in Sess : Alive(q)}' = {q \in Sess : Alive(q)} /\ p \in {q \in Sess : Alive(q)}
  BY DEF DeleteWrite, Goto, Alive
<1>3. [q \in Sess |-> IF have[q] THEN lstart[q] ELSE 0]'
        = [[q \in Sess |-> IF have[q] THEN lstart[q] ELSE 0] EXCEPT ![p] = 0]
  BY Zenon DEF DeleteWrite
<1>4. [s \in Slots |-> file[s].pid]'
        = [[s \in Slots |-> file[s].pid] EXCEPT ![lstart[p]] = NoPid]
  BY <1>1, Zenon DEF DeleteWrite, write_entry, FreeEntry
<1> QED BY <1>1, <1>2, <1>3, <1>4, Zenon DEF Board!Leave

\* The scrub clears a slot that no session sits in.
LEMMA EraseReclaims ==
  ASSUME OInv, ScrubErase(Daemon)
  PROVE  \E s \in Slots : Board!Reclaim(s)
<1> USE ProcFacts, PidAssumption DEF OInv, TInv, TypeOK
<1>1. spos[Daemon] \in Slots
  BY BoundAssumption DEF ScrubErase, EraseInFile, Slots, Offsets
<1>2. \A q \in Sess : (IF have[q] THEN lstart[q] ELSE 0) # spos[Daemon]
  BY <1>1 DEF ScrubErase, EraseUnowned, Slots
<1>3. UNCHANGED {q \in Sess : Alive(q)}
  BY DEF ScrubErase, ScrubUnlock, Goto, Alive
<1>4. UNCHANGED [q \in Sess |-> IF have[q] THEN lstart[q] ELSE 0]
  BY DEF ScrubErase, ScrubUnlock
<1>5. [s \in Slots |-> file[s].pid]'
        = [[s \in Slots |-> file[s].pid] EXCEPT ![spos[Daemon]] = NoPid]
  BY <1>1, Zenon DEF ScrubErase, FreeEntry
<1>6. PICK s \in Slots : s = spos[Daemon]
  BY <1>1
<1>7. Board!Reclaim(s)
  BY <1>2, <1>3, <1>4, <1>5, <1>6 DEF Board!Reclaim
<1> QED BY <1>7

\* A forked session is a process without a slot.
LEMMA ForkStarts ==
  ASSUME OInv, NEW p \in Sess, Fork(p)
  PROVE  Board!Start(p)
<1> USE ProcFacts DEF OInv, TInv, TypeOK
<1>1. p \notin {q \in Sess : Alive(q)}
  BY DEF Fork, Alive
<1>2. {q \in Sess : Alive(q)}' = {q \in Sess : Alive(q)} \cup {p}
  BY DEF Fork, Goto, Alive
<1>3. /\ UNCHANGED [s \in Slots |-> file[s].pid]
      /\ UNCHANGED [q \in Sess |-> IF have[q] THEN lstart[q] ELSE 0]
  BY DEF Fork
<1> QED BY <1>1, <1>2, <1>3 DEF Board!Start

\* Whatever else a session does is invisible: its update writes its own PID
\* over its own PID.
LEMMA SessionInvisible ==
  ASSUME OInv, ~InetdScrub, NEW p \in Sess,
         \/ AddLock(p) \/ AddScan(p) \/ AddUnlock(p) \/ Update(p) \/ Scan(p)
         \/ DeleteLockEntry(p) \/ DeleteLock(p)
         \/ Login(p) \/ Command(p) \/ Quit(p)
  PROVE  UNCHANGED Board!vars
<1> USE ProcFacts, Types
<1>1. CASE AddLock(p) \/ AddScan(p) \/ AddUnlock(p)
  <2>1. file' = file /\ have' = have
    BY <1>1 DEF AddLock, AddScan, AddUnlock
  <2>2. \A q \in Sess : have[q] => lstart'[q] = lstart[q]
    BY <1>1 DEF AddLock, AddScan, AddUnlock, Control, NoEntryLabels
  <2>3. \A q \in Sess : pc'[q] = "dead" <=> pc[q] = "dead"
    <3>1. CASE AddLock(p)
      BY <3>1 DEF AddLock, wlock_scoreboard, Attempt, Goto
    <3>2. CASE AddScan(p) \/ AddUnlock(p)
      BY <1>1, <3>2 DEF AddScan, AddUnlock, Goto
    <3> QED BY <1>1, <3>1, <3>2
  <2> QED BY <2>1, <2>2, <2>3, Invisible
<1>2. CASE Update(p)
  <2>1. have' = have /\ lstart' = lstart
    BY <1>2 DEF Update, UpdateLock, UpdateWrite, UpdateUnlock
  <2>2. \A s \in Slots : file'[s].pid = file[s].pid
    <3>1. CASE UpdateWrite(p)
      <4>1. file[lstart[p]].pid = p /\ lstart[p] \in Slots
        BY <3>1, SMTT(30) DEF UpdateWrite, Control, EntryLabels, Owned
      <4> QED BY <3>1, <4>1 DEF UpdateWrite, write_entry
    <3>2. CASE UpdateLock(p) \/ UpdateUnlock(p)
      BY <3>2 DEF UpdateLock, UpdateUnlock
    <3> QED BY <1>2, <3>1, <3>2 DEF Update
  <2>3. \A q \in Sess : pc'[q] = "dead" <=> pc[q] = "dead"
    <3>1. CASE UpdateLock(p)
      BY <3>1 DEF UpdateLock, wlock_entry, Attempt, Goto
    <3>2. CASE UpdateWrite(p) \/ UpdateUnlock(p)
      BY <3>2 DEF UpdateWrite, UpdateUnlock, Goto
    <3> QED BY <1>2, <3>1, <3>2 DEF Update
  <2> QED BY <2>1, <2>2, <2>3, Invisible
<1>3. CASE Scan(p)
  <2>1. file' = file /\ have' = have /\ lstart' = lstart
    BY <1>3 DEF Scan, pr_rewind_scoreboard, ReadLock, pr_scoreboard_entry_read,
       pr_restore_scoreboard
  <2>2. \A q \in Sess : pc'[q] = "dead" <=> pc[q] = "dead"
    <3>1. CASE ReadLock(p)
      BY <3>1 DEF ReadLock, rlock_scoreboard, Attempt, Goto
    <3>2. CASE pr_rewind_scoreboard(p) \/ pr_restore_scoreboard(p)
      BY <3>2 DEF pr_rewind_scoreboard, pr_restore_scoreboard, Goto
    <3>3. CASE pr_scoreboard_entry_read(p)
      BY <3>3 DEF pr_scoreboard_entry_read, Goto
    <3> QED BY <1>3, <3>1, <3>2, <3>3 DEF Scan
  <2> QED BY <2>1, <2>2, Invisible
<1>4. CASE DeleteLockEntry(p) \/ DeleteLock(p)
  <2>1. file' = file /\ have' = have /\ lstart' = lstart
    BY <1>4 DEF DeleteLockEntry, DeleteLock
  <2>2. \A q \in Sess : pc'[q] = "dead" <=> pc[q] = "dead"
    <3>1. CASE DeleteLockEntry(p)
      BY <3>1, SMTT(30) DEF DeleteLockEntry, wlock_entry, Attempt, Goto
    <3>2. CASE DeleteLock(p)
      BY <3>2 DEF DeleteLock, wlock_scoreboard, Attempt, Goto
    <3> QED BY <1>4, <3>1, <3>2
  <2> QED BY <2>1, <2>2, Invisible
<1>5. CASE Login(p) \/ Command(p) \/ Quit(p)
  <2>1. file' = file /\ have' = have /\ lstart' = lstart
    BY <1>5 DEF Login, Command, Quit
  <2>2. \A q \in Sess : pc'[q] = "dead" <=> pc[q] = "dead"
    BY <1>5 DEF Login, Command, Quit, Goto
  <2> QED BY <2>1, <2>2, Invisible
<1> QED BY <1>1, <1>2, <1>3, <1>4, <1>5

\* Of the daemon only the erasing of an entry is visible.
LEMMA DaemonInvisible ==
  ASSUME OInv, \/ ScrubTimer \/ ScrubLock(Daemon) \/ ScrubLockEntry(Daemon)
               \/ ScrubSkip(Daemon) \/ ScrubRead(Daemon)
  PROVE  UNCHANGED Board!vars
<1> USE ProcFacts, PidAssumption, Types
<1>1. file' = file /\ have' = have
  BY SMTT(30) DEF ScrubTimer, ScrubLock, ScrubLockEntry, ScrubSkip, ScrubRead
<1>2. \A q \in Sess : lstart'[q] = lstart[q]
  BY DEF ScrubTimer, ScrubLock, ScrubLockEntry, ScrubSkip, ScrubRead, ScrubUnlock, ScrubEnd
<1>3. \A q \in Sess : pc'[q] = pc[q]
  BY DEF ScrubTimer, ScrubLock, ScrubLockEntry, ScrubSkip, ScrubRead, ScrubUnlock, ScrubEnd,
     wlock_scoreboard, wlock_entry, Attempt, Goto
<1> QED BY <1>1, <1>2, <1>3, Invisible

\* Every step of the standalone server on the scoreboard is a step of the
\* register or invisible in it: entry_add() only takes free slots, entry_del()
\* only clears its own, and the scrub only clears slots that are nobody's, for
\* any number of sessions and slots, whatever locks are refused and whichever
\* sessions are killed.
THEOREM RegistryImplemented == ASSUME ~InetdScrub PROVE Spec => ImplementsRegistry
<1>1. Init => Board!Init
  <2> SUFFICES ASSUME Init PROVE Board!Init
    OBVIOUS
  <2>1. [s \in Slots |-> file[s].pid] = [s \in Slots |-> NoPid]
    BY DEF Init, FreeEntry
  <2>2. [p \in Sess |-> IF have[p] THEN lstart[p] ELSE 0] = [p \in Sess |-> 0]
    BY ProcFacts DEF Init
  <2>3. {p \in Sess : Alive(p)} = {}
    BY ProcFacts, PidAssumption DEF Init, Alive
  <2> QED BY <2>1, <2>2, <2>3 DEF Board!Init
<1>2. OInv /\ [Next]_vars => [Board!Next]_(Board!vars)
  <2> SUFFICES ASSUME OInv, [Next]_vars PROVE [Board!Next]_(Board!vars)
    OBVIOUS
  <2> USE ProcFacts, PidAssumption
  <2>1. CASE UNCHANGED vars
    BY <2>1, Invisible DEF vars
  <2>2. ASSUME NEW p \in Sess, \/ Step(p) \/ Fork(p) \/ Login(p) \/ Command(p)
                               \/ Quit(p) \/ Kill(p)
        PROVE  [Board!Next]_(Board!vars)
    <3>1. CASE Fork(p)
      BY <3>1, ForkStarts DEF Board!Next
    <3>2. CASE Kill(p) \/ DeleteNone(p) \/ DeleteUnlock(p)
      <4>1. Exit(p) /\ pc[p] # "dead"
        BY <3>2 DEF Kill, DeleteNone, DeleteUnlock, Alive
      <4> QED BY <4>1, ExitEnds DEF Board!Next
    <3>3. CASE AddWrite(p)
      <4>1. \E s \in Slots : Board!Take(p, s)
        BY <3>3, AddTakes
      <4> QED BY <4>1, Zenon DEF Board!Next
    <3>4. CASE DeleteWrite(p)
      BY <3>4, DeleteLeaves DEF Board!Next
    <3>5. CASE Scrub(p)
      BY <3>5, Zenon DEF OInv, Control, ScrubLabels, Scrub, ScrubLock, ScrubLockEntry,
         ScrubSkip, ScrubRead, ScrubErase
    <3>6. CASE \/ AddLock(p) \/ AddScan(p) \/ AddUnlock(p) \/ Update(p) \/ Scan(p)
               \/ DeleteLockEntry(p) \/ DeleteLock(p)
               \/ Login(p) \/ Command(p) \/ Quit(p)
      BY <3>6, SessionInvisible
    <3> QED BY <2>2, <3>1, <3>2, <3>3, <3>4, <3>5, <3>6 DEF Step, Add, Delete
  <2>3. CASE Step(Daemon) \/ ScrubTimer
    <3>1. Scrub(Daemon) \/ ScrubTimer
      BY <2>3, Zenon DEF OInv, TInv, DaemonScrubs, ScrubLabels, Step, Add, AddLock, AddScan,
         AddWrite, AddUnlock, Update, UpdateLock, UpdateWrite, UpdateUnlock, Scan,
         pr_rewind_scoreboard, ReadLock, pr_scoreboard_entry_read,
         pr_restore_scoreboard, Delete, DeleteNone, DeleteLockEntry, DeleteLock,
         DeleteWrite, DeleteUnlock
    <3>2. CASE ScrubErase(Daemon)
      <4>1. \E s \in Slots : Board!Reclaim(s)
        BY <3>2, EraseReclaims
      <4> QED BY <4>1, Zenon DEF Board!Next
    <3>3. CASE \/ ScrubTimer \/ ScrubLock(Daemon) \/ ScrubLockEntry(Daemon)
               \/ ScrubSkip(Daemon) \/ ScrubRead(Daemon)
      BY <3>3, DaemonInvisible
    <3> QED BY <3>1, <3>2, <3>3 DEF Scrub
  <2> QED BY <2>1, <2>2, <2>3 DEF Next, Proc
<1> QED BY OInit, ONext, <1>1, <1>2, PTL DEF Spec, ImplementsRegistry, Board!Spec
=============================================================================
