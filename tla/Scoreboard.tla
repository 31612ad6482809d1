----------------------------- MODULE Scoreboard -----------------------------
(***************************************************************************)
(* The ScoreboardFile (src/scoreboard.c) and the way the processes of one  *)
(* server use it: session processes add, update and delete their entry,    *)
(* scan the file to enforce MaxConnectionsPerHost and MaxClients           *)
(* (modules/mod_auth.c), and a scrubber erases the entries of processes    *)
(* that are gone.                                                          *)
(*                                                                         *)
(* The file is a header followed by fixed-size slots, so an offset is a    *)
(* slot number: offset k is the start of slot k, and eof is the last slot  *)
(* written.  Every step below is one system call with the assignments      *)
(* around it, which is where the processes interleave.  Two kinds of       *)
(* fcntl(2) locks are used, both with F_SETLK and a bounded number of      *)
(* attempts: one on the ScoreboardMutex file, and one per entry on the     *)
(* scoreboard itself.  The latter is taken with l_whence SEEK_CUR and an   *)
(* absolute l_start, so the range it covers starts at pos + l_start.       *)
(***************************************************************************)
EXTENDS Naturals, FiniteSets

CONSTANTS
  Sess,         \* process IDs session processes may have
  Daemon,       \* the standalone daemon, whose timer scrubs the file
  NoPid,        \* sce_pid = 0: a free slot
  MaxSlots,     \* bound on the length of the file, in slots
  MaxForks,     \* bound on the number of sessions started
  Attempts,     \* SCOREBOARD_MAX_LOCK_ATTEMPTS
  MaxConns,     \* MaxConnectionsPerHost (all clients are on one host)
  MaxClients,   \* MaxClients
  InetdScrub    \* ServerType inetd with "ScoreboardScrub on"

ASSUME PidAssumption ==
  /\ Daemon \notin Sess
  /\ NoPid \notin Sess
  /\ NoPid # Daemon

ASSUME BoundAssumption ==
  /\ MaxSlots \in Nat \ {0}
  /\ MaxForks \in Nat
  /\ Attempts \in Nat \ {0}
  /\ MaxConns \in Nat
  /\ MaxClients \in Nat
  /\ InetdScrub \in BOOLEAN

VARIABLES
  file,         \* the slots
  eof,          \* number of slots in the file
  mutex,        \* lock on the ScoreboardMutex file
  elock,        \* entry locks: the process that holds each range
  pc,           \* what each process is about to do
  stage,        \* how far the session has come
  pos,          \* file offset of scoreboard_fd
  spos,         \* file offset of the descriptor pr_scoreboard_scrub() opens
  lstart,       \* entry_lock.l_start
  have,         \* have_entry
  saved,        \* current_pos
  tries,        \* nattempts - 1 of the lock request in progress
  count,        \* entries counted by the scan in progress
  forks,        \* sessions started so far
  contended     \* some request for the mutex used up its attempts

vars == <<file, eof, mutex, elock, pc, stage, pos, spos, lstart, have, saved,
          tries, count, forks, contended>>

Proc == Sess \cup {Daemon}
Slots == 1..MaxSlots
Offsets == 1..(MaxSlots + 1)
Ranges == 2..(2 * MaxSlots + 2)

(* What the other fields of an entry tell: "blank" right after it was      *)
(* added, "conn" once addresses and user "(none)" are filled in, "auth"    *)
(* once sce_user is the name of the authenticated user.                    *)
EntryState == {"blank", "conn", "auth"}
Entry == [pid : Sess \cup {NoPid}, st : EntryState]
FreeEntry == [pid |-> NoPid, st |-> "blank"]

(* "conn" until the connection was counted, "open" before and "login"      *)
(* during authentication, "in" once admitted, "leaving" while it ends.     *)
Stages == {"conn", "open", "login", "in", "leaving"}

Alive(p) == pc[p] # "dead"

-----------------------------------------------------------------------------
(* Locks.                                                                  *)

\* What fcntl(F_SETLK) decides on the mutex file, and on the range that the
\* offset of p's descriptor and its l_start give.
CanWLock(p) == mutex.w \in {NoPid, p} /\ mutex.r \subseteq {p}
CanRLock(p) == mutex.w \in {NoPid, p}
LockRange(p, off) == off + lstart[p]
CanELock(p, off) == elock[LockRange(p, off)] \in {NoPid, p}

Goto(p, label) == pc' = [pc EXCEPT ![p] = label]

\* One attempt at a lock: it is granted, or tried again later, or given up.
Attempt(p, granted, ok, failed) ==
  \/ /\ granted
     /\ tries' = [tries EXCEPT ![p] = 0]
     /\ Goto(p, ok)
  \/ /\ ~granted
     /\ tries[p] + 1 < Attempts
     /\ tries' = [tries EXCEPT ![p] = @ + 1]
     /\ UNCHANGED pc
  \/ /\ ~granted
     /\ tries[p] + 1 >= Attempts
     /\ tries' = [tries EXCEPT ![p] = 0]
     /\ Goto(p, failed)

GivesUp(p, granted) == ~granted /\ tries[p] + 1 >= Attempts

wlock_scoreboard(p, ok, failed) ==
  /\ Attempt(p, CanWLock(p), ok, failed)
  /\ mutex' = IF CanWLock(p) THEN [w |-> p, r |-> {}] ELSE mutex
  /\ contended' = (contended \/ GivesUp(p, CanWLock(p)))

rlock_scoreboard(p, ok, failed) ==
  /\ Attempt(p, CanRLock(p), ok, failed)
  /\ mutex' = IF CanRLock(p) THEN [w |-> NoPid, r |-> mutex.r \cup {p}]
                             ELSE mutex
  /\ contended' = (contended \/ GivesUp(p, CanRLock(p)))

unlock_scoreboard(p) ==
  mutex' = [w |-> IF mutex.w = p THEN NoPid ELSE mutex.w,
            r |-> mutex.r \ {p}]

wlock_entry(p, off, ok, failed) ==
  /\ Attempt(p, CanELock(p, off), ok, failed)
  /\ elock' = IF CanELock(p, off)
                THEN [elock EXCEPT ![LockRange(p, off)] = p] ELSE elock

unlock_entry(p, off) ==
  elock' = [elock EXCEPT ![LockRange(p, off)] = IF @ = p THEN NoPid ELSE @]

\* close() of any descriptor of the file, or the end of the process, gives up
\* every lock the process has on the file.
DropEntryLocks(p) ==
  elock' = [x \in Ranges |-> IF elock[x] = p THEN NoPid ELSE elock[x]]

\* lseek() to l_start, write() the entry, lseek() back to l_start.
write_entry(p, e) ==
  /\ lstart[p] \in Slots
  /\ file' = [file EXCEPT ![lstart[p]] = e]
  /\ eof' = IF lstart[p] > eof THEN lstart[p] ELSE eof
  /\ pos' = [pos EXCEPT ![p] = lstart[p]]

-----------------------------------------------------------------------------
(* pr_scoreboard_entry_add(), called by auth_sess_init().                  *)

\* fork_server() and pr_open_scoreboard(): the header has been read, so the
\* offset is that of the first slot.  The standalone daemon forks, so it
\* does not do so in the middle of its own scrub.
Fork(p) ==
  /\ pc[p] = "dead"
  /\ forks < MaxForks
  /\ pc[Daemon] = "idle"
  /\ forks' = forks + 1
  /\ Goto(p, "add_lock")
  /\ UNCHANGED <<file, eof, mutex, elock, stage, pos, spos, lstart, have,
                 saved, tries, count, contended>>

\* Mutant of AddLock: a refused mutex does not stop entry_add().
AddLockUnguarded(p) ==
  /\ pc[p] = "add_lock"
  /\ wlock_scoreboard(p, "add_scan", "add_scan")
  /\ UNCHANGED <<file, eof, elock, stage, pos, spos, lstart, have, saved,
                 count, forks>>

\* Without the mutex the entry is not added; auth_sess_init() only logs it,
\* and the pr_scoreboard_entry_update() that follows fails with EPERM.
AddLock(p) ==
  /\ pc[p] = "add_lock"
  /\ wlock_scoreboard(p, "add_scan", "scan_start")
  /\ UNCHANGED <<file, eof, elock, stage, pos, spos, lstart, have, saved,
                 count, forks>>

\* Read the next entry: a zero PID, or the end of the file, is the slot.
AddScan(p) ==
  /\ pc[p] = "add_scan"
  /\ IF pos[p] > eof \/ file[pos[p]].pid = NoPid
       THEN /\ lstart' = [lstart EXCEPT ![p] = pos[p]]
            /\ Goto(p, "add_write")
            /\ UNCHANGED pos
       ELSE /\ pos' = [pos EXCEPT ![p] = @ + 1]
            /\ UNCHANGED <<lstart, pc>>
  /\ UNCHANGED <<file, eof, mutex, elock, stage, spos, have, saved, tries,
                 count, forks, contended>>

AddWrite(p) ==
  /\ pc[p] = "add_write"
  /\ write_entry(p, [pid |-> p, st |-> "blank"])
  /\ have' = [have EXCEPT ![p] = TRUE]
  /\ Goto(p, "add_unlock")
  /\ UNCHANGED <<mutex, elock, stage, spos, lstart, saved, tries, count,
                 forks, contended>>

AddUnlock(p) ==
  /\ pc[p] = "add_unlock"
  /\ unlock_scoreboard(p)
  /\ Goto(p, "upd_lock")
  /\ UNCHANGED <<file, eof, elock, stage, pos, spos, lstart, have, saved,
                 tries, count, forks, contended>>

-----------------------------------------------------------------------------
(* pr_scoreboard_entry_update().  It does not take the mutex, and it goes  *)
(* on when the entry lock is refused.                                      *)

UpdateLock(p) ==
  /\ pc[p] = "upd_lock"
  /\ wlock_entry(p, pos[p], "upd_write", "upd_write")
  /\ UNCHANGED <<file, eof, mutex, stage, pos, spos, lstart, have, saved,
                 count, forks, contended>>

UpdateWrite(p) ==
  /\ pc[p] = "upd_write"
  /\ write_entry(p, [pid |-> p,
                     st |-> IF stage[p] = "conn" THEN "conn" ELSE "auth"])
  /\ Goto(p, "upd_unlock")
  /\ UNCHANGED <<mutex, elock, stage, spos, lstart, have, saved, tries, count,
                 forks, contended>>

UpdateUnlock(p) ==
  /\ pc[p] = "upd_unlock"
  /\ unlock_entry(p, pos[p])
  /\ Goto(p, IF stage[p] = "in" THEN "idle" ELSE "scan_start")
  /\ UNCHANGED <<file, eof, mutex, stage, pos, spos, lstart, have, saved,
                 tries, count, forks, contended>>

-----------------------------------------------------------------------------
(* auth_scan_scoreboard() and auth_count_scoreboard(): rewind, read the    *)
(* entries one by one, restore, compare with the limit.                    *)

\* Mutant of Counted: connections are counted once they have logged in.
CountedLoggedIn(e, stg) == e.st = "auth"

\* Which entries count: all that have their addresses, or only the
\* authenticated ones.
Counted(e, stg) == IF stg = "conn" THEN e.st # "blank" ELSE e.st = "auth"

\* Mutant of OverLimit: one client too many.
OverLimitByOne(n, stg) ==
  LET max == IF stg = "conn" THEN MaxConns ELSE MaxClients
  IN  max # 0 /\ n > max + 1

OverLimit(n, stg) ==
  LET max == IF stg = "conn" THEN MaxConns ELSE MaxClients
  IN  max # 0 /\ n > max

pr_rewind_scoreboard(p) ==
  /\ pc[p] = "scan_start"
  /\ saved' = [saved EXCEPT ![p] = pos[p]]
  /\ pos' = [pos EXCEPT ![p] = 1]
  /\ count' = [count EXCEPT ![p] = 0]
  /\ Goto(p, "scan_lock")
  /\ UNCHANGED <<file, eof, mutex, elock, stage, spos, lstart, have, tries,
                 forks, contended>>

\* pr_scoreboard_entry_read() returns NULL when it cannot lock, which its
\* callers take for the end of the scoreboard.
ReadLock(p) ==
  /\ pc[p] = "scan_lock"
  /\ rlock_scoreboard(p, "scan_read", "scan_end")
  /\ UNCHANGED <<file, eof, elock, stage, pos, spos, lstart, have, saved,
                 count, forks>>

\* Free slots are skipped under the same lock; an entry, or the end of the
\* file, releases it.
pr_scoreboard_entry_read(p) ==
  /\ pc[p] = "scan_read"
  /\ IF pos[p] > eof
       THEN /\ unlock_scoreboard(p)
            /\ Goto(p, "scan_end")
            /\ UNCHANGED <<pos, count>>
       ELSE /\ pos' = [pos EXCEPT ![p] = @ + 1]
            /\ IF file[pos[p]].pid = NoPid
                 THEN UNCHANGED <<mutex, pc, count>>
                 ELSE /\ unlock_scoreboard(p)
                      /\ Goto(p, "scan_lock")
                      /\ count' = [count EXCEPT ![p] =
                           IF Counted(file[pos[p]], stage[p]) THEN @ + 1
                                                              ELSE @]
  /\ UNCHANGED <<file, eof, elock, stage, spos, lstart, have, saved, tries,
                 forks, contended>>

pr_restore_scoreboard(p) ==
  /\ pc[p] = "scan_end"
  /\ pos' = [pos EXCEPT ![p] = saved[p]]
  /\ count' = [count EXCEPT ![p] = 0]
  /\ IF OverLimit(count[p], stage[p])
       THEN /\ stage' = [stage EXCEPT ![p] = "leaving"]
            /\ Goto(p, "del")
       ELSE /\ stage' = [stage EXCEPT ![p] =
                           IF @ = "conn" THEN "open" ELSE "in"]
            /\ Goto(p, IF stage[p] = "conn" /\ InetdScrub
                         THEN "scrub_lock" ELSE "idle")
  /\ UNCHANGED <<file, eof, mutex, elock, spos, lstart, have, saved, tries,
                 forks, contended>>

-----------------------------------------------------------------------------
(* What an idle session does next.                                         *)

\* PASS: setup_env() records the user in the entry, then auth_post_pass()
\* counts.  Without an entry the update returns EPERM at once.
Login(p) ==
  /\ pc[p] = "idle" /\ stage[p] = "open"
  /\ stage' = [stage EXCEPT ![p] = "login"]
  /\ Goto(p, IF have[p] THEN "upd_lock" ELSE "scan_start")
  /\ UNCHANGED <<file, eof, mutex, elock, pos, spos, lstart, have, saved,
                 tries, count, forks, contended>>

\* Any later command records itself in the entry.
Command(p) ==
  /\ pc[p] = "idle" /\ stage[p] = "in" /\ have[p]
  /\ Goto(p, "upd_lock")
  /\ UNCHANGED <<file, eof, mutex, elock, stage, pos, spos, lstart, have,
                 saved, tries, count, forks, contended>>

Quit(p) ==
  /\ p \in Sess /\ pc[p] = "idle"
  /\ stage' = [stage EXCEPT ![p] = "leaving"]
  /\ Goto(p, "del")
  /\ UNCHANGED <<file, eof, mutex, elock, pos, spos, lstart, have, saved,
                 tries, count, forks, contended>>

-----------------------------------------------------------------------------
(* pr_scoreboard_entry_del(), called by sess_cleanup().  It goes on        *)
(* whatever the two lock requests return.                                  *)

\* The end of a process: its locks are released, its memory is gone.
Exit(p) ==
  /\ unlock_scoreboard(p)
  /\ DropEntryLocks(p)
  /\ Goto(p, "dead")
  /\ stage' = [stage EXCEPT ![p] = "conn"]
  /\ have' = [have EXCEPT ![p] = FALSE]
  /\ pos' = [pos EXCEPT ![p] = 1]
  /\ spos' = [spos EXCEPT ![p] = 1]
  /\ lstart' = [lstart EXCEPT ![p] = 1]
  /\ saved' = [saved EXCEPT ![p] = 1]
  /\ tries' = [tries EXCEPT ![p] = 0]
  /\ count' = [count EXCEPT ![p] = 0]
  /\ UNCHANGED <<file, eof, forks, contended>>

\* ENOENT: there is no entry to delete.
DeleteNone(p) ==
  /\ pc[p] = "del" /\ ~have[p]
  /\ Exit(p)

DeleteLockEntry(p) ==
  /\ pc[p] = "del" /\ have[p]
  /\ wlock_entry(p, pos[p], "del_lock", "del_lock")
  /\ UNCHANGED <<file, eof, mutex, stage, pos, spos, lstart, have, saved,
                 count, forks, contended>>

DeleteLock(p) ==
  /\ pc[p] = "del_lock"
  /\ wlock_scoreboard(p, "del_write", "del_write")
  /\ UNCHANGED <<file, eof, elock, stage, pos, spos, lstart, have, saved,
                 count, forks>>

DeleteWrite(p) ==
  /\ pc[p] = "del_write"
  /\ write_entry(p, FreeEntry)
  /\ have' = [have EXCEPT ![p] = FALSE]
  /\ Goto(p, "del_unlock")
  /\ UNCHANGED <<mutex, elock, stage, spos, lstart, saved, tries, count,
                 forks, contended>>

\* unlock_scoreboard(), unlock_entry(), then the core.exit event closes the
\* scoreboard (auth_exit_ev()) and the process exits.
DeleteUnlock(p) ==
  /\ pc[p] = "del_unlock"
  /\ Exit(p)

\* kill -9, or any other death without sess_cleanup().
Kill(p) ==
  /\ p \in Sess /\ Alive(p)
  /\ Exit(p)

-----------------------------------------------------------------------------
(* pr_scoreboard_scrub(): by the daemon's timer, or by an inetd session.   *)

ScrubTimer ==
  /\ pc[Daemon] = "idle" /\ ~InetdScrub
  /\ Goto(Daemon, "scrub_lock")
  /\ UNCHANGED <<file, eof, mutex, elock, stage, pos, spos, lstart, have,
                 saved, tries, count, forks, contended>>

\* Without the mutex the scrub is off.  With it, skip the header.  Note that
\* entry_lock is the same variable that holds the position of the process's
\* own entry.
ScrubLock(p) ==
  /\ pc[p] = "scrub_lock"
  /\ wlock_scoreboard(p, "scrub_entry", "idle")
  /\ IF CanWLock(p)
       THEN /\ spos' = [spos EXCEPT ![p] = 1]
            /\ lstart' = [lstart EXCEPT ![p] = 1]
       ELSE UNCHANGED <<spos, lstart>>
  /\ UNCHANGED <<file, eof, elock, stage, pos, have, saved, count, forks>>

ScrubLockEntry(p) ==
  /\ pc[p] = "scrub_entry"
  /\ wlock_entry(p, spos[p], "scrub_read", "scrub_skip")
  /\ UNCHANGED <<file, eof, mutex, stage, pos, spos, lstart, have, saved,
                 count, forks, contended>>

\* The entry is locked by its session: move on.
ScrubSkip(p) ==
  /\ pc[p] = "scrub_skip"
  /\ spos[p] < MaxSlots + 1
  /\ spos' = [spos EXCEPT ![p] = @ + 1]
  /\ lstart' = [lstart EXCEPT ![p] = spos[p] + 1]
  /\ Goto(p, "scrub_entry")
  /\ UNCHANGED <<file, eof, mutex, elock, stage, pos, have, saved, tries,
                 count, forks, contended>>

\* kill(pid, 0) says ESRCH.  The sessions of a standalone server are in the
\* daemon's process group, so getpgid() never disagrees for a live one.
scoreboard_valid_pid(q) == Alive(q)

\* The offset is past the entry when unlock_entry() is called, so the range
\* it unlocks is not the one that was locked.
ScrubUnlock(p) ==
  /\ elock' = [elock EXCEPT ![LockRange(p, spos[p] + 1)] =
                 IF @ = p THEN NoPid ELSE @]
  /\ spos' = [spos EXCEPT ![p] = @ + 1]
  /\ lstart' = [lstart EXCEPT ![p] = spos[p] + 1]
  /\ Goto(p, "scrub_entry")

\* End of file: unlock, close() the descriptor.
ScrubEnd(p) ==
  /\ unlock_scoreboard(p)
  /\ DropEntryLocks(p)
  /\ spos' = [spos EXCEPT ![p] = 1]
  /\ Goto(p, "idle")
  /\ UNCHANGED lstart

\* Mutant of ScrubRead: a free slot is taken for the end of the file.
ScrubReadToHole(p) ==
  /\ pc[p] = "scrub_read"
  /\ IF spos[p] > eof \/ file[spos[p]].pid = NoPid
       THEN ScrubEnd(p)
       ELSE /\ IF ~scoreboard_valid_pid(file[spos[p]].pid)
                 THEN /\ Goto(p, "scrub_erase")
                      /\ UNCHANGED <<elock, spos, lstart>>
                 ELSE ScrubUnlock(p)
            /\ UNCHANGED mutex
  /\ UNCHANGED <<file, eof, stage, pos, have, saved, tries, count, forks,
                 contended>>

ScrubRead(p) ==
  /\ pc[p] = "scrub_read"
  /\ IF spos[p] > eof
       THEN ScrubEnd(p)
       ELSE LET q == file[spos[p]].pid
            IN  /\ IF q # NoPid /\ ~scoreboard_valid_pid(q)
                     THEN /\ Goto(p, "scrub_erase")
                          /\ UNCHANGED <<elock, spos, lstart>>
                     ELSE ScrubUnlock(p)
                /\ UNCHANGED mutex
  /\ UNCHANGED <<file, eof, stage, pos, have, saved, tries, count, forks,
                 contended>>

\* Mutant of ScrubErase: no lseek() back, so the next slot is written.
ScrubEraseNext(p) ==
  /\ pc[p] = "scrub_erase"
  /\ file' = [file EXCEPT ![spos[p] + 1] = FreeEntry]
  /\ ScrubUnlock(p)
  /\ UNCHANGED <<eof, mutex, stage, pos, have, saved, tries, count, forks,
                 contended>>

ScrubErase(p) ==
  /\ pc[p] = "scrub_erase"
  /\ file' = [file EXCEPT ![spos[p]] = FreeEntry]
  /\ ScrubUnlock(p)
  /\ UNCHANGED <<eof, mutex, stage, pos, have, saved, tries, count, forks,
                 contended>>

-----------------------------------------------------------------------------
Init ==
  /\ file = [s \in Slots |-> FreeEntry]
  /\ eof = 0
  /\ mutex = [w |-> NoPid, r |-> {}]
  /\ elock = [x \in Ranges |-> NoPid]
  /\ pc = [p \in Proc |-> IF p = Daemon THEN "idle" ELSE "dead"]
  /\ stage = [p \in Proc |-> "conn"]
  /\ pos = [p \in Proc |-> 1]
  /\ spos = [p \in Proc |-> 1]
  /\ lstart = [p \in Proc |-> 1]
  /\ have = [p \in Proc |-> FALSE]
  /\ saved = [p \in Proc |-> 1]
  /\ tries = [p \in Proc |-> 0]
  /\ count = [p \in Proc |-> 0]
  /\ forks = 0
  /\ contended = FALSE

Add(p) == AddLock(p) \/ AddScan(p) \/ AddWrite(p) \/ AddUnlock(p)
Update(p) == UpdateLock(p) \/ UpdateWrite(p) \/ UpdateUnlock(p)
Scan(p) == \/ pr_rewind_scoreboard(p) \/ ReadLock(p)
           \/ pr_scoreboard_entry_read(p) \/ pr_restore_scoreboard(p)
Delete(p) == \/ DeleteNone(p) \/ DeleteLockEntry(p) \/ DeleteLock(p)
             \/ DeleteWrite(p) \/ DeleteUnlock(p)
Scrub(p) == \/ ScrubLock(p) \/ ScrubLockEntry(p) \/ ScrubSkip(p)
            \/ ScrubRead(p) \/ ScrubErase(p)

\* What a process does on its own once it has started it.
Step(p) == Add(p) \/ Update(p) \/ Scan(p) \/ Delete(p) \/ Scrub(p)

Next ==
  \/ \E p \in Proc : Step(p)
  \/ \E p \in Sess : Fork(p) \/ Login(p) \/ Command(p) \/ Quit(p) \/ Kill(p)
  \/ ScrubTimer

Spec == Init /\ [][Next]_vars

\* Processes that are in the middle of a call go on, and the scrub timer
\* fires again and again; clients need not do anything.
Fairness == WF_vars(ScrubTimer) /\ \A p \in Proc : WF_vars(Step(p))
FairSpec == Spec /\ Fairness
-----------------------------------------------------------------------------
(* Properties.                                                             *)

Labels ==
  {"dead", "idle", "add_lock", "add_scan", "add_write", "add_unlock",
   "upd_lock", "upd_write", "upd_unlock", "scan_start", "scan_lock",
   "scan_read", "scan_end", "del", "del_lock", "del_write", "del_unlock",
   "scrub_lock", "scrub_entry", "scrub_skip", "scrub_read", "scrub_erase"}

\* Type invariant: offsets stay within the file plus one slot, l_start of a
\* process in a call is an offset, lock holders are processes.
TypeOK ==
  /\ file \in [Slots -> Entry]
  /\ eof \in 0..MaxSlots
  /\ mutex \in [w : Proc \cup {NoPid}, r : SUBSET Proc]
  /\ elock \in [Ranges -> Proc \cup {NoPid}]
  /\ pc \in [Proc -> Labels]
  /\ stage \in [Proc -> Stages]
  /\ pos \in [Proc -> Offsets]
  /\ spos \in [Proc -> Offsets]
  /\ lstart \in [Proc -> Offsets]
  /\ have \in [Proc -> BOOLEAN]
  /\ saved \in [Proc -> Offsets]
  /\ tries \in [Proc -> Nat]
  /\ count \in [Proc -> Nat]
  /\ forks \in 0..MaxForks
  /\ contended \in BOOLEAN

\* A live process that believes it has an entry (have_entry) owns the slot
\* its entry_lock.l_start points at: the PID stored there is its own.  So no
\* two live sessions share a slot, no session's entry is scrubbed or reused
\* under it, whatever lock requests fail and whoever is killed.
SlotOwnership ==
  \A p \in Sess : Alive(p) /\ have[p] =>
    lstart[p] \in Slots /\ file[lstart[p]].pid = p

LoggedIn == {p \in Sess : stage[p] = "in"}
Connected == {p \in Sess : stage[p] \in {"open", "login", "in"}}

\* As long as no request for the mutex ran out of attempts, the record-then-
\* count protocol of setup_env() and auth_post_pass() never admits more than
\* MaxClients sessions, although the scan is not atomic: the mutex is free
\* between the entries and updates do not take it.
MaxClientsEnforced ==
  ~contended /\ MaxClients # 0 => Cardinality(LoggedIn) <= MaxClients

\* The same for MaxConnectionsPerHost and auth_scan_scoreboard().
MaxConnsEnforced ==
  ~contended /\ MaxConns # 0 => Cardinality(Connected) <= MaxConns

\* The documentation of MaxClients: "Once this limit is reached, additional
\* clients attempting to authenticate will be disconnected."
MaxClientsAlways == MaxClients # 0 => Cardinality(LoggedIn) <= MaxClients

\* No step changes an entry of a live session other than the session's own:
\* not an update or delete by another session, not the scrub.
OthersLeaveEntryAlone ==
  [][\A p \in Sess : \A s \in Slots :
       /\ Alive(p) /\ have[p] /\ lstart[p] = s /\ file[s].pid = p
       /\ file'[s] # file[s]
       => pc[p] \in {"upd_write", "del_write"} /\ pc'[p] # pc[p]]_vars

\* The entry a killed session leaves behind is scrubbed, unless its PID is
\* in use again: pr_scoreboard_scrub() runs again and again, and reaches
\* every slot.
StaleEntryScrubbed ==
  \A s \in Slots : \A p \in Sess :
    file[s].pid = p /\ ~Alive(p) ~> file[s].pid # p \/ Alive(p)

-----------------------------------------------------------------------------
(* The scoreboard implements the register of module Registry: a session's  *)
(* seat is the slot at its l_start while have_entry is set.                *)

Board == INSTANCE Registry
           WITH Pids <- Sess, NoPid <- NoPid, Slots <- Slots,
                slots <- [s \in Slots |-> file[s].pid],
                seat <- [p \in Sess |-> IF have[p] THEN lstart[p] ELSE 0],
                alive <- {p \in Sess : Alive(p)}

\* Every step of the processes on the file is a step of the register, or
\* changes nothing in it: pr_scoreboard_entry_add() takes free slots only,
\* updates keep the PID, pr_scoreboard_entry_del() clears the session's own
\* slot and pr_scoreboard_scrub() only slots that are nobody's, whatever
\* lock requests fail and whoever is killed in between.
ImplementsRegistry == Board!Spec
=============================================================================
