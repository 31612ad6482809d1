------------------------------- MODULE Quota -------------------------------
(* Quotas on uploads: mod_quotatab with the file-based tables of              *)
(* mod_quotatab_file.  Sessions of several users share a file of tally        *)
(* records, which they look up, create, read and update with record locks,    *)
(* and a lock file, QuotaLock.  Every session keeps a copy of its record and  *)
(* the offset of its table handle.  A step is one system call with the        *)
(* assignments around it; an unlock is made in one step with the call before. *)
(* Of the six counters the uploaded bytes and files are modelled: the others  *)
(* are updated by the same code.  All users have a limit of their own.        *)
EXTENDS Integers, Sequences, FiniteSets, FiniteSetsExt

CONSTANTS Sessions, Users, Paths,
          None,               \* no session, no file
          bytes_in_avail,     \* the limit of every user, in bytes
          files_in_avail,     \* and in files; 0 is unlimited
          QuotaLock,          \* is the lock file configured?
          MaxSize,            \* bound: the largest file
          MaxCommands,        \* bound: logins, STORs and DELEs
          Width               \* files_in_used is an unsigned of this width

ASSUME QuotaAssumption ==
  /\ bytes_in_avail \in Nat /\ files_in_avail \in Nat /\ QuotaLock \in BOOLEAN
  /\ MaxSize \in Nat /\ MaxCommands \in Nat /\ Width \in Nat \ {0}
  /\ None \notin Sessions

VARIABLES table,      \* the tally file: a sequence of records
          qlock,      \* who holds QuotaLock
          elock,      \* record locks on the tally file
          disk,       \* the uploaded files
          sess,       \* the sessions
          hard, scan, \* HARD_LIMIT and QuotaOptions ScanOnLogin
          commands,   \* how many were begun
          sum,        \* history: what the updates of a user's tally add up to
          odd         \* history: what makes tallies inexact (see below)
vars == <<table, qlock, elock, disk, sess, hard, scan, commands, sum, odd>>
config == <<hard, scan>>

(* What may have happened: a lock was given up; a file of another user was    *)
(* deleted, or overwritten; a session ended in mid-transfer; two sessions     *)
(* worked on one path; an upload was taken back; one failed before its first  *)
(* byte, when the file was already emptied; a session began with a scan while *)
(* another was on.                                                            *)
Oddities ==
  {"gaveup", "crossed", "foreign", "cut", "shared", "undone", "emptied", "raced"}

Offsets == 1..(2 * MaxCommands + 1)
Tally == [name: Users, bytes: Nat, files: 0..(2^Width - 1)]
File == [size: 0..MaxSize, owner: Users]
Increment == [bytes: Int, files: Int]

(* quotatab_create_tally() *)
NewTally(u) == [name |-> u, bytes |-> 0, files |-> 0]

(* A session: the calls it still has to make for its command, its user, the   *)
(* offset of its table handle and the lock counters, sess_tally, dele_tally   *)
(* and which of the two is written, the increments, the path, and what        *)
(* PRE_CMD handlers leave for POST_CMD handlers.                              *)
LoggedOut ==
  [todo |-> <<>>, user |-> None, use |-> FALSE, pos |-> 1, rlock |-> 0, wlock |-> 0,
   sess_tally |-> None, dele_tally |-> None, arg |-> "sess",
   inc |-> [bytes |-> 0, files |-> 0], path |-> None,
   disk_nbytes |-> 0, total |-> 0, store |-> 0, dele_st |-> None]

Init ==
  /\ table = <<>> /\ qlock = None /\ elock = {}
  /\ disk = [p \in Paths |-> None]
  /\ sess = [s \in Sessions |-> LoggedOut]
  /\ hard \in BOOLEAN /\ scan \in BOOLEAN
  /\ commands = 0
  /\ sum = [u \in Users |-> NewTally(u)]
  /\ odd = {}

At(s, call) == sess[s].todo # <<>> /\ Head(sess[s].todo) = call
Idle(s) == sess[s].todo = <<>>

(* At the end of a command what it left for its own handlers is forgotten.    *)
Kept(m) == [LoggedOut EXCEPT !.user = m.user, !.use = m.use, !.pos = m.pos,
                             !.sess_tally = m.sess_tally]
Set(s, m) == sess' = [sess EXCEPT ![s] = IF m.todo = <<>> THEN Kept(m) ELSE m]
Todo(m, calls) == [m EXCEPT !.todo = calls]
Rest(m) == Tail(m.todo)
Skip(m, n) == SubSeq(m.todo, n + 1, Len(m.todo))
Odd(what, happened) == odd' = odd \cup (IF happened THEN {what} ELSE {})

----------------------------------------------------------------------------
(* Locks.  A request that is refused is repeated up to                        *)
(* QUOTA_MAX_LOCK_ATTEMPTS times; repeating it changes nothing.               *)

CanRead(s, pos) == ~ \E l \in elock : l.by # s /\ l.pos = pos /\ l.type = "w"
CanWrite(s, pos) == ~ \E l \in elock : l.by # s /\ l.pos = pos
Unlocked(s, pos) == {l \in elock : ~(l.by = s /\ l.pos = pos)}
Locked(s, pos, type) == Unlocked(s, pos) \cup {[by |-> s, pos |-> pos, type |-> type]}

(* Mutant of quotatab_mutex_lock: never granted.                              *)
NeverLocked(s) ==
  /\ At(s, "mutex")
  /\ Set(s, Todo(sess[s], Rest(sess[s])))
  /\ UNCHANGED <<table, qlock, elock, disk, config, commands, sum, odd>>

(* quotatab_mutex_lock(F_WRLCK): the caller goes on when it is given up.      *)
quotatab_mutex_lock(s) ==
  /\ At(s, "mutex")
  /\ Set(s, Todo(sess[s], Rest(sess[s])))
  /\ qlock' = IF QuotaLock /\ qlock = None THEN s ELSE qlock
  /\ Odd("gaveup", ~QuotaLock \/ qlock # None)
  /\ UNCHANGED <<table, elock, disk, config, commands, sum>>

(* quotatab_mutex_lock(F_UNLCK) *)
MutexFreedBy(s) == IF qlock = s THEN None ELSE qlock

(* quotatab_rlock(): the caller quotatab_read() fails when it is given up.    *)
quotatab_rlock(s) ==
  LET m == sess[s] IN
  /\ At(s, "rlock")
  /\ IF CanRead(s, m.pos)
       THEN /\ elock' = Locked(s, m.pos, "r")
            /\ Set(s, [m EXCEPT !.rlock = 1, !.todo = Rest(m)])
            /\ UNCHANGED odd
       ELSE /\ Set(s, Todo(m, Skip(m, 2)))
            /\ Odd("gaveup", TRUE)
            /\ UNCHANGED elock
  /\ UNCHANGED <<table, qlock, disk, config, commands, sum>>

(* quotatab_wlock(): quotatab_write() fails when it is given up, and so does  *)
(* quotatab_create(), after which the session has no quota.                   *)
Waive(m) == [Todo(m, <<>>) EXCEPT !.use = FALSE]

quotatab_wlock(s) ==
  LET m == sess[s] IN
  /\ At(s, "wlock")
  /\ IF CanWrite(s, m.pos)
       THEN /\ elock' = Locked(s, m.pos, "w")
            /\ Set(s, [m EXCEPT !.wlock = 1, !.todo = Rest(m)])
            /\ UNCHANGED <<odd, qlock>>
       ELSE /\ IF m.todo[2] = "create"
                 THEN Set(s, Waive(m)) /\ qlock' = MutexFreedBy(s)
                 ELSE Set(s, Todo(m, Skip(m, 3))) /\ UNCHANGED qlock
            /\ Odd("gaveup", TRUE)
            /\ UNCHANGED elock
  /\ UNCHANGED <<table, disk, config, commands, sum>>

----------------------------------------------------------------------------
(* Reading and writing a record at the offset of the handle, which both       *)
(* rewind.  At the end of the file nothing is read.                           *)

ReadAt(m) == IF m.pos <= Len(table)
               THEN [m EXCEPT !.sess_tally = table[m.pos]] ELSE m

(* Mutant of Releases: also unlocks under a writer.                           *)
IgnoresWriter(m) == m.rlock = 1

(* quotatab_runlock(): the lock that a caller wrote under stays.              *)
Releases(m) == m.rlock = 1 /\ m.wlock = 0

(* quotatab_read() of QUOTATAB_TALLY_READ *)
quotatab_read(s) ==
  LET m == sess[s] IN
  /\ At(s, "read")
  /\ Set(s, [ReadAt(m) EXCEPT !.rlock = 0, !.todo = Rest(m)])
  /\ elock' = IF Releases(m) THEN Unlocked(s, m.pos) ELSE elock
  /\ UNCHANGED <<table, qlock, disk, config, commands, sum, odd>>

(* The same in quotatab_write(), where quotatab_rlock() only counts.          *)
Reread(s) ==
  LET m == sess[s]
      counted == [m EXCEPT !.rlock = 1] IN
  /\ At(s, "reread")
  /\ Set(s, Todo(ReadAt(m), Rest(m)))
  /\ elock' = IF Releases(counted) THEN Unlocked(s, m.pos) ELSE elock
  /\ UNCHANGED <<table, qlock, disk, config, commands, sum, odd>>

(* What quotatab_write() adds to a tally: no counter goes below zero, but the *)
(* files wrap around when more are taken away than there are.                 *)
Added(t, inc) ==
  [t EXCEPT !.bytes = IF bytes_in_avail = 0 THEN @ ELSE Max({0, @ + inc.bytes}),
            !.files = IF files_in_avail = 0 \/ (@ = 0 /\ inc.files < 0) THEN @
                      ELSE (@ + inc.files) % 2^Width]

WriteAt(pos, t) == IF pos <= Len(table) THEN [table EXCEPT ![pos] = t]
                                        ELSE Append(table, t)

(* quotatab_write(): it is always sess_tally that is updated, and its         *)
(* argument that is written.                                                  *)
quotatab_write(s) ==
  LET m == sess[s]
      new == Added(m.sess_tally, m.inc)
      name == m.sess_tally.name IN
  /\ At(s, "write")
  /\ table' = WriteAt(m.pos, IF m.arg = "sess" THEN new ELSE m.dele_tally)
  /\ Set(s, [m EXCEPT !.sess_tally = new, !.wlock = 0, !.todo = Rest(m)])
  /\ elock' = Unlocked(s, m.pos)
  /\ sum' = [sum EXCEPT ![name] = Added(@, m.inc)]
  /\ UNCHANGED <<qlock, disk, config, commands, odd>>

TallyWrite == <<"wlock", "reread", "write">>
Update(m, bytes, files, then) ==
  [m EXCEPT !.inc = [bytes |-> bytes, files |-> files], !.arg = "sess",
            !.todo = TallyWrite \o then]

----------------------------------------------------------------------------
(* Login *)

Begin(s) == commands < MaxCommands /\ Idle(s) /\ commands' = commands + 1

(* quotatab_post_pass(): QuotaLock is taken and the limit is found.           *)
quotatab_post_pass(s) ==
  /\ Begin(s) /\ sess[s].user = None
  /\ \E u \in Users :
       /\ Set(s, [LoggedOut EXCEPT !.user = u, !.todo = <<"mutex", "lookup">>])
       /\ Odd("raced", scan /\ \E t \in Sessions : sess[t].user = u)
  /\ UNCHANGED <<table, qlock, elock, disk, config, sum>>

(* The end of quotatab_post_pass(), or the scan of ScanOnLogin before it.     *)
LoggedIn(m) ==
  LET scans == scan /\ (bytes_in_avail > 0 \/ files_in_avail > 0)
  IN  [Todo(m, IF scans THEN <<"scan">> ELSE <<>>) EXCEPT !.use = TRUE]

(* filetab_lookup(): one record, for the session's user at login, for the     *)
(* owner of the deleted file in quotatab_post_dele().  QuotaLock is released  *)
(* when a record was found, and when the owner has none.                      *)
filetab_lookup(s) ==
  LET m == sess[s]
      dele == m.dele_st # None
      key == IF dele THEN m.dele_st.owner ELSE m.user
      entry == table[m.pos] IN
  /\ At(s, "lookup")
  /\ IF m.pos > Len(table)
       THEN IF dele
              THEN /\ Set(s, Update(m, -m.disk_nbytes, -1, <<>>))
                   /\ qlock' = MutexFreedBy(s)
              ELSE /\ Set(s, Todo(m, <<"wlock", "create">>))
                   /\ UNCHANGED qlock
       ELSE IF entry.name = key
              THEN /\ Set(s, IF dele
                              THEN [Update(m, -m.disk_nbytes, -1, <<>>)
                                      EXCEPT !.arg = "dele", !.dele_tally = entry]
                              ELSE LoggedIn([m EXCEPT !.sess_tally = entry]))
                   /\ qlock' = MutexFreedBy(s)
              ELSE Set(s, [m EXCEPT !.pos = @ + 1]) /\ UNCHANGED qlock
  /\ UNCHANGED <<table, elock, disk, config, commands, sum, odd>>

(* filetab_create(): the record goes to the end of the file, the lock on the  *)
(* record at the new offset is released, and QuotaLock.                       *)
filetab_create(s) ==
  LET m == sess[s]
      end == Len(table) + 1
      t == NewTally(m.user) IN
  /\ At(s, "create")
  /\ table' = Append(table, t)
  /\ Set(s, LoggedIn([m EXCEPT !.sess_tally = t, !.pos = end, !.wlock = 0]))
  /\ elock' = Unlocked(s, end)
  /\ qlock' = MutexFreedBy(s)
  /\ UNCHANGED <<disk, config, commands, sum, odd>>

FilesOf(u) == {p \in Paths : disk[p] # None /\ disk[p].owner = u}
BytesOf(u) == MapThenSumSet(LAMBDA p : disk[p].size, FilesOf(u))

(* quotatab_scan_dir() and the update after it *)
quotatab_scan_dir(s) ==
  LET m == sess[s] IN
  /\ At(s, "scan")
  /\ Set(s, Update(m, BytesOf(m.user) - m.sess_tally.bytes,
                   Cardinality(FilesOf(m.user)) - m.sess_tally.files, <<>>))
  /\ UNCHANGED <<table, qlock, elock, disk, config, commands, sum, odd>>

----------------------------------------------------------------------------
(* STOR *)

Exists(p) == disk[p] # None
Working(s) == ~Idle(s) /\ sess[s].path # None
InUse(p, s) == \E t \in Sessions \ {s} : Working(t) /\ sess[t].path = p
Removed(p) == [disk EXCEPT ![p] = None]

(* quotatab_pre_stor(), up to the refreshed tally *)
STOR(s) ==
  /\ Begin(s) /\ sess[s].use
  /\ \E p \in Paths :
       /\ Set(s, [sess[s] EXCEPT !.path = p, !.total = 0,
                                 !.todo = <<"rlock", "read", "check">>])
       /\ Odd("shared", InUse(p, s))
  /\ UNCHANGED <<table, qlock, elock, disk, config, sum>>

Reached(t) ==
  \/ bytes_in_avail > 0 /\ t.bytes >= bytes_in_avail
  \/ files_in_avail # 0 /\ t.files >= files_in_avail
Exceeded(t) == bytes_in_avail > 0 /\ t.bytes > bytes_in_avail

(* quotatab_pre_stor(): the command is refused, and POST_CMD_ERR handlers     *)
(* run, or the size of the file is kept for the POST_CMD handlers.            *)
quotatab_pre_stor(s) ==
  LET m == sess[s] IN
  /\ At(s, "check")
  /\ Set(s, IF Reached(m.sess_tally) THEN Todo(m, <<"stor_err">>)
            ELSE [m EXCEPT !.disk_nbytes = IF Exists(m.path) THEN disk[m.path].size ELSE 0,
                           !.todo = <<"transfer">>])
  /\ UNCHANGED <<table, qlock, elock, disk, config, commands, sum, odd>>

(* quotatab_fsio_write(), which is installed with a hard limit: the data is   *)
(* written first.                                                             *)
quotatab_fsio_write(m, n) ==
  hard /\ bytes_in_avail > 0 /\ m.sess_tally.bytes + n > bytes_in_avail

Foreign(m) == Exists(m.path) /\ disk[m.path].owner # m.user

(* The transfer: xfer_stor() fails to open the file, or writes n bytes to it  *)
(* and succeeds or fails.                                                     *)
xfer_stor(s) ==
  LET m == sess[s] IN
  /\ At(s, "transfer")
  /\ \/ Set(s, Todo(m, <<"stor_err">>)) /\ UNCHANGED <<disk, odd>>
     \/ \E n \in 0..MaxSize, ok \in BOOLEAN :
          /\ disk' = [disk EXCEPT ![m.path] =
                        [size |-> n, owner |-> IF @ = None THEN m.user ELSE @.owner]]
          /\ Set(s, [m EXCEPT !.total = n,
                              !.todo = <<IF ok /\ ~quotatab_fsio_write(m, n)
                                           THEN "stor" ELSE "stor_err">>])
          /\ odd' = odd \cup (IF n = 0 /\ ~ok THEN {"emptied"} ELSE {})
                         \cup (IF Foreign(m) THEN {"foreign"} ELSE {})
  /\ UNCHANGED <<table, qlock, elock, config, commands, sum>>

(* Mutant of StoreBytes: the whole size, also when overwriting.               *)
WholeUpload(m) == IF Exists(m.path) THEN disk[m.path].size ELSE 0

(* The difference in size that is to be added to the tally *)
StoreBytes(m) == IF Exists(m.path) THEN disk[m.path].size - m.disk_nbytes ELSE 0

(* quotatab_post_stor(), up to the update *)
quotatab_post_stor(s) ==
  LET m == sess[s]
      store == StoreBytes(m) IN
  /\ At(s, "stor")
  /\ Set(s, Update([m EXCEPT !.store = store], store,
                   IF m.disk_nbytes # 0 THEN 0 ELSE 1, <<"stor_limit">>))
  /\ UNCHANGED <<table, qlock, elock, disk, config, commands, sum, odd>>

(* Mutant of StorLimit: the removed file stays counted.                       *)
KeepsTally(s) ==
  LET m == sess[s]
      undo == hard /\ Exceeded(m.sess_tally) /\ Exists(m.path) IN
  /\ At(s, "stor_limit")
  /\ disk' = IF undo THEN Removed(m.path) ELSE disk
  /\ Set(s, Todo(m, <<>>))
  /\ Odd("undone", undo)
  /\ UNCHANGED <<table, qlock, elock, config, commands, sum>>

(* quotatab_post_stor(): an upload beyond a hard limit is removed, and taken  *)
(* back from the tally when it was there to be removed.                       *)
StorLimit(s) ==
  LET m == sess[s]
      undo == hard /\ Exceeded(m.sess_tally) /\ Exists(m.path) IN
  /\ At(s, "stor_limit")
  /\ disk' = IF undo THEN Removed(m.path) ELSE disk
  /\ Set(s, IF undo THEN Update(m, -m.store, -1, <<>>) ELSE Todo(m, <<>>))
  /\ Odd("undone", undo)
  /\ UNCHANGED <<table, qlock, elock, config, commands, sum>>

(* quotatab_post_stor_err(), up to the update if there is one *)
quotatab_post_stor_err(s) ==
  LET m == sess[s]
      store == IF m.total > 0 THEN StoreBytes(m) ELSE 0
      n == [m EXCEPT !.store = store] IN
  /\ At(s, "stor_err")
  /\ Set(s, IF store # 0 \/ m.total # 0 THEN Update(n, store, 0, <<"err_limit">>)
                                        ELSE Todo(n, <<"err_limit">>))
  /\ UNCHANGED <<table, qlock, elock, disk, config, commands, sum, odd>>

(* quotatab_post_stor_err(): beyond the limit the bytes are taken back, and   *)
(* with a hard limit the file is removed, also when the command was refused.  *)
ErrLimit(s) ==
  LET m == sess[s]
      undo == Exceeded(m.sess_tally) IN
  /\ At(s, "err_limit")
  /\ disk' = IF undo /\ hard THEN Removed(m.path) ELSE disk
  /\ Set(s, IF undo THEN Update(m, -m.store, 0, <<>>) ELSE Todo(m, <<>>))
  /\ Odd("undone", undo)
  /\ UNCHANGED <<table, qlock, elock, config, commands, sum>>

----------------------------------------------------------------------------
(* DELE *)

(* quotatab_pre_dele() *)
quotatab_pre_dele(s) ==
  /\ Begin(s) /\ sess[s].use
  /\ \E p \in Paths :
       /\ Set(s, [sess[s] EXCEPT !.path = p, !.dele_st = disk[p],
                    !.disk_nbytes = IF Exists(p) THEN disk[p].size ELSE 0,
                    !.todo = <<"unlink">>])
       /\ Odd("shared", InUse(p, s))
  /\ UNCHANGED <<table, qlock, elock, disk, config, sum>>

(* core_dele(): the file is removed, or POST_CMD_ERR handlers run, of which    *)
(* quotatab_post_dele_err() forgets the size.                                 *)
core_dele(s) ==
  LET m == sess[s]
      credits == Exists(m.path) /\ m.dele_st # None IN
  /\ At(s, "unlink")
  /\ \/ disk' = Removed(m.path) /\ Set(s, Todo(m, IF credits THEN <<"dele">> ELSE <<>>))
     \/ Set(s, Todo(m, <<>>)) /\ UNCHANGED disk
  /\ UNCHANGED <<table, qlock, elock, config, commands, sum, odd>>

(* quotatab_post_dele(): the bytes are credited to the owner of the file.     *)
quotatab_post_dele(s) ==
  LET m == sess[s]
      own == m.dele_st.owner = m.user IN
  /\ At(s, "dele")
  /\ Set(s, IF own THEN Update([m EXCEPT !.dele_st = None], -m.disk_nbytes, -1, <<>>)
            ELSE [m EXCEPT !.pos = 1, !.todo = <<"mutex", "lookup">>])
  /\ Odd("crossed", ~own)
  /\ UNCHANGED <<table, qlock, elock, disk, config, commands, sum>>

----------------------------------------------------------------------------
(* The end of a session *)

LeavesLocks(s) == Set(s, LoggedOut) /\ elock' = {l \in elock : l.by # s}

(* quotatab_exit_ev(): in mid-transfer the bytes so far are added, and a file.*)
quotatab_exit_ev(s) ==
  LET m == sess[s] IN
  /\ m.user # None
  /\ \/ Idle(s) /\ LeavesLocks(s) /\ UNCHANGED <<odd, disk>>
     \/ /\ At(s, "transfer")
        /\ \E n \in 0..MaxSize :
             /\ disk' = [disk EXCEPT ![m.path] =
                           [size |-> n, owner |-> IF @ = None THEN m.user ELSE @.owner]]
             /\ Set(s, Update([m EXCEPT !.total = n], n, 1, <<"exit">>))
        /\ Odd("cut", TRUE)
        /\ UNCHANGED elock
     \/ At(s, "exit") /\ LeavesLocks(s) /\ UNCHANGED <<odd, disk>>
  /\ UNCHANGED <<table, qlock, config, commands, sum>>

Next ==
  \E s \in Sessions :
    \/ quotatab_mutex_lock(s) \/ quotatab_rlock(s) \/ quotatab_wlock(s)
    \/ quotatab_read(s) \/ Reread(s) \/ quotatab_write(s)
    \/ quotatab_post_pass(s) \/ filetab_lookup(s) \/ filetab_create(s)
    \/ quotatab_scan_dir(s)
    \/ STOR(s) \/ quotatab_pre_stor(s) \/ xfer_stor(s)
    \/ quotatab_post_stor(s) \/ StorLimit(s)
    \/ quotatab_post_stor_err(s) \/ ErrLimit(s)
    \/ quotatab_pre_dele(s) \/ core_dele(s) \/ quotatab_post_dele(s)
    \/ quotatab_exit_ev(s)

Spec == Init /\ [][Next]_vars

----------------------------------------------------------------------------
(* Properties *)

Calls == {"mutex", "lookup", "rlock", "read", "check", "transfer", "stor", "stor_limit",
          "stor_err", "err_limit", "wlock", "reread", "write", "create", "scan",
          "unlink", "dele", "exit"}
Session ==
  [todo: Seq(Calls), user: Users \cup {None}, use: BOOLEAN, pos: Offsets,
   rlock: 0..1, wlock: 0..1,
   sess_tally: Tally \cup {None}, dele_tally: Tally \cup {None}, arg: {"sess", "dele"},
   inc: Increment, path: Paths \cup {None}, disk_nbytes: 0..MaxSize, total: 0..MaxSize,
   store: Int, dele_st: File \cup {None}]

(* Types: no counter of a tally is negative, as quotatab_write() intends.     *)
TypeOK ==
  /\ table \in Seq(Tally) /\ Len(table) <= 2 * MaxCommands
  /\ qlock \in Sessions \cup {None}
  /\ \A l \in elock : l \in [by: Sessions, pos: Offsets, type: {"r", "w"}]
  /\ disk \in [Paths -> File \cup {None}]
  /\ sess \in [Sessions -> Session]
  /\ hard \in BOOLEAN /\ scan \in BOOLEAN /\ commands \in 0..MaxCommands
  /\ sum \in [Users -> Tally]
  /\ odd \subseteq Oddities

(* Types are right, so that no counter is negative, and no update is lost: a  *)
(* record holds what all updates of it add up to, each read, changed and      *)
(* written under the writer's lock, as long as QuotaLock was had when records *)
(* were created and nobody deleted files of others (filetab_wlock(),          *)
(* quotatab_write()).                                                         *)
NoLostUpdate ==
  /\ TypeOK
  /\ odd \cap {"gaveup", "crossed"} = {} =>
       \A i \in DOMAIN table : table[i] = sum[table[i].name]

(* A user has one record, however many sessions log in for the first time at  *)
(* once: the lookup and the creation are made under QuotaLock.                *)
OneRecordEach ==
  odd \cap {"gaveup", "crossed"} = {} =>
    \A i, j \in DOMAIN table : table[i].name = table[j].name => i = j

AtRest == \A s \in Sessions : Idle(s)

(* Once no command is in progress no user is beyond a hard limit: whoever     *)
(* brought the tally beyond it took the upload back.                          *)
HardLimitAtRest ==
  (AtRest /\ hard /\ ~scan /\ odd \subseteq {"foreign", "undone", "emptied"}) =>
    \A i \in DOMAIN table : ~Exceeded(table[i])

(* Once no command is in progress a tally is the size of the user's files, if *)
(* no upload had to be taken back: sizes are counted as differences, and      *)
(* the scan of ScanOnLogin finds what the tally says.                         *)
TallyMatchesDisk ==
  (AtRest /\ odd = {}) => \A i \in DOMAIN table : table[i].bytes = BytesOf(table[i].name)

(* The owner of a deleted file is given the credit for its bytes, as a        *)
(* comment in quotatab_post_dele() has it: when nothing else was unusual and  *)
(* no command is in progress, a tally has no bytes of files that are gone.    *)
OwnerCredited ==
  (AtRest /\ odd \subseteq {"crossed"}) =>
    \A i \in DOMAIN table : table[i].bytes <= BytesOf(table[i].name)
=============================================================================
