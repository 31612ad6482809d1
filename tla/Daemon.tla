------------------------------ MODULE Daemon ------------------------------
(***************************************************************************)
(* The standalone daemon (src/main.c, src/child.c): the loop that accepts  *)
(* connections and forks a child for each, the list of children, and the   *)
(* signals SIGCHLD, SIGTERM, SIGHUP and SIGUSR1.                           *)
(*                                                                         *)
(* Children are numbered in the order in which they are forked; process    *)
(* IDs are used again as soon as a child has been waited for.  As          *)
(* child_add() inserts at the head, the list is in the order of falling    *)
(* numbers, so it is kept as a set.  A child holds the write end of its    *)
(* semaphore pipe up to a point of its start, so the pipe is readable once *)
(* the child is past that point or has ended.                              *)
(*                                                                         *)
(* SIGCHLD is handled when it arrives; each step of handle_chld() waits    *)
(* for one child.  The other signals set a flag, which the process looks   *)
(* at in pr_signals_handle().                                              *)
(***************************************************************************)
EXTENDS Naturals, FiniteSets

CONSTANTS
  Pids,              \* process IDs
  MaxForks,          \* bound on the children forked
  MaxRestarts,       \* bound on the SIGHUPs sent
  ServerMaxInstances,\* MaxInstances, 0 is no limit
  max_connects,      \* MaxConnectionRate, 0 is no limit
  ShutTimes          \* bound: what ftpshut may announce

ASSUME DaemonAssumption ==
  /\ MaxForks \in Nat
  /\ MaxRestarts \in Nat
  /\ ServerMaxInstances \in Nat
  /\ max_connects \in Nat
  /\ ShutTimes \subseteq {"ahead", "passed"}

VARIABLES
  pc,               \* where the master is, "gone" after its end
  child_list,       \* the entries of the list, by the number of the child
  ch_dead,          \* those marked as dead
  ch_pipefd,        \* those whose pipe the master has not closed
  child_listlen,    \* the counter behind child_count()
  have_dead_child,
  readfds,          \* pipes in the fd_set of select()
  conn,             \* whether a listening socket is in it
  res,              \* what select() returned
  nconnects,        \* children counted against max_connects
  flags,            \* recvd_signal_flags of the master
  sched,            \* core_restart_cb is scheduled
  hups,             \* SIGHUPs sent
  binds,            \* calls of init_bindings() after the first
  shutmsg,          \* the file: absent, its disconnect time ahead, or passed
  shutdownp,
  forks,            \* children forked
  pid,              \* process ID of each
  st,               \* how far each has come
  asked,            \* signals each has yet to act on
  failed            \* select() has failed

mvars == <<child_list, ch_dead, ch_pipefd, child_listlen,
           have_dead_child, readfds, conn, res, nconnects>>
svars == <<flags, sched, hups, binds, shutmsg, shutdownp, failed>>
cvars == <<forks, pid, st, asked>>
vars == <<pc, mvars, svars, cvars>>

Ids == 1..MaxForks

\* A child has inherited the listening sockets, has closed them, has installed
\* its handler of SIGUSR1, and has closed its end of the semaphore pipe.
Alive == {"forked", "closed", "ready", "run"}

Exists(c) == st[c] \in Alive \cup {"zombie"}
Unreaped == {c \in Ids : Exists(c)}

TypeOK ==
  /\ pc \in {"top", "wait", "select", "eintr", "clean", "tally", "handle",
             "accept", "add", "gone"}
  /\ child_list \subseteq Ids
  /\ ch_dead \subseteq child_list
  /\ ch_pipefd \subseteq child_list
  /\ child_listlen \in 0..MaxForks
  /\ have_dead_child \in BOOLEAN
  /\ readfds \subseteq Ids
  /\ conn \in BOOLEAN
  /\ res \in {"ready", "timeout", "error"}
  /\ nconnects \in 1..(MaxForks + 1)
  /\ flags \subseteq {"TERM", "HUP"}
  /\ sched \in BOOLEAN
  /\ hups \in 0..MaxRestarts
  /\ binds \in 0..MaxRestarts
  /\ shutmsg \in {"absent", "ahead", "passed"}
  /\ shutdownp \in BOOLEAN
  /\ forks \in 0..MaxForks
  /\ pid \in [Ids -> Pids \cup {0}]
  /\ st \in [Ids -> Alive \cup {"none", "zombie", "reaped"}]
  /\ asked \in [Ids -> SUBSET {"TERM", "IGN", "USR1"}]
  /\ failed \in BOOLEAN

Init ==
  /\ pc = "top"
  /\ child_list = {} /\ ch_dead = {} /\ ch_pipefd = {}
  /\ child_listlen = 0
  /\ have_dead_child = FALSE
  /\ readfds = {} /\ conn = FALSE /\ res = "timeout" /\ nconnects = 1
  /\ flags = {} /\ sched = FALSE /\ hups = 0 /\ binds = 0
  /\ shutmsg = "absent" /\ shutdownp = FALSE
  /\ forks = 0
  /\ pid = [c \in Ids |-> 0]
  /\ st = [c \in Ids |-> "none"]
  /\ asked = [c \in Ids |-> {}]
  /\ failed = FALSE

-----------------------------------------------------------------------------
\* The list of children.

\* Mutant of FirstWith: the oldest entry with the process ID.
LastWith(p) ==
  {c \in child_list : pid[c] = p /\ \A d \in child_list : pid[d] = p => c <= d}

\* The entry child_remove() comes to first: the latest one with that ID.
FirstWith(p) ==
  {c \in child_list : pid[c] = p /\ \A d \in child_list : pid[d] = p => d <= c}

child_remove(p) ==
  /\ ch_dead' = ch_dead \cup FirstWith(p)
  /\ child_listlen' = IF FirstWith(p) = {} THEN child_listlen
                      ELSE child_listlen - 1
  /\ have_dead_child' = (have_dead_child \/ FirstWith(p) # {})

\* child_signal() does not look at ch_dead.  A signal has no effect on a process
\* that has ended.  SIGTERM sets a flag and is ignored from then on, which a
\* child that is forked later inherits along with the flag.  SIGUSR1 ends a
\* child that has no handler yet.
Targets == {c \in Ids : st[c] \in Alive /\ \E d \in child_list : pid[d] = pid[c]}

Terminated == [c \in Ids |-> IF c \in Targets /\ "IGN" \notin asked[c]
                             THEN asked[c] \cup {"TERM", "IGN"} ELSE asked[c]]

Killed == {c \in Targets : st[c] \in {"forked", "closed"}}

Disconnected == [c \in Ids |-> IF c \in Targets \ Killed
                               THEN asked[c] \cup {"USR1"} ELSE asked[c]]

child_update ==
  /\ child_list' = child_list \ ch_dead
  /\ ch_dead' = {}
  /\ ch_pipefd' = ch_pipefd \ ch_dead
  /\ child_listlen' = IF child_list' = {} THEN 0 ELSE child_listlen

\* Mutant of semaphore_fds: off by one.
SemaphoreFdsOfMany == IF child_listlen <= 1 THEN {} ELSE ch_pipefd

\* The pipes that are put into an fd_set, and which of them are readable.
semaphore_fds == IF child_listlen = 0 THEN {} ELSE ch_pipefd

Readable(pipes) == {c \in pipes : st[c] \notin {"forked", "closed", "ready"}}

-----------------------------------------------------------------------------
\* The loop.

\* disc_children(), if the file is seen for the first time.
disc_children ==
  IF ~shutdownp /\ shutmsg = "passed" /\ child_listlen > 0
  THEN /\ asked' = Disconnected
       /\ st' = [c \in Ids |-> IF c \in Killed THEN "zombie" ELSE st[c]]
  ELSE UNCHANGED <<asked, st>>

\* The variables of one round of the loop, which end with it.
EndRound ==
  /\ readfds' = {} /\ conn' = FALSE /\ res' = "timeout" /\ nconnects' = 1

\* The end of the master, and of all that it has in memory.
MasterEnds ==
  /\ pc' = "gone"
  /\ child_list' = {} /\ ch_dead' = {} /\ ch_pipefd' = {}
  /\ child_listlen' = 0 /\ have_dead_child' = FALSE
  /\ EndRound
  /\ flags' = {} /\ sched' = FALSE /\ shutdownp' = FALSE

\* From the top of the loop to select().
LoopTop ==
  /\ pc = "top" /\ ~sched
  /\ readfds' = semaphore_fds
  /\ disc_children
  /\ shutdownp' = (shutmsg # "absent")
  /\ pc' = "select"
  /\ UNCHANGED <<child_list, ch_dead, ch_pipefd, child_listlen,
                 have_dead_child, conn, res, nconnects, flags, sched, hups,
                 binds, shutmsg, failed, forks, pid>>

\* select() returns the readable pipes and sockets.
SelectReady ==
  /\ pc = "select"
  /\ conn' \in BOOLEAN
  /\ readfds' = Readable(readfds)
  /\ conn' \/ readfds' # {}
  /\ res' = "ready"
  /\ pc' = "clean"
  /\ UNCHANGED <<child_list, ch_dead, ch_pipefd, child_listlen,
                 have_dead_child, nconnects, svars, cvars>>

SelectTimeout ==
  /\ pc = "select"
  /\ Readable(readfds) = {}
  /\ EndRound
  /\ pc' = "clean"
  /\ UNCHANGED <<child_list, ch_dead, ch_pipefd, child_listlen,
                 have_dead_child, svars, cvars>>

\* A signal, if only SIGALRM, interrupts select().
SelectEintr ==
  /\ pc = "select"
  /\ pc' = "eintr"
  /\ EndRound
  /\ UNCHANGED <<child_list, ch_dead, ch_pipefd, child_listlen,
                 have_dead_child, svars, cvars>>

\* When it fails, select() leaves the sets as they were.
SelectError ==
  /\ pc = "select"
  /\ res' = "error"
  /\ failed' = TRUE
  /\ conn' = TRUE
  /\ pc' = "clean"
  /\ UNCHANGED <<child_list, ch_dead, ch_pipefd, child_listlen,
                 have_dead_child, readfds, nconnects, flags, sched, hups,
                 binds, shutmsg, shutdownp, cvars>>

\* Mutant of CleanList: only when select() was interrupted.
CleanListOnEvent ==
  /\ pc = "clean"
  /\ IF have_dead_child /\ res # "timeout" THEN child_update
     ELSE UNCHANGED <<child_list, ch_dead, ch_pipefd, child_listlen>>
  /\ have_dead_child' = FALSE
  /\ pc' = IF res = "timeout" THEN "top" ELSE "tally"
  /\ UNCHANGED <<readfds, conn, res, nconnects, svars, cvars>>

\* After select() the list is cleaned, with SIGCHLD and SIGTERM blocked.
CleanList ==
  /\ pc = "clean"
  /\ IF have_dead_child THEN child_update
     ELSE UNCHANGED <<child_list, ch_dead, ch_pipefd, child_listlen>>
  /\ have_dead_child' = FALSE
  /\ pc' = IF res = "timeout" THEN "top" ELSE "tally"
  /\ UNCHANGED <<readfds, conn, res, nconnects, svars, cvars>>

\* The walk over the list for pipes and for MaxConnectionRate; how many
\* children were forked within the last interval is left open.
Tally ==
  /\ pc = "tally"
  /\ IF child_listlen > 0
     THEN /\ ch_pipefd' = ch_pipefd \ readfds
          /\ nconnects' \in IF max_connects = 0 THEN {1}
                           ELSE 1..(1 + Cardinality(child_list))
     ELSE UNCHANGED <<ch_pipefd, nconnects>>
  /\ readfds' = {}
  /\ pc' = "handle"
  /\ UNCHANGED <<child_list, ch_dead, child_listlen, have_dead_child,
                 conn, res, svars, cvars>>

\* select() has failed again and again within a few seconds: the master exits,
\* and leaves its children alone.
SelectFatal ==
  /\ pc = "tally" /\ res = "error"
  /\ MasterEnds
  /\ UNCHANGED <<hups, binds, shutmsg, failed, cvars>>

\* pr_signals_handle(), in a pass with these flags: SIGTERM ends the master,
\* SIGHUP has a restart scheduled.
HandleTerm ==
  /\ pc \in {"eintr", "handle"}
  /\ "TERM" \in flags
  /\ asked' = IF child_listlen > 0 THEN Terminated ELSE asked
  /\ MasterEnds
  /\ UNCHANGED <<hups, binds, shutmsg, failed, forks, pid, st>>

\* Mutant of HandleOthers: SIGHUP is forgotten.
HandleDropHup ==
  /\ pc \in {"eintr", "handle"}
  /\ "TERM" \notin flags
  /\ sched' = sched
  /\ flags' = {}
  /\ IF pc = "eintr" \/ res = "error"
     THEN pc' = "top" /\ EndRound
     ELSE pc' = "accept" /\ UNCHANGED <<readfds, conn, res, nconnects>>
  /\ UNCHANGED <<child_list, ch_dead, ch_pipefd, child_listlen,
                 have_dead_child, hups, binds, shutmsg, shutdownp, failed, cvars>>

HandleOthers ==
  /\ pc \in {"eintr", "handle"}
  /\ "TERM" \notin flags
  /\ sched' = (sched \/ "HUP" \in flags)
  /\ flags' = {}
  /\ IF pc = "eintr" \/ res = "error"
     THEN pc' = "top" /\ EndRound
     ELSE pc' = "accept" /\ UNCHANGED <<readfds, conn, res, nconnects>>
  /\ UNCHANGED <<child_list, ch_dead, ch_pipefd, child_listlen,
                 have_dead_child, hups, binds, shutmsg, shutdownp, failed, cvars>>

\* Mutant of OverInstances: off by one.
OverInstancesLax ==
  ServerMaxInstances > 0 /\ child_listlen > ServerMaxInstances

OverInstances ==
  ServerMaxInstances > 0 /\ child_listlen >= ServerMaxInstances

OverRate == max_connects > 0 /\ nconnects > max_connects

\* Nothing to accept, a connection that is closed because of a limit, or one
\* for which pipe() or fork() fails.
AcceptNone ==
  /\ pc = "accept"
  /\ pc' = "top"
  /\ EndRound
  /\ UNCHANGED <<child_list, ch_dead, ch_pipefd, child_listlen,
                 have_dead_child, svars, cvars>>

\* Mutant of Inherited: the child starts with no flag set.
InheritedNoFlag == IF "TERM" \in flags THEN {"IGN"} ELSE {}

Inherited == IF "TERM" \in flags THEN {"TERM", "IGN"} ELSE {}

\* fork_server() up to fork().  SIGCHLD, SIGTERM and SIGUSR1 are blocked from
\* before fork() until after child_add().
Fork ==
  /\ pc = "accept"
  /\ conn /\ ~OverInstances /\ ~OverRate
  /\ forks < MaxForks
  /\ forks' = forks + 1
  /\ \E p \in Pids \ {pid[c] : c \in Unreaped} :
       pid' = [pid EXCEPT ![forks + 1] = p]
  /\ st' = [st EXCEPT ![forks + 1] = "forked"]
  /\ asked' = [asked EXCEPT ![forks + 1] = Inherited]
  /\ pc' = "add"
  /\ EndRound
  /\ UNCHANGED <<child_list, ch_dead, ch_pipefd, child_listlen,
                 have_dead_child, svars>>

child_add ==
  /\ pc = "add"
  /\ child_list' = child_list \cup {forks}
  /\ ch_pipefd' = ch_pipefd \cup {forks}
  /\ child_listlen' = child_listlen + 1
  /\ pc' = "top"
  /\ UNCHANGED <<ch_dead, have_dead_child, readfds, conn, res, nconnects,
                 svars, cvars>>

-----------------------------------------------------------------------------
\* Restart.

RestartBegin ==
  /\ pc = "top" /\ sched
  /\ sched' = FALSE
  /\ pc' = "wait"
  /\ UNCHANGED <<mvars, flags, hups, binds, shutmsg, shutdownp, failed, cvars>>

\* One round of the loop that waits for children to start up.
RestartWait ==
  /\ pc = "wait"
  /\ Readable(semaphore_fds) # {}
  /\ ch_pipefd' = ch_pipefd \ Readable(semaphore_fds)
  /\ UNCHANGED <<pc, child_list, ch_dead, child_listlen,
                 have_dead_child, readfds, conn, res, nconnects, svars, cvars>>

\* The configuration is read, and sockets are bound again, or it has an error
\* and the daemon ends.
RestartBind ==
  /\ pc = "wait"
  /\ semaphore_fds = {}
  /\ binds' = binds + 1
  /\ \/ pc' = "top" /\ UNCHANGED <<mvars, flags, sched, shutdownp>>
     \/ MasterEnds
  /\ UNCHANGED <<hups, shutmsg, failed, cvars>>

-----------------------------------------------------------------------------
\* Signals of the master.

Blocked == pc = "add"

handle_chld ==
  /\ pc # "gone" /\ ~Blocked
  /\ \E c \in Ids :
       /\ st[c] = "zombie"
       /\ st' = [st EXCEPT ![c] = "reaped"]
       /\ child_remove(pid[c])
  /\ UNCHANGED <<pc, child_list, ch_pipefd, readfds, conn, res,
                 nconnects, svars, forks, pid, asked>>

sig_terminate ==
  /\ pc # "gone" /\ ~Blocked
  /\ "TERM" \notin flags
  /\ flags' = flags \cup {"TERM"}
  /\ UNCHANGED <<pc, mvars, sched, hups, binds, shutmsg, shutdownp, failed,
                 cvars>>

sig_restart ==
  /\ pc # "gone" /\ hups < MaxRestarts
  /\ hups' = hups + 1
  /\ flags' = flags \cup {"HUP"}
  /\ UNCHANGED <<pc, mvars, sched, binds, shutmsg, shutdownp, failed, cvars>>

-----------------------------------------------------------------------------
\* The children, and the file that ftpshut writes.

\* fork_server() in the child: listening sockets, signals, semaphore pipe.
ChildStart(c) ==
  /\ st[c] \in {"forked", "closed", "ready"}
  /\ st' = [st EXCEPT ![c] = CASE st[c] = "forked" -> "closed"
                               [] st[c] = "closed" -> "ready"
                               [] st[c] = "ready" -> "run"]
  /\ UNCHANGED <<pc, mvars, svars, forks, pid, asked>>

ChildEnds(c) ==
  /\ st' = [st EXCEPT ![c] = "zombie"]
  /\ asked' = [asked EXCEPT ![c] = {}]
  /\ UNCHANGED <<pc, mvars, svars, forks, pid>>

\* The many ways in which a session ends by itself.
ChildExit(c) ==
  /\ st[c] \in Alive
  /\ ChildEnds(c)

\* pr_signals_handle() in the child.
ChildTerminate(c) ==
  /\ st[c] \in Alive /\ "TERM" \in asked[c]
  /\ ChildEnds(c)

\* The child's answer to SIGUSR1: it looks at the file again, and without it
\* goes on with the handler in place.
shutdown_exit(c) ==
  /\ st[c] \in Alive /\ "USR1" \in asked[c]
  /\ IF shutmsg = "absent"
     THEN /\ asked' = [asked EXCEPT ![c] = @ \ {"USR1"}]
          /\ UNCHANGED <<pc, mvars, svars, forks, pid, st>>
     ELSE ChildEnds(c)

\* The system waits for children whose parent has gone.
Orphaned(c) ==
  /\ pc = "gone" /\ st[c] = "zombie"
  /\ st' = [st EXCEPT ![c] = "reaped"]
  /\ UNCHANGED <<pc, mvars, svars, forks, pid, asked>>

Ftpshut ==
  /\ shutmsg' \in (ShutTimes \cup {"absent"}) \ {shutmsg}
  /\ UNCHANGED <<pc, mvars, flags, sched, hups, binds, shutdownp, failed, cvars>>

-----------------------------------------------------------------------------
Master ==
  \/ LoopTop \/ CleanList \/ Tally \/ HandleTerm \/ HandleOthers
  \/ AcceptNone \/ Fork \/ child_add
  \/ RestartBegin \/ RestartWait \/ RestartBind

Child(c) ==
  ChildStart(c) \/ ChildTerminate(c) \/ shutdown_exit(c) \/ Orphaned(c)

Next ==
  \/ Master
  \/ SelectReady \/ SelectTimeout \/ SelectEintr \/ SelectError \/ SelectFatal
  \/ handle_chld \/ sig_terminate \/ sig_restart
  \/ \E c \in Ids : Child(c) \/ ChildExit(c)
  \/ Ftpshut

Spec == Init /\ [][Next]_vars

\* Processes run, SIGCHLD is delivered, and of the calls of select() some end by
\* themselves and some with SIGALRM, as the scrub timer goes on for ever.
Fairness ==
  /\ WF_vars(Master)
  /\ SF_vars(SelectReady \/ SelectTimeout)
  /\ SF_vars(SelectEintr)
  /\ WF_vars(handle_chld)
  /\ \A c \in Ids : WF_vars(Child(c))

FairSpec == Spec /\ Fairness

-----------------------------------------------------------------------------
\* The entries that are not marked dead are the children that were not waited
\* for, and child_count() is their number: no child that ends at once, and no
\* process ID that is used again before the list is cleaned, makes
\* fork_server() and handle_chld() disagree about them.
ListIsChildren ==
  /\ child_list \ ch_dead =
       CASE pc = "add" -> Unreaped \ {forks}
         [] pc = "gone" -> {}
         [] OTHER -> Unreaped
  /\ child_listlen = Cardinality(child_list \ ch_dead)

\* daemon_loop() never has more children than MaxInstances.
MaxInstancesEnforced ==
  ServerMaxInstances > 0 => Cardinality(Unreaped) <= ServerMaxInstances

\* core_restart_cb() binds sockets only when no child that was forked before
\* still has the old ones open, which is what the semaphore pipes are for.
\* The exception is a select() that failed in daemon_loop(): it leaves all bits
\* set, and the pipes are closed unread.
RebindWithoutHolders ==
  [][binds' # binds /\ ~failed => \A c \in Ids : st[c] # "forked"]_vars

\* SIGTERM stops the daemon and all of its children, also one that was being
\* forked when it came, unless a restart or a failing
\* select() has ended the daemon without them.
TermStopsAll ==
  "TERM" \in flags ~> (pc = "gone" /\ (binds > 0 \/ failed \/ \A c \in Ids : ~Exists(c)))

\* A child that has ended is waited for and its entry leaves the list: neither
\* SIGCHLD nor have_dead_child is lost.
EndedChildForgotten ==
  \A c \in Ids : st[c] = "zombie" ~> st[c] = "reaped" /\ c \notin child_list

\* A SIGHUP is followed by a restart, unless the daemon ends.
RestartHappens == "HUP" \in flags ~> pc \in {"wait", "gone"}
=============================================================================
