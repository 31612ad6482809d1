---------------------------- MODULE DaemonProofs ----------------------------
(***************************************************************************)
(* For any number of children, process IDs, restarts and any limits: the   *)
(* list of children is right, MaxInstances holds, and a restart binds no   *)
(* socket that a child has yet to close.                                   *)
(***************************************************************************)
EXTENDS Daemon, FiniteSetTheorems, TLAPS

\* Children are forked in the order of their numbers, dead entries are of
\* children that were waited for, and a process ID is used again only then.
Numbered == \A c \in Ids : st[c] = "none" <=> c > forks
DeadReaped == \A c \in ch_dead : st[c] = "reaped"
PidOrder == \A c, d \in Ids : c < d /\ d <= forks /\ pid[c] = pid[d] => st[c] = "reaped"

\* Between fork() and child_add() there is a child that is not on the list.
AddRoom == pc = "add" => /\ forks \in Ids /\ Exists(forks)
                         /\ ServerMaxInstances > 0 => child_listlen < ServerMaxInstances

\* What a successful select() says of a pipe stays true, so a pipe is open as
\* long as its child has not closed its listening sockets.
ReadyPipes == ~failed /\ pc \in {"clean", "tally"} =>
                \A c \in readfds : st[c] \notin {"forked", "closed", "ready"}
Semaphores == ~failed => \A c \in Ids : st[c] = "forked" =>
                c \in ch_pipefd \/ pc = "gone" \/ (pc = "add" /\ c = forks)

\* Every SIGHUP leads to at most one call of init_bindings().
Once(b) == IF b THEN 1 ELSE 0
Restarts == binds + Once("HUP" \in flags) + Once(sched) + Once(pc = "wait") <= hups

LInv == Numbered /\ DeadReaped /\ PidOrder /\ AddRoom /\ ListIsChildren /\ MaxInstancesEnforced
PInv == ReadyPipes /\ Semaphores
DInv == TypeOK /\ LInv /\ PInv /\ Restarts

\* Sets of children are finite, so that they can be counted.
LEMMA Finite ==
  /\ IsFiniteSet(Ids)
  /\ \A S \in SUBSET Ids : IsFiniteSet(S) /\ Cardinality(S) \in 0..MaxForks
<1>1. IsFiniteSet(Ids) /\ Cardinality(Ids) = MaxForks
  BY FS_Interval, DaemonAssumption DEF Ids
<1>2. ASSUME NEW S \in SUBSET Ids
      PROVE  IsFiniteSet(S) /\ Cardinality(S) \in 0..MaxForks
  BY <1>1, FS_Subset, FS_CardinalityType, DaemonAssumption
<1> QED BY <1>1, <1>2

\* The daemon starts with an empty list, in the first round of its loop.
LEMMA DInit == Init => DInv
<1> SUFFICES ASSUME Init PROVE DInv
  OBVIOUS
<1>1. Unreaped = {}
  BY DEF Init, Unreaped, Exists, Alive
<1>2. TypeOK
  <2>1. /\ pid \in [Ids -> Pids \cup {0}] /\ asked \in [Ids -> SUBSET {"TERM", "IGN", "USR1"}]
        /\ st \in [Ids -> Alive \cup {"none", "zombie", "reaped"}]
    BY DEF Init
  <2>2. /\ child_listlen \in 0..MaxForks /\ nconnects \in 1..(MaxForks + 1)
        /\ hups \in 0..MaxRestarts /\ binds \in 0..MaxRestarts /\ forks \in 0..MaxForks
    BY DaemonAssumption DEF Init
  <2> QED BY <2>1, <2>2, Zenon DEF Init, TypeOK
<1>3. ListIsChildren /\ MaxInstancesEnforced
  BY <1>1, FS_EmptySet, DaemonAssumption DEF Init, ListIsChildren, MaxInstancesEnforced
<1>4. Numbered /\ DeadReaped /\ PidOrder /\ AddRoom
  BY DaemonAssumption DEF Init, Numbered, DeadReaped, PidOrder, AddRoom, Ids
<1>5. PInv /\ Restarts
  BY DEF Init, PInv, ReadyPipes, Semaphores, Restarts, Once
<1> QED BY <1>2, <1>3, <1>4, <1>5 DEF DInv, LInv

-----------------------------------------------------------------------------
\* A step that neither changes the list, nor forks or waits for a child, nor
\* ends the master.
LEMMA ListKept ==
  ASSUME TypeOK, LInv,
         UNCHANGED <<child_list, ch_dead, child_listlen, forks, pid>>,
         \A c \in Ids : st'[c] = st[c] \/ (st[c] \in Alive /\ st'[c] \in Alive \cup {"zombie"}),
         pc' = "add" <=> pc = "add", pc' = "gone" <=> pc = "gone"
  PROVE  LInv'
<1> USE DEF LInv
<1>1. \A c \in Ids : /\ Exists(c)' <=> Exists(c)
                     /\ st'[c] = "none" <=> st[c] = "none"
                     /\ st'[c] = "reaped" <=> st[c] = "reaped"
  BY DEF Exists, Alive
<1>2. Unreaped' = Unreaped
  BY <1>1 DEF Unreaped
<1>3. Numbered' /\ DeadReaped' /\ PidOrder'
  BY <1>1 DEF TypeOK, Numbered, DeadReaped, PidOrder
<1>4. AddRoom'
  BY <1>1 DEF AddRoom
<1>5. ListIsChildren' /\ MaxInstancesEnforced'
  BY <1>2 DEF ListIsChildren, MaxInstancesEnforced
<1> QED BY <1>3, <1>4, <1>5

\* Dropping the dead entries forgets nobody who is still to be waited for.
LEMMA CleanListKeeps ==
  ASSUME TypeOK, LInv, CleanList
  PROVE  LInv'
<1> USE DEF LInv
<1>1. CASE ~have_dead_child
  BY <1>1, ListKept DEF CleanList, cvars
<1>2. CASE have_dead_child
  <2>1. /\ child_list' = child_list \ ch_dead /\ ch_dead' = {} /\ pc' \notin {"add", "gone"}
        /\ child_listlen' = IF child_list' = {} THEN 0 ELSE child_listlen
        /\ pc = "clean" /\ UNCHANGED <<forks, pid, st>>
    BY <1>2 DEF CleanList, child_update, cvars
  <2>2. Unreaped' = Unreaped
    BY <2>1 DEF Unreaped, Exists
  <2>3. Numbered' /\ DeadReaped' /\ PidOrder' /\ AddRoom'
    BY <2>1 DEF Numbered, DeadReaped, PidOrder, AddRoom
  <2>4. child_list' \ ch_dead' = Unreaped /\ child_listlen = Cardinality(Unreaped)
    BY <2>1 DEF ListIsChildren
  <2>5. child_listlen' = Cardinality(child_list' \ ch_dead')
    BY <2>1, <2>4, FS_EmptySet
  <2>6. ListIsChildren' /\ MaxInstancesEnforced'
    BY <2>1, <2>2, <2>4, <2>5 DEF ListIsChildren, MaxInstancesEnforced
  <2> QED BY <2>3, <2>6
<1> QED BY <1>1, <1>2

\* The master ends, as HandleTerm, SelectFatal and RestartBind have it.
LEMMA MasterEndsKeeps ==
  ASSUME TypeOK, LInv, MasterEnds, UNCHANGED <<forks, pid, st>>
  PROVE  LInv'
<1> USE DEF LInv, MasterEnds
<1>1. Unreaped' = Unreaped
  BY DEF Unreaped, Exists
<1>2. Numbered' /\ DeadReaped' /\ PidOrder' /\ AddRoom'
  BY DEF Numbered, DeadReaped, PidOrder, AddRoom
<1>3. ListIsChildren' /\ MaxInstancesEnforced'
  BY <1>1, FS_EmptySet DEF ListIsChildren, MaxInstancesEnforced
<1> QED BY <1>2, <1>3

\* fork(): a process that the list does not have yet.
LEMMA ForkKeeps ==
  ASSUME TypeOK, LInv, Fork
  PROVE  LInv'
<1> USE DaemonAssumption DEF LInv
<1>1. PICK p \in Pids \ {pid[c] : c \in Unreaped} : pid' = [pid EXCEPT ![forks + 1] = p]
  BY Zenon DEF Fork
<1>2. /\ forks + 1 \in Ids /\ forks' = forks + 1 /\ pc = "accept" /\ pc' = "add"
      /\ st' = [st EXCEPT ![forks + 1] = "forked"]
      /\ UNCHANGED <<child_list, ch_dead, child_listlen>>
  BY DEF Fork, TypeOK, Ids
<1>3. st[forks + 1] = "none"
  BY <1>2 DEF Numbered, TypeOK
<1>4. Unreaped' = Unreaped \cup {forks'} /\ forks' \notin Unreaped
  BY <1>2, <1>3 DEF Unreaped, Exists, Alive, TypeOK
<1>5. Numbered'
  BY <1>2, <1>3 DEF Numbered, TypeOK, Ids
<1>6. DeadReaped'
  BY <1>2, <1>3 DEF DeadReaped, TypeOK
<1>7. PidOrder'
  <2> SUFFICES ASSUME NEW c \in Ids, NEW d \in Ids, c < d, d <= forks + 1, pid'[c] = pid'[d]
               PROVE  st'[c] = "reaped"
    BY <1>2 DEF PidOrder
  <2>1. c # forks + 1 /\ c <= forks
    BY DEF TypeOK, Ids
  <2>2. CASE d = forks + 1
    <3>1. pid[c] = p
      BY <2>1, <2>2, <1>1, <1>2 DEF TypeOK
    <3>2. c \notin Unreaped
      BY <3>1, <1>1
    <3>3. st[c] \notin {"none", "zombie"} \cup Alive
      BY <3>2, <2>1 DEF Unreaped, Exists, Numbered, Ids, TypeOK
    <3>4. st'[c] = st[c]
      BY <1>2, <2>1 DEF TypeOK
    <3> QED BY <3>3, <3>4 DEF TypeOK
  <2>3. CASE d # forks + 1
    BY <2>1, <2>3, <1>1, <1>2, SMTT(30) DEF PidOrder, TypeOK, Ids
  <2> QED BY <2>2, <2>3
<1>8. child_list \ ch_dead = Unreaped /\ child_listlen = Cardinality(Unreaped)
  BY <1>2 DEF ListIsChildren
<1>9. ListIsChildren'
  BY <1>2, <1>4, <1>8 DEF ListIsChildren
<1>10. ServerMaxInstances > 0 => child_listlen < ServerMaxInstances
  BY DEF Fork, OverInstances, TypeOK
<1>11. AddRoom'
  BY <1>2, <1>4, <1>10 DEF AddRoom, Unreaped
<1>12. MaxInstancesEnforced'
  <2>1. Unreaped \in SUBSET Ids
    BY DEF Unreaped
  <2>2. Cardinality(Unreaped') = Cardinality(Unreaped) + 1
    BY <1>4, <2>1, Finite, FS_AddElement
  <2> QED BY <2>2, <1>8, <1>10 DEF MaxInstancesEnforced, TypeOK
<1> QED BY <1>5, <1>6, <1>7, <1>9, <1>11, <1>12

\* child_add() appends what was forked last, so the list stays in order.
LEMMA child_addKeeps ==
  ASSUME TypeOK, LInv, child_add
  PROVE  LInv'
<1> USE DEF LInv
<1>1. /\ pc = "add" /\ pc' = "top" /\ child_list' = child_list \cup {forks}
      /\ child_listlen' = child_listlen + 1 /\ UNCHANGED <<ch_dead, forks, pid, st>>
  BY DEF child_add, cvars
<1>2. Unreaped' = Unreaped /\ forks \in Unreaped
  BY <1>1 DEF Unreaped, Exists, AddRoom
<1>3. Numbered' /\ DeadReaped' /\ PidOrder' /\ AddRoom'
  BY <1>1 DEF Numbered, DeadReaped, PidOrder, AddRoom
<1>4. forks \notin ch_dead
  BY <1>1, <1>2 DEF DeadReaped, Unreaped, Exists, Alive
<1>5. child_list' \ ch_dead' = Unreaped
  BY <1>1, <1>2, <1>4 DEF ListIsChildren
<1>6. Cardinality(Unreaped) = child_listlen + 1
  <2>1. Unreaped \ {forks} = child_list \ ch_dead /\ Unreaped \in SUBSET Ids
    BY <1>1 DEF ListIsChildren, Unreaped
  <2>2. Cardinality(Unreaped \ {forks}) = Cardinality(Unreaped) - 1
    BY <1>2, <2>1, Finite, FS_RemoveElement
  <2>3. Cardinality(Unreaped) \in Nat
    BY <2>1, Finite, FS_CardinalityType
  <2> QED BY <2>1, <2>2, <2>3 DEF ListIsChildren
<1>7. ListIsChildren' /\ MaxInstancesEnforced'
  BY <1>1, <1>2, <1>5, <1>6 DEF ListIsChildren, MaxInstancesEnforced
<1> QED BY <1>3, <1>7

\* Of the entries with the process ID of a child that has not been waited for
\* child_remove() comes to its own first.
LEMMA FirstIsOwn ==
  ASSUME TypeOK, LInv, NEW c \in Ids, st[c] = "zombie", c \in child_list
  PROVE  FirstWith(pid[c]) = {c}
<1>1. ASSUME NEW d \in child_list, pid[d] = pid[c] PROVE d <= c
  <2>1. d \in Ids /\ d \in Nat /\ c \in Nat /\ c <= forks /\ d <= forks
    <3>1. st[d] # "none"
      BY DEF LInv, ListIsChildren, DeadReaped, Unreaped, Exists, Alive, TypeOK
    <3> QED BY <3>1 DEF TypeOK, LInv, Numbered, Ids
  <2> QED BY <1>1, <2>1 DEF LInv, PidOrder
<1>2. ASSUME NEW d \in child_list, pid[d] = pid[c], c <= d PROVE d = c
  BY <1>1, <1>2 DEF TypeOK, Ids
<1> QED BY <1>1, <1>2 DEF FirstWith

\* waitpid() and child_remove() mark the entry of the process that ended.
LEMMA handle_chldKeeps ==
  ASSUME TypeOK, LInv, handle_chld
  PROVE  LInv'
<1> USE DEF LInv
<1>1. PICK c \in Ids : /\ st[c] = "zombie" /\ st' = [st EXCEPT ![c] = "reaped"]
                       /\ child_remove(pid[c])
  BY Zenon DEF handle_chld
<1>2. pc \notin {"add", "gone"} /\ UNCHANGED <<pc, child_list, forks, pid>>
  BY DEF handle_chld, Blocked
<1>3. c \in child_list /\ c \notin ch_dead
  BY <1>1, <1>2 DEF ListIsChildren, Unreaped, Exists
<1>4. ch_dead' = ch_dead \cup {c} /\ child_listlen' = child_listlen - 1
  BY <1>1, <1>3, FirstIsOwn DEF child_remove
<1>5. Unreaped' = Unreaped \ {c} /\ c \in Unreaped
  BY <1>1 DEF Unreaped, Exists, Alive, TypeOK
<1>6. Numbered' /\ DeadReaped' /\ PidOrder' /\ AddRoom'
  BY <1>1, <1>2, <1>4 DEF Numbered, DeadReaped, PidOrder, AddRoom, TypeOK
<1>7. child_list \ ch_dead = Unreaped /\ child_listlen = Cardinality(Unreaped)
  BY <1>2 DEF ListIsChildren
<1>8. child_list' \ ch_dead' = Unreaped'
  BY <1>2, <1>4, <1>5, <1>7
<1>9. Cardinality(Unreaped') = Cardinality(Unreaped) - 1
  <2>1. IsFiniteSet(Unreaped)
    BY Finite DEF Unreaped
  <2> QED BY <1>5, <2>1, FS_RemoveElement
<1>10. ListIsChildren'
  BY <1>2, <1>4, <1>7, <1>8, <1>9 DEF ListIsChildren
<1>11. MaxInstancesEnforced'
  BY <1>4, <1>7, <1>9, DaemonAssumption DEF MaxInstancesEnforced, TypeOK
<1> QED BY <1>6, <1>10, <1>11

\* After the daemon, nobody waits and nothing is listed.
LEMMA OrphanedKeeps ==
  ASSUME TypeOK, LInv, NEW c \in Ids, Orphaned(c)
  PROVE  LInv'
<1> USE DEF LInv
<1>1. /\ pc = "gone" /\ st[c] = "zombie" /\ st' = [st EXCEPT ![c] = "reaped"]
      /\ UNCHANGED <<pc, child_list, ch_dead, child_listlen, forks, pid>>
  BY DEF Orphaned, mvars
<1>2. Unreaped' = Unreaped \ {c} /\ Unreaped \in SUBSET Ids /\ Unreaped' \in SUBSET Unreaped
  BY <1>1 DEF Unreaped, Exists, Alive, TypeOK
<1>3. Numbered' /\ DeadReaped' /\ PidOrder' /\ AddRoom'
  BY <1>1 DEF Numbered, DeadReaped, PidOrder, AddRoom, TypeOK
<1>4. ListIsChildren'
  BY <1>1 DEF ListIsChildren
<1>5. MaxInstancesEnforced'
  <2>1. /\ Cardinality(Unreaped') <= Cardinality(Unreaped)
        /\ Cardinality(Unreaped') \in Nat /\ Cardinality(Unreaped) \in Nat
    BY <1>2, Finite, FS_Subset, FS_CardinalityType
  <2> QED BY <2>1, DaemonAssumption DEF MaxInstancesEnforced
<1> QED BY <1>3, <1>4, <1>5

\* The children's own steps.
LEMMA ChildSteps ==
  ASSUME TypeOK, NEW c \in Ids,
         ChildStart(c) \/ ChildExit(c) \/ ChildTerminate(c) \/ shutdown_exit(c)
  PROVE  /\ UNCHANGED <<pc, mvars, svars, forks, pid>>
         /\ st' \in [Ids -> Alive \cup {"none", "zombie", "reaped"}]
         /\ asked' \in [Ids -> SUBSET {"TERM", "IGN", "USR1"}]
         /\ \A d \in Ids : st'[d] = st[d] \/ (st[d] \in Alive /\ st'[d] \in Alive \cup {"zombie"})
         /\ \A d \in Ids : st'[d] \in {"forked", "closed", "ready"} =>
                             st[d] \in {"forked", "closed", "ready"}
         /\ \A d \in Ids : st'[d] = "forked" => st[d] = "forked"
<1>1. CASE ChildStart(c)
  BY <1>1 DEF ChildStart, TypeOK, Alive
<1>2. CASE ChildExit(c) \/ ChildTerminate(c)
  BY <1>2 DEF ChildExit, ChildTerminate, ChildEnds, TypeOK, Alive
<1>3. CASE shutdown_exit(c)
  BY <1>3 DEF shutdown_exit, ChildEnds, TypeOK, Alive
<1> QED BY <1>1, <1>2, <1>3

\* The master's first sight of a shutdown.
LEMMA disc_childrenSteps ==
  ASSUME TypeOK, disc_children
  PROVE  /\ st' \in [Ids -> Alive \cup {"none", "zombie", "reaped"}]
         /\ asked' \in [Ids -> SUBSET {"TERM", "IGN", "USR1"}]
         /\ \A d \in Ids : st'[d] = st[d] \/ (st[d] \in Alive /\ st'[d] = "zombie")
<1>1. \A d \in Killed : st[d] \in Alive
  BY DEF Killed, Targets
<1>2. Disconnected \in [Ids -> SUBSET {"TERM", "IGN", "USR1"}]
  BY DEF Disconnected, TypeOK
<1> QED BY <1>1, <1>2 DEF disc_children, TypeOK

\* Every step of the daemon and its children keeps the list right.
LEMMA LNext == TypeOK /\ LInv /\ [Next]_vars => LInv'
<1> SUFFICES ASSUME TypeOK, LInv, [Next]_vars PROVE LInv'
  OBVIOUS
<1> USE DEF cvars, mvars
<1>1. CASE UNCHANGED vars
  BY <1>1, ListKept DEF vars
<1>2. CASE LoopTop
  BY <1>2, ListKept, disc_childrenSteps DEF LoopTop
<1>3. CASE CleanList
  BY <1>3, CleanListKeeps
<1>4. CASE Tally \/ HandleOthers \/ AcceptNone
  BY <1>4, ListKept DEF Tally, HandleOthers, AcceptNone
<1>5. CASE HandleTerm \/ SelectFatal
  BY <1>5, MasterEndsKeeps DEF HandleTerm, SelectFatal
<1>6. CASE Fork
  BY <1>6, ForkKeeps
<1>7. CASE child_add
  BY <1>7, child_addKeeps
<1>8. CASE RestartBegin \/ RestartWait
  BY <1>8, ListKept DEF RestartBegin, RestartWait
<1>9. CASE RestartBind
  <2>1. CASE MasterEnds
    BY <1>9, <2>1, MasterEndsKeeps DEF RestartBind
  <2>2. CASE pc' = "top" /\ UNCHANGED mvars
    BY <1>9, <2>2, ListKept DEF RestartBind
  <2> QED BY <1>9, <2>1, <2>2 DEF RestartBind
<1>10. CASE SelectReady \/ SelectTimeout \/ SelectEintr \/ SelectError
  BY <1>10, ListKept DEF SelectReady, SelectTimeout, SelectEintr, SelectError
<1>11. CASE handle_chld
  BY <1>11, handle_chldKeeps
<1>12. CASE sig_terminate \/ sig_restart \/ Ftpshut
  BY <1>12, ListKept DEF sig_terminate, sig_restart, Ftpshut
<1>13. ASSUME NEW c \in Ids, Orphaned(c) PROVE LInv'
  BY <1>13, OrphanedKeeps
<1>14. ASSUME NEW c \in Ids,
              ChildStart(c) \/ ChildExit(c) \/ ChildTerminate(c) \/ shutdown_exit(c)
       PROVE  LInv'
  BY <1>14, ChildSteps, ListKept
<1> QED BY <1>1, <1>2, <1>3, <1>4, <1>5, <1>6, <1>7, <1>8, <1>9, <1>10, <1>11, <1>12, <1>13,
           <1>14 DEF Next, Master, Child

-----------------------------------------------------------------------------
\* SIGHUPs, rebinding and restarts are counted in step.
LEMMA RNext == TypeOK /\ Restarts /\ [Next]_vars => Restarts' /\ hups' \in 0..MaxRestarts
<1> SUFFICES ASSUME TypeOK, Restarts, [Next]_vars
             PROVE  Restarts' /\ hups' \in 0..MaxRestarts
  OBVIOUS
<1> USE DaemonAssumption DEF TypeOK, Restarts, Once, svars
<1>1. CASE UNCHANGED vars
  BY <1>1 DEF vars
<1>2. CASE LoopTop \/ CleanList \/ Tally \/ AcceptNone \/ Fork \/ child_add
  BY <1>2 DEF LoopTop, CleanList, Tally, AcceptNone, Fork, child_add
<1>3. CASE HandleTerm \/ SelectFatal
  BY <1>3 DEF HandleTerm, SelectFatal, MasterEnds
<1>4. CASE HandleOthers
  BY <1>4 DEF HandleOthers
<1>5. CASE RestartBegin \/ RestartWait
  BY <1>5 DEF RestartBegin, RestartWait
<1>6. CASE RestartBind
  BY <1>6 DEF RestartBind, MasterEnds
<1>7. CASE SelectReady \/ SelectTimeout \/ SelectEintr \/ SelectError
  BY <1>7 DEF SelectReady, SelectTimeout, SelectEintr, SelectError
<1>8. CASE handle_chld \/ sig_terminate \/ Ftpshut
  BY <1>8 DEF handle_chld, sig_terminate, Ftpshut
<1>9. CASE sig_restart
  BY <1>9 DEF sig_restart
<1>10. ASSUME NEW c \in Ids, Child(c) \/ ChildExit(c)
       PROVE  Restarts' /\ hups' \in 0..MaxRestarts
  BY <1>10 DEF Child, ChildStart, ChildExit, ChildTerminate, shutdown_exit, ChildEnds, Orphaned
<1> QED BY <1>1, <1>2, <1>3, <1>4, <1>5, <1>6, <1>7, <1>8, <1>9, <1>10 DEF Next, Master

\* The type invariant in four parts.
TList ==
  /\ child_list \subseteq Ids /\ ch_dead \subseteq child_list /\ ch_pipefd \subseteq child_list
  /\ child_listlen \in 0..MaxForks /\ have_dead_child \in BOOLEAN
TRound ==
  /\ pc \in {"top", "wait", "select", "eintr", "clean", "tally", "handle", "accept", "add", "gone"}
  /\ readfds \subseteq Ids /\ conn \in BOOLEAN /\ res \in {"ready", "timeout", "error"}
  /\ nconnects \in 1..(MaxForks + 1)
TSignals ==
  /\ flags \subseteq {"TERM", "HUP"} /\ sched \in BOOLEAN
  /\ hups \in 0..MaxRestarts /\ binds \in 0..MaxRestarts
  /\ shutmsg \in {"absent", "ahead", "passed"} /\ shutdownp \in BOOLEAN /\ failed \in BOOLEAN
TChildren ==
  /\ forks \in 0..MaxForks /\ pid \in [Ids -> Pids \cup {0}]
  /\ st \in [Ids -> Alive \cup {"none", "zombie", "reaped"}]
  /\ asked \in [Ids -> SUBSET {"TERM", "IGN", "USR1"}]

\* The counter has its type because it counts, and the number of restarts is
\* bounded by that of signals.
LEMMA TypeNext == DInv /\ [Next]_vars => TypeOK'
<1> SUFFICES ASSUME DInv, [Next]_vars PROVE TypeOK'
  OBVIOUS
<1>1. LInv' /\ Restarts' /\ hups' \in 0..MaxRestarts
  BY LNext, RNext DEF DInv
<1>2. child_list' \in SUBSET Ids => child_listlen' \in 0..MaxForks
  <2> SUFFICES ASSUME child_list' \in SUBSET Ids PROVE child_listlen' \in 0..MaxForks
    OBVIOUS
  <2>1. child_list' \ ch_dead' \in SUBSET Ids
    OBVIOUS
  <2>2. child_listlen' = Cardinality(child_list' \ ch_dead')
    BY <1>1 DEF LInv, ListIsChildren
  <2> QED BY <2>1, <2>2, Finite
<1>3. binds' \in Nat => binds' \in 0..MaxRestarts
  <2>1. Once("HUP" \in flags') \in {0, 1} /\ Once(sched') \in {0, 1} /\ Once(pc' = "wait") \in {0, 1}
    BY Zenon DEF Once
  <2>2. binds' + Once("HUP" \in flags') + Once(sched') + Once(pc' = "wait") <= hups'
    BY <1>1 DEF Restarts
  <2> QED BY <1>1, <2>1, <2>2, DaemonAssumption
<1>4. TypeOK <=> TList /\ TRound /\ TSignals /\ TChildren
  BY Zenon DEF TypeOK, TList, TRound, TSignals, TChildren
<1>5. TypeOK' <=> TList' /\ TRound' /\ TSignals' /\ TChildren'
  BY Zenon DEF TypeOK, TList, TRound, TSignals, TChildren
<1>6. TypeOK
  BY DEF DInv
<1> SUFFICES TList' /\ TRound' /\ TSignals' /\ TChildren'
  BY <1>5
<1> USE <1>4, <1>6, DaemonAssumption DEF mvars, svars, cvars
<1>7. TList'
  <2> USE DEF TList
  <2>1. CASE CleanList
    BY <2>1, <1>2, Zenon DEF CleanList, child_update
  <2>2. CASE Tally \/ RestartWait
    BY <2>2 DEF Tally, RestartWait
  <2>3. CASE MasterEnds
    <3>1. have_dead_child' \in BOOLEAN
      BY <2>3, Zenon DEF MasterEnds
    <3> QED BY <2>3, <3>1 DEF MasterEnds
  <2>4. CASE RestartBind /\ ~MasterEnds
    BY <2>4 DEF RestartBind
  <2>5. CASE child_add
    <3>1. forks \in Ids
      BY <2>5 DEF child_add, DInv, LInv, AddRoom
    <3> QED BY <2>5, <1>2, <3>1 DEF child_add
  <2>6. CASE handle_chld
    <3>1. PICK c \in Ids : child_remove(pid[c])
      BY <2>6 DEF handle_chld
    <3>2. ch_dead' \in SUBSET child_list /\ have_dead_child' \in BOOLEAN
      BY <3>1 DEF child_remove, FirstWith
    <3> QED BY <2>6, <1>2, <3>2 DEF handle_chld
  <2>7. ASSUME UNCHANGED <<child_list, ch_dead, ch_pipefd, child_listlen, have_dead_child>>
        PROVE  TList'
    BY <2>7
  <2>8. CASE UNCHANGED vars
    BY <2>7, <2>8 DEF vars
  <2>9. CASE LoopTop \/ HandleOthers \/ AcceptNone \/ Fork \/ RestartBegin
    BY <2>7, <2>9 DEF LoopTop, HandleOthers, AcceptNone, Fork, RestartBegin
  <2>10. CASE SelectReady \/ SelectTimeout \/ SelectEintr \/ SelectError
    BY <2>7, <2>10 DEF SelectReady, SelectTimeout, SelectEintr, SelectError
  <2>11. CASE sig_terminate \/ sig_restart \/ Ftpshut
    BY <2>7, <2>11 DEF sig_terminate, sig_restart, Ftpshut
  <2>12. ASSUME NEW c \in Ids, Child(c) \/ ChildExit(c) PROVE TList'
    BY <2>7, <2>12 DEF Child, ChildStart, ChildExit, ChildTerminate, shutdown_exit, ChildEnds,
       Orphaned
  <2> QED BY <2>1, <2>2, <2>3, <2>4, <2>5, <2>6, <2>8, <2>9, <2>10, <2>11, <2>12
             DEF Next, Master, HandleTerm, SelectFatal
<1>8. TRound'
  <2> USE DEF TRound
  <2>1. CASE LoopTop
    BY <2>1 DEF LoopTop, semaphore_fds, TList
  <2>2. CASE SelectReady
    BY <2>2 DEF SelectReady, Readable
  <2>3. CASE SelectError
    BY <2>3 DEF SelectError
  <2>4. CASE CleanList
    BY <2>4 DEF CleanList
  <2>5. CASE Tally
    <3>1. 1..(1 + Cardinality(child_list)) \subseteq 1..(MaxForks + 1)
      BY Finite DEF TList
    <3>2. nconnects' \in 1..(MaxForks + 1)
      BY <2>5, <3>1 DEF Tally
    <3> QED BY <2>5, <3>2 DEF Tally
  <2>6. ASSUME EndRound, pc' \in {"top", "wait", "select", "eintr", "clean", "tally", "handle",
                                  "accept", "add", "gone"}
        PROVE  TRound'
    <3>1. conn' \in BOOLEAN
      BY <2>6, Zenon DEF EndRound
    <3> QED BY <2>6, <3>1 DEF EndRound
  <2>7. CASE HandleTerm \/ SelectFatal \/ AcceptNone \/ Fork \/ SelectTimeout \/ SelectEintr
    BY <2>6, <2>7 DEF HandleTerm, SelectFatal, MasterEnds, AcceptNone, Fork, SelectTimeout, SelectEintr
  <2>8. ASSUME UNCHANGED <<readfds, conn, res, nconnects>>,
               pc' \in {"top", "wait", "select", "eintr", "clean", "tally", "handle", "accept",
                        "add", "gone"}
        PROVE  TRound'
    BY <2>8
  <2>9. CASE HandleOthers
    BY <2>6, <2>8, <2>9 DEF HandleOthers
  <2>10. CASE child_add \/ RestartBegin \/ RestartWait
    BY <2>8, <2>10 DEF child_add, RestartBegin, RestartWait
  <2>11. CASE RestartBind
    BY <2>6, <2>8, <2>11 DEF RestartBind, MasterEnds
  <2>12. CASE handle_chld \/ sig_terminate \/ sig_restart \/ Ftpshut
    BY <2>8, <2>12 DEF handle_chld, sig_terminate, sig_restart, Ftpshut
  <2>13. ASSUME NEW c \in Ids, Child(c) \/ ChildExit(c) PROVE TRound'
    BY <2>8, <2>13 DEF Child, ChildStart, ChildExit, ChildTerminate, shutdown_exit, ChildEnds,
       Orphaned
  <2>14. CASE UNCHANGED vars
    BY <2>8, <2>14 DEF vars
  <2> QED BY <2>1, <2>2, <2>3, <2>4, <2>5, <2>7, <2>9, <2>10, <2>11, <2>12, <2>13, <2>14
             DEF Next, Master
<1>9. TSignals'
  <2> USE DEF TSignals
  <2>1. ASSUME UNCHANGED svars PROVE TSignals'
    BY <2>1
  <2>2. CASE LoopTop
    BY <2>2 DEF LoopTop
  <2>3. MasterEnds => flags' = {} /\ sched' \in BOOLEAN /\ shutdownp' \in BOOLEAN
    BY Zenon DEF MasterEnds
  <2>4. CASE HandleOthers
    BY <2>4 DEF HandleOthers
  <2>5. CASE RestartBegin
    BY <2>5, Zenon DEF RestartBegin
  <2>6. CASE HandleTerm \/ SelectFatal \/ RestartBind
    <3>1. binds' \in Nat
      BY <2>6 DEF HandleTerm, SelectFatal, RestartBind
    <3> QED BY <2>3, <2>6, <3>1, <1>3 DEF HandleTerm, SelectFatal, RestartBind
  <2>7. CASE SelectError
    BY <2>7 DEF SelectError
  <2>8. CASE sig_terminate
    BY <2>8 DEF sig_terminate
  <2>9. CASE sig_restart
    BY <2>9, <1>1 DEF sig_restart
  <2>10. CASE Ftpshut
    BY <2>10 DEF Ftpshut
  <2>11. CASE CleanList \/ Tally \/ AcceptNone \/ Fork \/ child_add \/ RestartWait
    BY <2>1, <2>11, Zenon DEF CleanList, Tally, AcceptNone, Fork, child_add, RestartWait
  <2>12. CASE SelectReady \/ SelectTimeout \/ SelectEintr \/ handle_chld
    BY <2>1, <2>12, Zenon DEF SelectReady, SelectTimeout, SelectEintr, handle_chld
  <2>13. ASSUME NEW c \in Ids, Child(c) \/ ChildExit(c) PROVE TSignals'
    BY <2>1, <2>13 DEF Child, ChildStart, ChildExit, ChildTerminate, shutdown_exit, ChildEnds,
       Orphaned
  <2>14. CASE UNCHANGED vars
    BY <2>1, <2>14 DEF vars
  <2> QED BY <2>2, <2>4, <2>5, <2>6, <2>7, <2>8, <2>9, <2>10, <2>11, <2>12, <2>13, <2>14
             DEF Next, Master
<1>10. TChildren'
  <2> USE DEF TChildren
  <2>1. ASSUME UNCHANGED cvars PROVE TChildren'
    BY <2>1
  <2>2. CASE LoopTop
    BY <2>2, disc_childrenSteps DEF LoopTop
  <2>3. CASE HandleTerm
    <3>1. Terminated \in [Ids -> SUBSET {"TERM", "IGN", "USR1"}]
      BY DEF Terminated
    <3> QED BY <2>3, <3>1 DEF HandleTerm
  <2>4. CASE Fork
    <3>1. forks + 1 \in Ids /\ forks + 1 \in 0..MaxForks
      BY <2>4 DEF Fork, Ids
    <3>2. pid' \in [Ids -> Pids \cup {0}]
      BY <2>4, <3>1 DEF Fork
    <3>3. st' \in [Ids -> Alive \cup {"none", "zombie", "reaped"}]
      BY <2>4, <3>1 DEF Fork, Alive
    <3>4. asked' \in [Ids -> SUBSET {"TERM", "IGN", "USR1"}]
      BY <2>4, <3>1 DEF Fork, Inherited
    <3> QED BY <2>4, <3>1, <3>2, <3>3, <3>4 DEF Fork
  <2>5. CASE handle_chld
    BY <2>5 DEF handle_chld
  <2>6. ASSUME NEW c \in Ids, Orphaned(c) PROVE TChildren'
    BY <2>6 DEF Orphaned
  <2>7. ASSUME NEW c \in Ids,
               ChildStart(c) \/ ChildExit(c) \/ ChildTerminate(c) \/ shutdown_exit(c)
        PROVE  TChildren'
    BY <2>7, ChildSteps
  <2>8. CASE CleanList \/ Tally \/ HandleOthers \/ AcceptNone \/ child_add
    BY <2>1, <2>8, Zenon DEF CleanList, Tally, HandleOthers, AcceptNone, child_add
  <2>9. CASE RestartBegin \/ RestartWait \/ RestartBind
    BY <2>1, <2>9, Zenon DEF RestartBegin, RestartWait, RestartBind
  <2>10. CASE SelectReady \/ SelectTimeout \/ SelectEintr \/ SelectError \/ SelectFatal
    BY <2>1, <2>10, Zenon DEF SelectReady, SelectTimeout, SelectEintr, SelectError, SelectFatal
  <2>11. CASE sig_terminate \/ sig_restart \/ Ftpshut \/ UNCHANGED vars
    BY <2>1, <2>11, SMTT(30) DEF sig_terminate, sig_restart, Ftpshut, vars
  <2> QED BY <2>2, <2>3, <2>4, <2>5, <2>6, <2>7, <2>8, <2>9, <2>10, <2>11 DEF Next, Master, Child
<1> QED BY <1>7, <1>8, <1>9, <1>10

\* What a restart waits for: the pipes of the children that have not started.
LEMMA PNext == DInv /\ [Next]_vars => PInv'
<1> SUFFICES ASSUME DInv, [Next]_vars PROVE PInv'
  OBVIOUS
<1> USE DEF DInv, TypeOK, PInv, ReadyPipes, Semaphores, mvars, svars, cvars
<1>1. CASE UNCHANGED vars
  BY <1>1 DEF vars
<1>2. CASE LoopTop
  BY <1>2, disc_childrenSteps DEF LoopTop, Alive
<1>3. CASE CleanList
  <2>1. ~failed => \A c \in Ids : st[c] = "forked" => c \in ch_pipefd /\ c \notin ch_dead
    BY <1>3 DEF CleanList, LInv, DeadReaped
  <2> QED BY <1>3, <2>1 DEF CleanList, child_update
<1>4. CASE Tally
  BY <1>4 DEF Tally
<1>5. CASE HandleTerm \/ SelectFatal
  BY <1>5 DEF HandleTerm, SelectFatal, MasterEnds
<1>6. CASE HandleOthers \/ AcceptNone
  BY <1>6 DEF HandleOthers, AcceptNone
<1>7. CASE Fork
  <2>1. \A c \in Ids : c # forks + 1 => st'[c] = st[c]
    BY <1>7 DEF Fork
  <2> QED BY <1>7, <2>1 DEF Fork
<1>8. CASE child_add
  BY <1>8 DEF child_add
<1>9. CASE RestartBegin
  BY <1>9 DEF RestartBegin
<1>10. CASE RestartWait
  BY <1>10 DEF RestartWait, Readable
<1>11. CASE RestartBind
  BY <1>11 DEF RestartBind, MasterEnds
<1>12. CASE SelectReady
  BY <1>12 DEF SelectReady, Readable
<1>13. CASE SelectTimeout \/ SelectEintr \/ SelectError
  BY <1>13 DEF SelectTimeout, SelectEintr, SelectError, EndRound
<1>14. CASE handle_chld
  BY <1>14 DEF handle_chld
<1>15. CASE sig_terminate \/ sig_restart \/ Ftpshut
  BY <1>15 DEF sig_terminate, sig_restart, Ftpshut
<1>16. ASSUME NEW c \in Ids, Orphaned(c) PROVE PInv'
  BY <1>16 DEF Orphaned
<1>17. ASSUME NEW c \in Ids,
              ChildStart(c) \/ ChildExit(c) \/ ChildTerminate(c) \/ shutdown_exit(c)
       PROVE  PInv'
  BY <1>17, ChildSteps
<1> QED BY <1>1, <1>2, <1>3, <1>4, <1>5, <1>6, <1>7, <1>8, <1>9, <1>10, <1>11, <1>12, <1>13, <1>14,
           <1>15, <1>16, <1>17 DEF Next, Master, Child

\* All of the invariant is kept.
LEMMA DNext == DInv /\ [Next]_vars => DInv'
BY LNext, RNext, TypeNext, PNext DEF DInv

\* The variables of daemon_loop() and of its children have their types.
THEOREM DaemonTypes == Spec => []TypeOK
<1>1. DInv => TypeOK
  BY DEF DInv
<1> QED BY <1>1, DInit, DNext, PTL DEF Spec

\* Whenever fork_server() and handle_chld() are not in the middle of it, the
\* living entries of the list are the children that were not waited for, and
\* child_count() is right, however process IDs are used again.
THEOREM ListCorrect == Spec => []ListIsChildren
<1>1. DInv => ListIsChildren
  BY DEF DInv, LInv
<1> QED BY <1>1, DInit, DNext, PTL DEF Spec

\* daemon_loop() keeps to MaxInstances, whatever it is.
THEOREM InstancesLimited == Spec => []MaxInstancesEnforced
<1>1. DInv => MaxInstancesEnforced
  BY DEF DInv, LInv
<1> QED BY <1>1, DInit, DNext, PTL DEF Spec

\* core_restart_cb() binds its sockets when every child has closed those it
\* inherited, if select() has never failed.
THEOREM RebindSafe == Spec => RebindWithoutHolders
<1>1. DInv /\ [Next]_vars =>
        [binds' # binds /\ ~failed => \A c \in Ids : st[c] # "forked"]_vars
  <2> SUFFICES ASSUME DInv, Next, binds' # binds, ~failed, NEW c \in Ids, st[c] = "forked"
               PROVE  FALSE
    BY DEF vars
  <2>1. RestartBind
    <3> USE DEF mvars, svars, cvars
    <3>1. CASE LoopTop \/ CleanList \/ Tally \/ HandleTerm \/ HandleOthers \/ AcceptNone
      BY <3>1 DEF LoopTop, CleanList, Tally, HandleTerm, HandleOthers, AcceptNone
    <3>2. CASE Fork \/ child_add \/ RestartBegin \/ RestartWait
      BY <3>2 DEF Fork, child_add, RestartBegin, RestartWait
    <3>3. CASE SelectReady \/ SelectTimeout \/ SelectEintr \/ SelectError \/ SelectFatal
      BY <3>3 DEF SelectReady, SelectTimeout, SelectEintr, SelectError, SelectFatal
    <3>4. CASE handle_chld \/ sig_terminate \/ sig_restart \/ Ftpshut
      BY <3>4 DEF handle_chld, sig_terminate, sig_restart, Ftpshut
    <3>5. ASSUME NEW d \in Ids, Child(d) \/ ChildExit(d) PROVE FALSE
      BY <3>5 DEF Child, ChildStart, ChildExit, ChildTerminate, shutdown_exit, ChildEnds, Orphaned
    <3> QED BY <3>1, <3>2, <3>3, <3>4, <3>5, SMTT(30) DEF Next, Master
  <2>2. pc = "wait" /\ c \in ch_pipefd
    BY <2>1 DEF RestartBind, DInv, PInv, Semaphores
  <2>3. c \in child_list \ ch_dead
    BY <2>2 DEF DInv, LInv, ListIsChildren, Unreaped, Exists, Alive
  <2>4. child_listlen # 0
    BY <2>3, Finite, FS_EmptySet DEF DInv, LInv, ListIsChildren, TypeOK
  <2> QED BY <2>1, <2>2, <2>4 DEF RestartBind, semaphore_fds
<1> QED BY <1>1, DInit, DNext, PTL DEF Spec, RebindWithoutHolders
=============================================================================
