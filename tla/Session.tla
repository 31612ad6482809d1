------------------------------- MODULE Session -------------------------------
(***************************************************************************)
(* One FTP session: the data connection (src/data.c), the commands that    *)
(* set it up (PASV, EPSV, PORT in modules/mod_core.c) and use it (LIST and *)
(* NLST in mod_ls.c, MLSD in mod_facts.c, RETR, STOR, APPE, STOU, REST and *)
(* ABOR in mod_xfer.c), the renaming commands that share session.xfer with *)
(* them (RNFR and RNTO in mod_core.c), and the session's timeouts.         *)
(*                                                                         *)
(* A command is a sequence of steps: the handler runs up to a place where  *)
(* it waits for the client (in accept(2) or connect(2), in a transfer, in  *)
(* a lingering close), and the LOG_CMD or LOG_CMD_ERR handlers follow.     *)
(* While it waits timers go off, SIGURG arrives, the session is            *)
(* terminated, and pr_data_xfer() dispatches commands from the control     *)
(* connection.  Timers are those of module Timers, reduced to what a       *)
(* session sees of them: on the list or not, and due or not.               *)
(***************************************************************************)
EXTENDS Naturals

CONSTANTS
  TimeoutIdle,          \* the server's TimeoutIdle; 0 is none
  UserTimeoutIdle,      \* the one in force after login (<Anonymous> has its own)
  TimeoutNoTransfer,    \* TRUE if not 0
  TimeoutStalled,       \* TRUE if not 0
  DeleteAbortedStores   \* whether stor_abort() deletes the file

ASSUME ConfigAssumption ==
  /\ TimeoutIdle \in Nat /\ UserTimeoutIdle \in Nat
  /\ TimeoutNoTransfer \in BOOLEAN /\ TimeoutStalled \in BOOLEAN
  /\ DeleteAbortedStores \in BOOLEAN

VARIABLES
  session,      \* the session: its flags, data connection, files and timers, and
                \* whether HiddenStores has uploads go to a file renamed when whole
  phase,        \* what the process is doing
  cmd,          \* the command in progress that uses the data connection
  result,       \* "ok": it ends with pr_data_close(), "err": with pr_data_abort()
  ended,        \* why the session ended
  silent        \* the client's host or network is gone, with no word of it

vars == <<session, phase, cmd, result, ended, silent>>

\* "auth": before login.  "ready": reading a command in cmd_loop().  "start":
\* at the call of pr_data_open().  "opening": waiting in it.  "xfer":
\* transferring.  "gone": pr_data_xfer() is about to return -1 as the
\* connection was closed by an ABOR.  "closing": in pr_data_close() or
\* pr_data_abort().  "log": before LOG_CMD or LOG_CMD_ERR.
Phases == {"auth", "ready", "start", "opening", "xfer", "gone", "closing",
           "log", "ended"}
Waiting == {"auth", "ready", "opening", "xfer", "closing"}

TimerIds == {"LOGIN", "IDLE", "NOXFER", "STALLED"}
Flags == {"PASSIVE", "ABORT", "XFER", "ASCII_OVERRIDE", "EPSV_ALL"}
Listings == {"LIST", "NLST", "MLSD"}
Uploads == {"STOR", "APPE", "STOU"}
FileCmds == Uploads \cup {"RETR"}
DataCmds == Listings \cup FileCmds
Direction(c) == IF c \in Uploads THEN "RD" ELSE "WR"

-----------------------------------------------------------------------------
(* Operations on the session: each maps it to the session afterwards.      *)

Set(s, fs) == [s EXCEPT !.flags = @ \cup fs]
Clear(s, fs) == [s EXCEPT !.flags = @ \ fs]

\* pr_timer_add() fails if the timer is on the list already, and
\* pr_timer_reset() if it is not.
pr_timer_add(s, t) == [s EXCEPT !.timers[t] = IF @ = "off" THEN "fresh" ELSE @]
pr_timer_reset(s, t) == [s EXCEPT !.timers[t] = IF @ = "off" THEN "off" ELSE "fresh"]
pr_timer_remove(s, t) == [s EXCEPT !.timers[t] = "off"]

\* Data on the control or on the data connection: the idle timer starts anew
\* if there is an idle timeout.
ResetIdle(s) == IF s.timeout_idle > 0 THEN pr_timer_reset(s, "IDLE") ELSE s

\* session.xfer is cleared, but for xfer_type.
pr_data_clear_xfer_pool(s) == [s EXCEPT !.direction = "none", !.path = "none"]

pr_data_reset(s) ==
  [Clear(s, {"ABORT", "XFER", "PASSIVE", "ASCII_OVERRIDE", "EPSV_ALL"})
     EXCEPT !.d = "none"]

\* Mutant of pr_data_cleanup: session.xfer is left as it is.
CleanupConnOnly(s) == [s EXCEPT !.d = "none"]

\* Mutant of pr_data_cleanup: xfer_type stays (Bug#3612).
CleanupKeepsType(s) == pr_data_clear_xfer_pool([s EXCEPT !.d = "none"])

pr_data_cleanup(s) ==
  [pr_data_clear_xfer_pool([s EXCEPT !.d = "none"]) EXCEPT !.xfer_type = "DEFAULT"]

\* LOG_CMD and LOG_CMD_ERR of RETR, STOR, APPE and STOU.
xfer_log_stor(s) == [pr_data_cleanup(s) EXCEPT !.restart_pos = FALSE]
xfer_err_cleanup(s) ==
  [pr_data_clear_xfer_pool(s) EXCEPT !.xfer_type = "DEFAULT", !.restart_pos = FALSE]

\* What pr_data_close() and pr_data_abort() have in common.
EndTransfer(s) ==
  pr_timer_remove(pr_timer_reset([s EXCEPT !.d = "none"], "NOXFER"), "STALLED")

pr_data_close(s) ==
  Clear(EndTransfer(s), {"ABORT", "XFER", "PASSIVE", "ASCII_OVERRIDE"})

\* SF_ABORT stays set after an abort.
pr_data_abort(s) == Clear(EndTransfer(s), {"XFER", "PASSIVE", "ASCII_OVERRIDE"})

retr_abort(s) == [s EXCEPT !.fh = "none"]

\* The file is deleted, if so configured: the hidden one, which is gone by its
\* name once it is whole, or the file itself.
stor_abort(s) ==
  [s EXCEPT !.fh = "none",
            !.file = IF /\ s.path # "none" /\ DeleteAbortedStores
                        /\ ~(s.xfer_type = "HIDDEN" /\ @ = "whole")
                       THEN "none" ELSE @]

\* By session.xfer.direction, as the exit and stall events do.
AbortFile(s) == IF s.direction = "RD" THEN stor_abort(s) ELSE retr_abort(s)

\* Mutant of xfer_abor: the file is left to the aborted handler.
AborConnOnly(s) == pr_data_cleanup(pr_data_reset(pr_data_abort(s)))

\* ABOR: xfer_abor(), then xfer_log_abor().
xfer_abor(s) ==
  LET t == IF s.direction = "none" THEN s ELSE AbortFile(s)
  IN  pr_data_cleanup(pr_data_reset(pr_data_abort(t)))

\* The core.exit event: a transfer in progress is aborted, and the LOG_CMD_ERR
\* handlers of its command clear session.xfer.
xfer_exit_ev(s) ==
  IF "XFER" \in s.flags THEN pr_data_clear_xfer_pool(pr_data_abort(AbortFile(s))) ELSE s

\* The core.timeout-stalled event: the client never opened the connection.
xfer_xfer_stalled_ev(s) == IF "XFER" \in s.flags THEN s ELSE AbortFile(s)

-----------------------------------------------------------------------------
(* Steps.                                                                  *)

\* pr_session_disconnect(): the data connection is closed, then the core.exit
\* event, then exit().
Disconnect(s, why) ==
  /\ session' = xfer_exit_ev([s EXCEPT !.d = "none"])
  /\ phase' = "ended" /\ ended' = why
  /\ UNCHANGED <<cmd, result, silent>>

\* The handler goes on, as p says.
Goto(p, s) == session' = s /\ phase' = p /\ UNCHANGED <<cmd, result, ended, silent>>

\* The handler returns; its LOG_CMD (ok) or LOG_CMD_ERR handlers are next.
Return(s, r) ==
  session' = s /\ phase' = "log" /\ result' = r /\ UNCHANGED <<cmd, ended, silent>>

\* pr_data_close() or pr_data_abort() starts, and lingers if a connection is
\* open.
Close(s, r) ==
  session' = s /\ phase' = "closing" /\ result' = r /\ UNCHANGED <<cmd, ended, silent>>

Init ==
  /\ \E hidden \in BOOLEAN :
     session = [flags |-> {}, d |-> "none", direction |-> "none", path |-> "none",
                xfer_type |-> "DEFAULT", restart_pos |-> FALSE, marked |-> FALSE,
                rnfr |-> FALSE, fh |-> "none", file |-> "none",
                timers |-> [t \in TimerIds |->
                              IF t = "LOGIN" \/ (t = "IDLE" /\ TimeoutIdle > 0)
                                THEN "fresh" ELSE "off"],
                timeout_idle |-> TimeoutIdle,
                hidden |-> hidden]
  /\ phase = "auth"
  /\ cmd = "none" /\ result = "none" /\ ended = "no"
  /\ silent = FALSE

\* The client sends a command.
Sends(p) == phase = p /\ ~silent

\* Mutant of Received: any command restarts the login timer.
ReceivedRestartsLogin == pr_timer_reset(ResetIdle(session), "LOGIN")

\* cmd_loop() has read a command.
Received == ResetIdle(session)

\* core_post_pass() removes the idle timer as one of mod_core's, which it is
\* not, so the timer stays and the addition of a new one fails.
core_post_pass(s) ==
  LET t == [s EXCEPT !.timeout_idle = UserTimeoutIdle]
  IN  IF UserTimeoutIdle \in {0, s.timeout_idle} \/ s.timers["IDLE"] # "off"
        THEN t
        ELSE pr_timer_add(t, "IDLE")

xfer_post_pass(s) == IF TimeoutNoTransfer THEN pr_timer_add(s, "NOXFER") ELSE s

\* A command before login, and the PASS that logs in.
AuthCommand == Sends("auth") /\ Goto("auth", Received)

Login ==
  /\ Sends("auth")
  /\ Goto("ready", xfer_post_pass(core_post_pass(pr_timer_remove(Received, "LOGIN"))))

\* After RNFR all commands are rejected up to the next RNTO, but for some that
\* change nothing, and QUIT.
core_pre_any == ~session.rnfr

\* A command without LOG_CMD_ERR handlers is rejected.
Rejected == Sends("ready") /\ ~core_pre_any /\ Goto("ready", Received)

\* PASV and EPSV.  They may be denied, fail to bind a socket, or to listen on
\* it.
Passive(s) ==
  \/ Goto("ready", s)
  \/ \E d \in {"none", "bound"} : Goto("ready", [s EXCEPT !.d = d])
  \/ Goto("ready", Set([s EXCEPT !.d = "listening"], {"PASSIVE"}))

core_pasv ==
  /\ Sends("ready") /\ core_pre_any
  /\ \/ "EPSV_ALL" \in session.flags /\ Goto("ready", Received)
     \/ "EPSV_ALL" \notin session.flags /\ Passive(Received)

core_epsv == Sends("ready") /\ core_pre_any /\ Passive(Received)

EpsvAll ==
  Sends("ready") /\ core_pre_any /\ Goto("ready", Set(Received, {"EPSV_ALL"}))

\* PORT and EPRT.
core_port ==
  /\ Sends("ready") /\ core_pre_any
  /\ \/ Goto("ready", Received)
     \/ /\ "EPSV_ALL" \notin session.flags
        /\ Goto("ready", [Clear(Received, {"PASSIVE"}) EXCEPT !.d = "none"])

\* ABOR between transfers.
Abor == Sends("ready") /\ core_pre_any /\ Goto("ready", xfer_abor(Received))

\* RNFR keeps the path in session.xfer, and a note of it in session.notes.
core_rnfr ==
  /\ Sends("ready") /\ core_pre_any
  /\ \/ Goto("ready", Received)
     \/ Goto("ready", [Received EXCEPT !.path = "rnfr", !.rnfr = TRUE])

\* RNTO, done or not, and core_rnto_cleanup().
core_rnto ==
  /\ Sends("ready")
  /\ Goto("ready", [pr_data_clear_xfer_pool(Received)
                      EXCEPT !.xfer_type = "DEFAULT", !.rnfr = FALSE])

\* REST, also while pr_data_xfer() reads the control connection: refused, or
\* with a position that is 0 or not.  marked: for the next transfer command.
xfer_rest ==
  /\ \/ Sends("ready") /\ core_pre_any
     \/ Sends("xfer") /\ "ABORT" \notin session.flags
  /\ LET s == IF phase = "ready" THEN Received ELSE session
     IN  \/ Goto(phase, s)
         \/ \E pos \in BOOLEAN : Goto(phase, [s EXCEPT !.restart_pos = pos, !.marked = pos])

-----------------------------------------------------------------------------
(* A command that transfers data.                                          *)

\* What the handler of cmd does about its file when the transfer fails.
AbortCmdFile(s) ==
  CASE cmd \in Uploads -> stor_abort(s)
    [] cmd = "RETR" -> retr_abort(s)
    [] OTHER -> s

\* The PRE_CMD handlers: the types with which they let the command go on.
xfer_pre_stor(s, type) ==
  IF ~s.hidden THEN {type}
  ELSE IF s.restart_pos \/ type = "APPEND" THEN {} ELSE {"HIDDEN"}

xfer_pre_stou(s) == IF s.restart_pos THEN {} ELSE {"UNIQUE"}

xfer_pre_appe(s) == xfer_pre_stor(s, "APPEND")

Types(c, s) ==
  CASE c = "STOR" -> xfer_pre_stor(s, s.xfer_type)
    [] c = "APPE" -> xfer_pre_appe(s)
    [] c = "STOU" -> xfer_pre_stou(s)
    [] OTHER -> {s.xfer_type}

\* The handler up to pr_data_open(): RETR and the uploads open the file, go to
\* the restart position and call pr_data_init().
Begin(c) ==
  /\ core_pre_any
  /\ \E type \in Types(c, session) :
       session' = [Received EXCEPT
                     !.direction = Direction(c),
                     !.path = IF c \in FileCmds THEN "xfer" ELSE "none",
                     !.xfer_type = type,
                     !.restart_pos = @ /\ c \notin FileCmds,
                     !.marked = @ /\ c \notin FileCmds,
                     !.fh = CASE c \in Uploads -> "stor" [] c = "RETR" -> "retr" [] OTHER -> @,
                     !.file = IF c \in Uploads THEN "partial" ELSE @]
  /\ phase' = "start" /\ result' = "none"

\* All may be rejected, and all but LIST may fail before they come to open the
\* data connection, with session.xfer as far as the handlers had come.
EarlyError(c) ==
  /\ \/ ~core_pre_any /\ session' = [Received EXCEPT !.marked = @ /\ c \notin FileCmds]
     \/ core_pre_any /\ c \in Listings \ {"LIST"} /\ session' = Received
     \/ /\ core_pre_any /\ c \in FileCmds
        /\ \E type \in Types(c, session) \cup {session.xfer_type, "DEFAULT"},
              path \in {"none"} \cup (IF c \in Uploads THEN {"xfer"} ELSE {}),
              pos \in {session.restart_pos, FALSE} :
             session' = [Received EXCEPT !.xfer_type = type, !.path = path,
                                         !.restart_pos = pos, !.marked = FALSE]
  /\ phase' = "log" /\ result' = "err"

DataCommand ==
  /\ Sends("ready")
  /\ \E c \in DataCmds : cmd' = c /\ (Begin(c) \/ EarlyError(c))
  /\ UNCHANGED <<ended, silent>>

\* Mutant of OpenFailed: RETR and uploads only return the error.
OpenFailedPlain(s) == Return([s EXCEPT !.d = "none"], "err")

\* pr_data_open() returns -1.  LIST ends with ls_done() if SF_XFER is set.
OpenFailed(s) ==
  LET t == AbortCmdFile([s EXCEPT !.d = "none"])
  IN  Return(CASE cmd \in FileCmds -> pr_data_abort(t)
               [] cmd = "LIST" /\ "XFER" \in t.flags -> pr_data_close(t)
               [] OTHER -> t, "err")

\* Mutant of StallWatch: only a passive connection is watched.
StallWatchPassive(s) ==
  IF TimeoutStalled /\ "PASSIVE" \in s.flags THEN pr_timer_add(s, "STALLED") ELSE s

StallWatch(s) == IF TimeoutStalled THEN pr_timer_add(s, "STALLED") ELSE s

IsPassive(s) == {"PASSIVE", "EPSV_ALL"} \cap s.flags # {}

\* pr_data_open() up to accept(2) or connect(2).
pr_data_open ==
  LET s == Clear(session, {"ABORT"}) IN
  /\ phase = "start"
  /\ \/ IsPassive(s) /\ s.d = "none" /\ Disconnect(s, "no listener")
     \/ ~IsPassive(s) /\ s.d # "none" /\ Disconnect(s, "stray connection")
     \/ ~IsPassive(s) /\ s.d = "none" /\ OpenFailed(s)
     \/ ~IsPassive(s) /\ s.d = "none" /\ Goto("opening", StallWatch([s EXCEPT !.d = "bound"]))
     \/ IsPassive(s) /\ s.d # "none" /\ Goto("opening", StallWatch(s))

\* accept(2) or connect(2) fails, or a hook on the new connection does.
OpenError == phase = "opening" /\ OpenFailed(session)

\* The connection is open: the end of pr_data_open().
Opened ==
  /\ phase = "opening" /\ ~silent
  /\ session.d = (IF IsPassive(session) THEN "listening" ELSE "bound")
  /\ Goto("xfer", pr_timer_reset(
       Set([session EXCEPT !.d = "open"],
           {"XFER"} \cup (IF cmd \in Listings THEN {"ASCII_OVERRIDE"} ELSE {})), "NOXFER"))

\* Some data went through.
pr_data_xfer ==
  /\ phase = "xfer" /\ ~silent
  /\ Goto("xfer", ResetIdle(pr_timer_reset(session, "STALLED")))

\* SIGURG, while the handler is installed.
data_urgent ==
  /\ phase \in {"xfer", "closing"} /\ "XFER" \in session.flags /\ ~silent
  /\ Goto(phase, Set(session, {"ABORT"}))

\* The handler sees SF_ABORT.  MLSD calls pr_data_close() after
\* pr_data_abort().
Aborted ==
  /\ phase = "xfer" /\ "ABORT" \in session.flags
  /\ Close(AbortCmdFile(session), IF cmd = "MLSD" THEN "ok" ELSE "err")

\* ABOR on the control connection is dispatched by pr_data_xfer().  (The
\* commands it refuses and NOOP change nothing, and other commands do not use
\* the data connection.)
AborInTransfer ==
  /\ Sends("xfer") /\ "ABORT" \notin session.flags
  /\ Goto("gone", xfer_abor(session))

\* What follows when pr_data_xfer() finds no data connection.  sendline() and
\* facts_mlinfobuf_flush() set SF_ASCII_OVERRIDE again, NLST and MLSD ignore
\* the error and close, and so does LIST at its unchecked flush.
Gone ==
  LET s == IF cmd \in Listings THEN Set(session, {"ASCII_OVERRIDE"}) ELSE session IN
  /\ phase = "gone"
  /\ \/ cmd \in FileCmds \cup {"LIST"} /\ Return(pr_data_abort(AbortCmdFile(s)), "err")
     \/ cmd = "LIST" /\ Return(s, "ok")
     \/ cmd \in {"NLST", "MLSD"} /\ Return(pr_data_close(s), "ok")

\* An error on the data connection or, for RETR and uploads, a limit on the
\* size.  NLST and MLSD ignore it.
DataError ==
  /\ phase = "xfer" /\ "ABORT" \notin session.flags
  /\ IF cmd \in {"NLST", "MLSD"} THEN Close(session, "ok")
                                 ELSE Close(AbortCmdFile(session), "err")

\* The end of a listing.  The last entries of MLSD may be out when the abort
\* arrives.
ListDone ==
  /\ phase = "xfer" /\ cmd \in Listings
  /\ "ABORT" \notin session.flags \/ cmd = "MLSD"
  /\ Close(session, "ok")

\* The end of a download: the whole file is sent, or nothing more can be read
\* from it, which makes no difference here.
RetrDone ==
  /\ phase = "xfer" /\ cmd = "RETR" /\ "ABORT" \notin session.flags
  /\ Close([session EXCEPT !.fh = "none"], "ok")

\* The end of an upload: stor_complete(), and the rename of a hidden file.  If
\* one of them fails the handler returns without closing the connection.
StorDone ==
  /\ phase = "xfer" /\ cmd \in Uploads /\ "ABORT" \notin session.flags
  /\ \/ Close([session EXCEPT !.fh = "none", !.file = "whole"], "ok")
     \/ Return([session EXCEPT !.fh = "none",
                               !.file = IF session.xfer_type = "HIDDEN"
                                          THEN "none" ELSE "failed"], "err")

\* pr_data_close() or pr_data_abort() is done lingering.
Closed ==
  /\ phase = "closing"
  /\ Return(IF result = "ok" THEN pr_data_close(session) ELSE pr_data_abort(session), result)

\* The LOG_CMD and LOG_CMD_ERR handlers, and the response.
LogCmd ==
  /\ phase = "log"
  /\ phase' = "ready" /\ cmd' = "none" /\ result' = "none"
  /\ session' = LET s == IF cmd \in Uploads /\ result = "ok"
                           THEN [session EXCEPT !.file = "acked"] ELSE session
                IN  CASE cmd \in {"LIST", "NLST"} -> pr_data_cleanup(s)
                      [] cmd = "MLSD" -> pr_data_clear_xfer_pool(s)
                      [] OTHER -> IF result = "ok" THEN xfer_log_stor(s)
                                                   ELSE xfer_err_cleanup(s)
  /\ UNCHANGED <<ended, silent>>

-----------------------------------------------------------------------------
(* Timers and the end of the session.                                      *)

\* The interval of timer t has passed.
Age(t) ==
  /\ phase \in Waiting /\ session.timers[t] = "fresh"
  /\ Goto(phase, [session EXCEPT !.timers[t] = "due"])

Due(t) == phase \in Waiting /\ session.timers[t] = "due"

auth_login_timeout_cb == Due("LOGIN") /\ Disconnect(session, "TimeoutLogin")

\* Mutant of TransferGoesOn: a connection that waits for the client counts.
ConnectionUp == session.d # "none"
TransferGoesOn == "XFER" \in session.flags

\* The session without timers ts: pr_timer_remove() for each.
Unscheduled(ts) ==
  [session EXCEPT !.timers = [t \in TimerIds |-> IF t \in ts THEN "off" ELSE @[t]]]

\* Both return 1, to start the timer again, while a transfer goes on.
core_idle_timeout_cb ==
  /\ Due("IDLE")
  /\ IF TransferGoesOn THEN Goto(phase, [session EXCEPT !.timers["IDLE"] = "fresh"])
                       ELSE Disconnect(Unscheduled({"LOGIN", "NOXFER"}), "TimeoutIdle")

noxfer_timeout_cb ==
  /\ Due("NOXFER")
  /\ IF TransferGoesOn THEN Goto(phase, [session EXCEPT !.timers["NOXFER"] = "fresh"])
                       ELSE Disconnect(Unscheduled({"LOGIN", "IDLE"}), "TimeoutNoTransfer")

stalled_timeout_cb ==
  Due("STALLED") /\ Disconnect(xfer_xfer_stalled_ev(session), "TimeoutStalled")

\* QUIT or the end of the control connection, and SIGTERM.
Leave ==
  /\ \E p \in {"auth", "ready", "xfer"} : Sends(p)
  /\ phase = "xfer" => "ABORT" \notin session.flags
  /\ Disconnect(session, "client")

Terminate == phase \in Waiting /\ Disconnect(session, "SIGTERM")

-----------------------------------------------------------------------------
\* What the client does, by a command, a connection or data.
Client ==
  \/ AuthCommand \/ Login \/ core_pasv \/ core_epsv \/ EpsvAll \/ core_port
  \/ core_rnfr \/ core_rnto \/ xfer_rest \/ Rejected
  \/ Abor \/ DataCommand \/ Opened \/ pr_data_xfer \/ data_urgent
  \/ AborInTransfer \/ Leave

\* What the server does by itself.
Server ==
  \/ pr_data_open \/ Aborted \/ Gone \/ Closed \/ LogCmd
  \/ session.d # "listening" /\ OpenError

Timeouts ==
  \/ auth_login_timeout_cb \/ core_idle_timeout_cb
  \/ noxfer_timeout_cb \/ stalled_timeout_cb

\* What depends on both, on the file system or on the administrator.
Environment ==
  OpenError \/ DataError \/ ListDone \/ RetrDone \/ StorDone \/ Terminate

\* The client's host crashes or its network fails: nothing arrives any more.
FallSilent ==
  /\ ~silent /\ silent' = TRUE
  /\ phase # "ended"
  /\ UNCHANGED <<session, phase, cmd, result, ended>>

Next ==
  \/ Client \/ FallSilent \/ Server \/ Timeouts \/ Environment
  \/ \E t \in TimerIds : Age(t)

Spec == Init /\ [][Next]_vars

\* Time passes, a timer that is due goes off (module Timers), and the process
\* runs when it has something to do.
Fairness ==
  /\ WF_vars(Server)
  /\ \A t \in TimerIds : WF_vars(Age(t))
  /\ WF_vars(auth_login_timeout_cb) /\ WF_vars(core_idle_timeout_cb)
  /\ WF_vars(noxfer_timeout_cb) /\ WF_vars(stalled_timeout_cb)

FairSpec == Spec /\ Fairness

-----------------------------------------------------------------------------
(* Properties.                                                             *)

\* The fields of the session have the values the code gives them, and the
\* login timer is off the list once the client has logged in.
TypeOK ==
  /\ session \in [flags : SUBSET Flags,
                  d : {"none", "bound", "listening", "open"},
                  direction : {"none", "RD", "WR"},
                  path : {"none", "xfer", "rnfr"},
                  xfer_type : {"DEFAULT", "HIDDEN", "APPEND", "UNIQUE"},
                  restart_pos : BOOLEAN, marked : BOOLEAN, rnfr : BOOLEAN,
                  fh : {"none", "stor", "retr"},
                  file : {"none", "partial", "whole", "acked", "failed"},
                  timers : [TimerIds -> {"off", "fresh", "due"}],
                  timeout_idle : {TimeoutIdle, UserTimeoutIdle},
                  hidden : BOOLEAN]
  /\ phase \in Phases
  /\ phase \notin {"auth", "ended"} => session.timers["LOGIN"] = "off"
  /\ cmd \in DataCmds \cup {"none"}
  /\ result \in {"none", "ok", "err"}
  /\ silent \in BOOLEAN
  /\ ended \in {"no", "no listener", "stray connection", "client", "SIGTERM",
                "TimeoutLogin", "TimeoutIdle", "TimeoutNoTransfer", "TimeoutStalled"}

\* Whatever way a transfer ends (done, failed, aborted by SIGURG or by ABOR),
\* cmd_loop() reads the next command with no file open in stor_fh or retr_fh,
\* and with all fields of the session as they may be.
FilesClosed == TypeOK /\ (phase = "ready" => session.fh = "none")

\* A file whose upload was acknowledged with 226 is only changed by another
\* upload: neither an ABOR nor a timeout that comes later makes stor_abort()
\* delete it.  With HiddenStores this holds from the rename on.
UploadKept ==
  [][session.file = "acked" \/ (session.xfer_type = "HIDDEN" /\ session.file = "whole")
       => session'.file \in {session.file, "acked"} \/ phase' = "start"]_vars

\* With DeleteAbortedStores no partial upload is left when a transfer has
\* ended by an abort, an error or the end of the session, nor when the client
\* stalled before it opened the data connection.
AbortedStoresDeleted ==
  [][/\ DeleteAbortedStores
     /\ \/ phase \in {"xfer", "gone", "closing", "log"} /\ phase' \in {"ready", "ended"}
        \/ phase = "opening" /\ ended' = "TimeoutStalled"
     => session'.file # "partial"]_vars

\* A transfer is what its own command asks for, whatever the commands before it
\* left in the session (Bug#3612): STOR replaces the file, or a hidden one, APPE
\* appends and STOU makes a new one; none starts at a position given by REST to
\* an earlier transfer; none uses session.xfer between RNFR and RNTO
\* (Bug#3829), so that RNTO never renames the file of a transfer.
OwnCommandOnly ==
  [][/\ phase = "ready" /\ phase' = "start" =>
          /\ cmd' = "STOR" =>
               session'.xfer_type = IF session.hidden THEN "HIDDEN" ELSE "DEFAULT"
          /\ cmd' = "APPE" => session'.xfer_type = "APPEND"
          /\ cmd' = "STOU" => session'.xfer_type = "UNIQUE"
          /\ cmd' \in FileCmds /\ session.restart_pos => session.marked
          /\ ~session.rnfr
     /\ phase' = "ready" =>
          session'.path = "none" \/ (session'.path = "rnfr" /\ session'.rnfr)]_vars

\* From the wait for a data connection to its close the stall timer is on the
\* list, if TimeoutStalled is set, so that no wait is without end; and the
\* transfer itself is never cut by TimeoutIdle or TimeoutNoTransfer.
TransferWatched ==
  [][/\ TimeoutStalled /\ phase' \in {"opening", "xfer", "closing"} =>
          session'.timers["STALLED"] # "off"
     /\ ended' \in {"TimeoutIdle", "TimeoutNoTransfer"} /\ ended = "no" =>
          phase \notin {"xfer", "closing"}]_vars

\* No client keeps a session without using it.  One that does not log in is
\* disconnected by auth_login_timeout_cb(), whatever commands it sends, and one
\* that has fallen silent on both connections by core_idle_timeout_cb() or, if
\* SF_XFER puts that off, by stalled_timeout_cb().
UselessSessionsEnd == <>(phase # "auth") /\ (silent ~> (phase = "ended"))

-----------------------------------------------------------------------------
(* What documents, comments and messages say, and the code does not do.    *)

\* "The TimeoutIdle directive configures the maximum number of seconds that
\* proftpd will allow clients to stay connected without receiving any data on
\* either the control or data connection." (doc/Configuration.html:27650): a
\* session whose client is silent ends, unless it is in a transfer.
IdleSessionEnds == silent ~> (phase \in {"xfer", "closing", "ended"})
=============================================================================
