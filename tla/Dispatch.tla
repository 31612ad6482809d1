------------------------------ MODULE Dispatch ------------------------------
(***************************************************************************)
(* The dispatch of a command through its phases (src/main.c), the lists of *)
(* responses the handlers add to (src/response.c), and the commands that   *)
(* are dispatched while another one is: by pr_data_xfer() when the client  *)
(* sends a command in the middle of a transfer (src/data.c), and by the    *)
(* handlers of USER and OPTS.                                              *)
(*                                                                         *)
(* What the handlers of the modules do is open, within their contract: one *)
(* that returns an error adds an error response or sends one, and one that *)
(* handles the command adds a response, sends one, or has dispatched a     *)
(* command that was answered.  A response is its code and the command that *)
(* was being dispatched when it was added; texts are left out.             *)
(***************************************************************************)
EXTENDS Integers, Sequences

CONSTANTS
  Codes,          \* the codes of responses, ordered as strcmp() orders them
  MaxCommands,    \* bound on the commands dispatched
  MaxAdds         \* bound on the responses in a list

ASSUME DispatchAssumption ==
  /\ Codes \subseteq Nat \ {0}
  /\ MaxCommands \in Nat /\ MaxAdds \in Nat

VARIABLES
  stack,          \* the dispatches in progress, the innermost last
  resp_list,      \* responses if the command succeeds
  resp_err_list,  \* and if it fails
  resp_pool,      \* the command whose pool responses are taken from; 0 is none
  resp_last,      \* the command that resp_last_response_code is of; 0 is none
  out,            \* what the last step sent to the client
  commands,       \* how many commands have been dispatched
  ended           \* the session is over

vars == <<stack, resp_list, resp_err_list, resp_pool, resp_last, out, commands, ended>>

R_DUP == 0
Nums == Codes \cup {R_DUP}
Responses == [num : Nums, cmd : 1..MaxCommands]

Top == stack[Len(stack)]
Idle == stack = <<>> /\ ~ended
Running(l) == stack # <<>> /\ Top.at = l /\ ~ended

-----------------------------------------------------------------------------
(* Responses.                                                              *)

\* pr_response_add() and pr_response_add_err(): responses without a code get
\* the first one given, and the list is kept in the order of the codes.
pr_response_add(list, r) ==
  LET l == [i \in DOMAIN list |->
              IF list[i].num = R_DUP THEN [list[i] EXCEPT !.num = r.num] ELSE list[i]]
      i == IF r.num = R_DUP THEN Len(l)
           ELSE CHOOSE j \in 0..Len(l) :
                  /\ \A k \in 1..j : l[k].num <= r.num
                  /\ j < Len(l) => l[j + 1].num > r.num
  IN  SubSeq(l, 1, i) \o <<r>> \o SubSeq(l, i + 1, Len(l))

\* Mutant of EndOfMultiline: only another code ends a reply of several lines.
EndAtOtherCode(l, i, last) == l[i].num \notin {R_DUP, last}

EndOfMultiline(l, i, last) == i = Len(l) \/ l[i].num \notin {R_DUP, last}

StartOfMultiline(l, i) == i < Len(l) /\ l[i + 1].num \in {R_DUP, l[i].num}

\* The loop of pr_response_flush(): the lines sent up to the i-th response, and
\* the code of the reply of several lines that is open, or 0.
Flushed(l) ==
  LET f[i \in 0..Len(l)] ==
        IF i = 0 THEN [ml |-> 0, lines |-> <<>>]
        ELSE LET p == f[i - 1]
                 Line(num, sep, ml) ==
                   [ml |-> ml,
                    lines |-> Append(p.lines, [num |-> num, sep |-> sep, cmd |-> l[i].cmd])]
             IN  IF p.ml # 0
                   THEN IF EndOfMultiline(l, i, p.ml) THEN Line(p.ml, "end", 0)
                                                      ELSE Line(p.ml, "inner", p.ml)
                   ELSE IF StartOfMultiline(l, i) THEN Line(l[i].num, "start", l[i].num)
                                                  ELSE Line(l[i].num, "single", 0)
  IN  f[Len(l)].lines

\* pr_response_send(): a reply of one line, by-passing the lists.
Direct(num, c) == <<[num |-> num, sep |-> "single", cmd |-> c]>>

\* Mutant of pr_response_flush: what was last sent is not forgotten.
FlushKeepsLast(l) == out' = Flushed(l) /\ resp_last' = resp_last

pr_response_flush(l) == out' = Flushed(l) /\ resp_last' = 0

\* Mutant of ClearResponses: left to the flush at the end of a command.
ClearLater == UNCHANGED <<resp_list, resp_err_list>>

\* PR_CMD_DISPATCH_FL_CLEAR_RESPONSE.
ClearResponses == resp_list' = <<>> /\ resp_err_list' = <<>>

-----------------------------------------------------------------------------
(* The phases of a command.                                                *)

Any == {"PRE*", "CMD*", "POST*", "LOG*", "POST_ERR*", "LOG_ERR*"}
Specific == {"PRE", "CMD", "POST", "LOG", "POST_ERR", "LOG_ERR"}
Ends == {"flush", "flush_err"}

\* Mutant of EndOf: the list of responses is flushed whatever the outcome.
EndAlike(at) == "flush"

EndOf(at) == IF at = "LOG" THEN "flush" ELSE "flush_err"

\* pr_cmd_dispatch_phase() for all phases: which call of _dispatch() follows
\* the one at l when that returned r.  The labels with a star are the calls for
\* C_ANY.  When a PRE_CMD handler failed all of the rest is called.
After(f, r) ==
  CASE f.at = "PRE*" -> IF r = 0 THEN "PRE" ELSE IF r < 0 THEN "POST_ERR*" ELSE "CMD*"
    [] f.at = "PRE" -> IF r < 0 THEN "POST_ERR*" ELSE "CMD*"
    [] f.at = "CMD*" -> IF r = 0 THEN "CMD" ELSE IF r < 0 THEN "POST_ERR*" ELSE "POST*"
    [] f.at = "CMD" -> IF r < 0 THEN "POST_ERR*" ELSE "POST*"
    [] f.at = "POST*" -> IF r = 0 THEN "POST" ELSE "LOG*"
    [] f.at = "POST" -> "LOG*"
    [] f.at = "LOG*" -> "LOG"
    [] f.at \in {"LOG", "LOG_ERR"} -> EndOf(f.at)
    [] f.at = "POST_ERR*" -> IF r = 0 \/ f.pre THEN "POST_ERR" ELSE "LOG_ERR*"
    [] f.at = "POST_ERR" -> "LOG_ERR*"
    [] f.at = "LOG_ERR*" -> "LOG_ERR"

Advance(r, answered) ==
  [Top EXCEPT !.at = After(Top, r),
              !.pre = @ \/ (Top.at \in {"PRE*", "PRE"} /\ r < 0),
              !.answered = @ \/ answered]

SetTop(f) == [stack EXCEPT ![Len(stack)] = f]

\* _dispatch() without a response from the handlers: all of them decline, or
\* the first that does not says r, or one of a log phase fails, which only
\* that phase ignores.
Silent ==
  /\ stack # <<>> /\ Top.at \in Any \cup Specific /\ ~ended
  /\ \E r \in CASE Top.at \in {"PRE*", "PRE"} -> {0, 1}
                [] Top.at = "CMD*" -> {0}
                [] Top.at = "CMD" -> IF Top.answered THEN {1, -1} ELSE {}
                [] Top.at \in {"LOG*", "LOG", "LOG_ERR*", "LOG_ERR"} -> {0, 1}
                [] OTHER -> {-1, 0, 1} :
       stack' = SetTop(Advance(r, FALSE))
  /\ out' = <<>>
  /\ UNCHANGED <<resp_list, resp_err_list, resp_pool, resp_last, commands, ended>>

\* A handler adds to the list of responses.  In a PRE_CMD handler that is a
\* remark, on which the command goes on.
AddResponse ==
  /\ stack # <<>> /\ Top.at \in {"PRE", "CMD", "POST"} /\ ~ended
  /\ Len(resp_list) < MaxAdds
  /\ \E num \in Nums :
       /\ num = R_DUP => resp_list # <<>>
       /\ resp_list' = pr_response_add(resp_list, [num |-> num, cmd |-> resp_pool])
  /\ resp_last' = resp_pool
  /\ \E go \in IF Top.at = "CMD" THEN {FALSE, TRUE} ELSE {TRUE} :
       stack' = IF go THEN SetTop(Advance(IF Top.at = "CMD" THEN 1 ELSE 0, FALSE)) ELSE stack
  /\ out' = <<>>
  /\ UNCHANGED <<resp_err_list, resp_pool, commands, ended>>

\* A handler adds an error response, or returns an error with a message, which
\* _dispatch() adds.  No handler for a command is an error, too.  xfer_abor()
\* handles the command, although pr_data_abort() added an error response: it
\* adds a response after that.
AddError ==
  /\ stack # <<>> /\ Top.at \in {"PRE*", "PRE", "CMD*", "CMD", "POST_ERR"} /\ ~ended
  /\ Len(resp_err_list) < MaxAdds
  /\ \E num \in Codes :
       resp_err_list' = pr_response_add(resp_err_list, [num |-> num, cmd |-> resp_pool])
  /\ resp_last' = resp_pool
  /\ \E go \in IF Top.at = "CMD" /\ Len(resp_list) < MaxAdds THEN {FALSE, TRUE} ELSE {TRUE} :
       stack' = IF go THEN SetTop(Advance(-1, FALSE)) ELSE stack
  /\ out' = <<>>
  /\ UNCHANGED <<resp_list, resp_pool, commands, ended>>

\* The reply is sent at once: by cmd_auth_chk(), for which _dispatch() returns
\* -1, or by a handler.
SendResponse ==
  /\ stack # <<>> /\ Top.at \in {"PRE", "CMD"} /\ ~ended
  /\ \E num \in Codes : out' = Direct(num, Top.id)
  /\ resp_last' = resp_pool
  /\ \E r \in IF Top.at = "CMD" THEN {-1, 1} ELSE {-1} : stack' = SetTop(Advance(r, TRUE))
  /\ UNCHANGED <<resp_list, resp_err_list, resp_pool, commands, ended>>

\* pr_cmd_dispatch() begins.  kind is "plain" or "transfer" for a command read
\* by cmd_loop(), "read" for one read during a transfer, and "sub" for one that
\* a handler made up.
Begin(kind) ==
  /\ commands < MaxCommands
  /\ commands' = commands + 1
  /\ ClearResponses
  /\ stack' = Append(stack, [id |-> commands + 1, kind |-> kind, saved |-> resp_pool,
                             at |-> "PRE*", pre |-> FALSE, answered |-> FALSE])
  /\ resp_pool' = commands + 1
  /\ resp_last' = 0
  /\ out' = <<>> /\ UNCHANGED ended

\* cmd_loop() has read a command.
ReadCommand == Idle /\ \E kind \in {"plain", "transfer"} : Begin(kind)

InTransfer == Running("CMD") /\ Top.kind = "transfer" /\ commands < MaxCommands

\* Something that is no command, in cmd_loop() or in a transfer.
InvalidCommand ==
  /\ (Idle /\ commands < MaxCommands) \/ InTransfer
  /\ commands' = commands + 1
  /\ \E num \in Codes : out' = Direct(num, commands + 1)
  /\ resp_last' = IF resp_pool = 0 THEN 0 ELSE commands + 1
  /\ UNCHANGED <<stack, resp_list, resp_err_list, resp_pool, ended>>

\* A handler dispatches a command: ABOR, QUIT and the like during a transfer,
\* PASS for USER, and the option for OPTS.
Nested ==
  \/ InTransfer /\ Begin("read")
  \/ Running("CMD") /\ Top.kind = "plain" /\ ~Top.answered /\ Begin("sub")

\* A command refused during a transfer, or NOOP: the lists are dropped, the
\* reply is added to one of them and flushed.
RefusedInTransfer ==
  /\ InTransfer
  /\ commands' = commands + 1
  /\ \E num \in Codes : pr_response_flush(<<[num |-> num, cmd |-> commands + 1]>>)
  /\ ClearResponses
  /\ UNCHANGED <<stack, resp_pool, ended>>

\* Mutant of RestorePool: the pool stays that of the command just dispatched.
KeepPool == UNCHANGED resp_pool

RestorePool == resp_pool' = Top.saved

\* The dispatch in progress when the innermost one is done.  A command that a
\* handler made up is answered in place of the handler's own.
Popped ==
  LET rest == SubSeq(stack, 1, Len(stack) - 1)
  IN  IF Top.kind = "sub" THEN [rest EXCEPT ![Len(rest)].answered = TRUE] ELSE rest

\* The end of pr_cmd_dispatch_phase().  If resp_pool becomes NULL the last
\* response is forgotten, as it is by the flush anyway.
Finish ==
  /\ stack # <<>> /\ Top.at \in Ends /\ ~ended
  /\ IF Top.at = "flush"
       THEN pr_response_flush(resp_list) /\ resp_list' = <<>> /\ UNCHANGED resp_err_list
       ELSE pr_response_flush(resp_err_list) /\ resp_err_list' = <<>> /\ UNCHANGED resp_list
  /\ stack' = Popped
  /\ RestorePool
  /\ UNCHANGED <<commands, ended>>

\* The control connection ends, or a handler ends the session.
Disconnect ==
  /\ ~ended /\ ended' = TRUE /\ out' = <<>>
  /\ UNCHANGED <<stack, resp_list, resp_err_list, resp_pool, resp_last, commands>>

Init ==
  /\ stack = <<>> /\ resp_list = <<>> /\ resp_err_list = <<>>
  /\ resp_pool = 0 /\ resp_last = 0 /\ out = <<>> /\ commands = 0 /\ ended = FALSE

Next ==
  \/ ReadCommand \/ InvalidCommand \/ Nested \/ RefusedInTransfer
  \/ Silent \/ AddResponse \/ AddError \/ SendResponse \/ Finish \/ Disconnect

Spec == Init /\ [][Next]_vars

-----------------------------------------------------------------------------
(* Properties.                                                             *)

TypeOK ==
  /\ Len(stack) <= 2
  /\ \A i \in DOMAIN stack :
       stack[i] \in [id : 1..MaxCommands, kind : {"plain", "transfer", "read", "sub"},
                     saved : 0..MaxCommands, at : Any \cup Specific \cup Ends,
                     pre : BOOLEAN, answered : BOOLEAN]
  /\ \A l \in {resp_list, resp_err_list} :
       Len(l) <= MaxAdds /\ \A i \in DOMAIN l : l[i] \in Responses
  /\ resp_pool \in 0..MaxCommands /\ resp_last \in 0..MaxCommands
  /\ commands \in 0..MaxCommands /\ ended \in BOOLEAN

\* Whatever codes the handlers add, with or without R_DUP and in any order,
\* pr_response_flush() sends whole replies: one of several lines that was begun
\* with a code is ended with that code before the next begins, so that a client
\* never waits for the end of a reply; and all variables have their types.
WholeReplies ==
  /\ TypeOK
  /\ \A i \in DOMAIN out :
       /\ out[i].num # R_DUP
       /\ out[i].sep \in {"inner", "end"} =>
            i > 1 /\ out[i - 1].sep \in {"start", "inner"} /\ out[i - 1].num = out[i].num
       /\ out[i].sep \in {"start", "inner"} =>
            i < Len(out) /\ out[i + 1].sep \in {"inner", "end"}

\* A command is answered when its dispatch ends: from the list that goes with
\* its outcome, at once by a handler, or through the command its handler
\* dispatched.
EveryCommandAnswered == [][Finish => out' # <<>> \/ Top.answered]_vars

\* What a command flushes was added since its dispatch began, by itself or by a
\* command within it: pr_cmd_dispatch_phase() clears both lists first, since the
\* last command may have added to the list that was not flushed.
NoStaleResponse == [][Finish => \A i \in DOMAIN out' : out'[i].cmd >= Top.id]_vars

\* The handlers of a command allocate responses from that command's pool, also
\* after another command was dispatched and its pool destroyed.
PoolOfRunningCommand == stack # <<>> => resp_pool = Top.id

\* The response the log handlers get from pr_response_get_last() is the
\* command's own, or none: never that of a command dispatched within it.
LogsOwnResponse ==
  /\ stack # <<>> /\ Top.at \in {"LOG*", "LOG", "LOG_ERR*", "LOG_ERR"}
  => resp_last \in {0, Top.id}
=============================================================================
