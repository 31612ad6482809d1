--------------------------- MODULE DispatchProofs ---------------------------
(***************************************************************************)
(* For any number of commands, and whatever the handlers add or send: the  *)
(* pool of responses and the last response are those of the command that   *)
(* is being dispatched, also after another was dispatched within it.       *)
(***************************************************************************)
EXTENDS Dispatch, SequenceTheorems, TLAPS

Frame == [id : Nat, kind : {"plain", "transfer", "read", "sub"}, saved : Nat,
          at : Any \cup Specific \cup Ends, pre : BOOLEAN, answered : BOOLEAN]

\* A command is not answered before its handler has run, nor one that transfers
\* before its handler has returned.
Unanswered(f) ==
  f.answered => f.at \notin {"PRE*", "PRE", "CMD*"} /\ (f.kind = "transfer" => f.at # "CMD")

\* A dispatch restores the pool of the one it interrupted.  Only a handler of
\* a plain command makes up another, so a transfer's is not answered by one.
Saved == \A i \in DOMAIN stack :
           /\ stack[i].saved = IF i = 1 THEN 0 ELSE stack[i - 1].id
           /\ stack[i].kind = "sub" => i > 1 /\ stack[i - 1].kind = "plain"
           /\ Unanswered(stack[i])
           /\ i < Len(stack) => stack[i].at = "CMD"
Pool == IF stack = <<>> THEN resp_pool = 0 /\ resp_last = 0 ELSE resp_pool = Top.id

\* The last response is another command's only while a transfer's handler
\* reads commands, and that handler has yet to answer.
Last == stack # <<>> /\ (Top.kind # "transfer" \/ Top.at # "CMD") => resp_last \in {0, Top.id}

SInv == /\ stack \in Seq(Frame) /\ commands \in Nat /\ resp_pool \in Nat
        /\ Saved /\ Pool /\ Last

\* A sequence with one element replaced.
LEMMA Replaced ==
  ASSUME NEW q \in Seq(Frame), NEW i \in 1..Len(q), NEW f \in Frame
  PROVE  /\ [q EXCEPT ![i] = f] \in Seq(Frame) /\ Len([q EXCEPT ![i] = f]) = Len(q)
         /\ DOMAIN [q EXCEPT ![i] = f] = 1..Len(q)
         /\ \A j \in 1..Len(q) : [q EXCEPT ![i] = f][j] = IF j = i THEN f ELSE q[j]
  OBVIOUS

\* Nothing is dispatched before cmd_loop() reads a command.
LEMMA SInit == Init => SInv
<1> SUFFICES ASSUME Init PROVE SInv
  OBVIOUS
<1>1. stack \in Seq(Frame) /\ DOMAIN stack = {}
  BY EmptySeq DEF Init
<1> QED BY <1>1 DEF Init, SInv, Saved, Pool, Last

\* The innermost dispatch goes on, or only its responses change.
LEMMA TopKept ==
  ASSUME SInv, stack # <<>>, NEW f \in Frame, stack' = SetTop(f),
         f.id = Top.id, f.kind = Top.kind, f.saved = Top.saved,
         Unanswered(f),
         f.kind # "transfer" \/ f.at # "CMD" => resp_last' \in {0, Top.id},
         UNCHANGED <<resp_pool, commands>>
  PROVE  SInv'
<1> USE DEF SInv
<1>1. Len(stack) \in Nat /\ Len(stack) > 0 /\ DOMAIN stack = 1..Len(stack)
  BY EmptySeq
<1>2. /\ stack' \in Seq(Frame) /\ Len(stack') = Len(stack) /\ DOMAIN stack' = DOMAIN stack
      /\ stack'[Len(stack)] = f
      /\ \A i \in DOMAIN stack : i # Len(stack) => stack'[i] = stack[i]
  BY <1>1 DEF SetTop
<1>3. Top' = f /\ stack' # <<>>
  BY <1>1, <1>2, EmptySeq DEF Top
<1>4. \A i \in DOMAIN stack : stack'[i].id = stack[i].id /\ stack'[i].kind = stack[i].kind
                              /\ stack'[i].saved = stack[i].saved
  BY <1>1, <1>2 DEF Top
<1>5. Saved'
  BY <1>1, <1>2, <1>4 DEF Saved
<1>6. Pool' /\ Last'
  BY <1>3 DEF Pool, Last
<1> QED BY <1>2, <1>5, <1>6

\* The innermost dispatch.
LEMMA TopFrame ==
  ASSUME SInv, stack # <<>>
  PROVE  Top \in Frame /\ Len(stack) \in DOMAIN stack
BY EmptySeq DEF SInv, Top

\* A dispatch that goes on to the next call of _dispatch().
LEMMA AdvanceKeeps ==
  ASSUME SInv, stack # <<>>, Top.at \in Any \cup Specific,
         NEW r \in {-1, 0, 1}, NEW answered \in BOOLEAN,
         answered => Top.at = "CMD" \/ (Top.at = "PRE" /\ r = -1)
  PROVE  \E f \in Frame :
           /\ f = Advance(r, answered) /\ Unanswered(f)
           /\ f.id = Top.id /\ f.kind = Top.kind /\ f.saved = Top.saved
<1>1. Top \in Frame /\ Unanswered(Top)
  BY TopFrame DEF SInv, Saved, Top
<1>2. After(Top, r) \in Any \cup Specific \cup Ends
  BY <1>1 DEF After, EndOf, Any, Specific, Ends, Frame
<1>3. /\ After(Top, r) = "CMD" => Top.at = "CMD*"
      /\ After(Top, r) \in {"PRE*", "PRE", "CMD*"} => Top.at \in {"PRE*", "PRE"} /\ r # -1
  BY <1>1 DEF After, EndOf, Any, Specific, Ends, Frame
<1>4. PICK f \in Frame : f = Advance(r, answered)
  BY <1>1, <1>2 DEF Advance, Frame
<1>5. /\ f.id = Top.id /\ f.kind = Top.kind /\ f.saved = Top.saved /\ f.at = After(Top, r)
      /\ f.answered = (Top.answered \/ answered)
  BY <1>1, <1>4 DEF Advance, Frame
<1>6. Unanswered(f)
  BY <1>1, <1>3, <1>5 DEF Unanswered
<1> QED BY <1>4, <1>5, <1>6

\* The calls of handlers that say how the dispatch goes on.
LEMMA SilentKeeps == SInv /\ Silent => SInv'
<1> SUFFICES ASSUME SInv, Silent PROVE SInv'
  OBVIOUS
<1>1. PICK r \in {-1, 0, 1} :
        stack' = SetTop(Advance(r, FALSE)) /\ (Top.at = "CMD" => Top.answered)
  BY TopFrame DEF Silent, Frame, Any, Specific
<1>2. /\ stack # <<>> /\ Top.at \in Any \cup Specific
      /\ UNCHANGED <<resp_pool, resp_last, commands>>
  BY DEF Silent
<1>3. Top.kind # "transfer" \/ Top.at # "CMD"
  BY <1>1, <1>2, TopFrame DEF SInv, Saved, Top, Unanswered
<1>4. resp_last \in {0, Top.id}
  BY <1>2, <1>3 DEF SInv, Last
<1>5. PICK f \in Frame : /\ f = Advance(r, FALSE) /\ Unanswered(f)
                         /\ f.id = Top.id /\ f.kind = Top.kind /\ f.saved = Top.saved
  BY <1>2, AdvanceKeeps
<1> QED BY <1>1, <1>2, <1>4, <1>5, TopKept

\* A handler adds or sends a response: the last one is then its own.
LEMMA AddKeeps == SInv /\ (AddResponse \/ AddError \/ SendResponse) => SInv'
<1> SUFFICES ASSUME SInv, AddResponse \/ AddError \/ SendResponse PROVE SInv'
  OBVIOUS
<1>1. /\ stack # <<>> /\ Top.at \in Any \cup Specific
      /\ resp_last' = resp_pool /\ UNCHANGED <<resp_pool, commands>>
  BY DEF AddResponse, AddError, SendResponse, Any, Specific
<1>2. resp_last' = Top.id
  BY <1>1 DEF SInv, Pool
<1>3. CASE stack' = stack
  <2>1. stack' = SetTop(Top) /\ Top \in Frame /\ Unanswered(Top)
    BY <1>1, <1>3, TopFrame DEF SetTop, Top, SInv, Saved
  <2> QED BY <1>1, <1>2, <2>1, TopKept
<1>4. ASSUME NEW r \in {-1, 0, 1}, NEW answered \in BOOLEAN,
             answered => Top.at = "CMD" \/ (Top.at = "PRE" /\ r = -1),
             stack' = SetTop(Advance(r, answered))
      PROVE  SInv'
  <2>1. PICK f \in Frame : /\ f = Advance(r, answered) /\ Unanswered(f)
                           /\ f.id = Top.id /\ f.kind = Top.kind /\ f.saved = Top.saved
    BY <1>1, <1>4, AdvanceKeeps
  <2> QED BY <1>1, <1>2, <1>4, <2>1, TopKept
<1>5. CASE AddResponse
  <2>1. \/ stack' = stack
        \/ \E r \in {-1, 0, 1} : stack' = SetTop(Advance(r, FALSE))
    BY <1>5 DEF AddResponse
  <2> QED BY <2>1, <1>3, <1>4
<1>6. CASE AddError
  <2>1. stack' = stack \/ stack' = SetTop(Advance(-1, FALSE))
    BY <1>6 DEF AddError
  <2> QED BY <2>1, <1>3, <1>4
<1>7. CASE SendResponse
  <2>1. \E r \in {-1, 0, 1} : /\ stack' = SetTop(Advance(r, TRUE))
                              /\ Top.at = "CMD" \/ (Top.at = "PRE" /\ r = -1)
    BY <1>7 DEF SendResponse
  <2> QED BY <2>1, <1>4
<1> QED BY <1>5, <1>6, <1>7

\* Another dispatch begins, and the pool of this one is remembered.
LEMMA BeginKeeps ==
  ASSUME SInv, NEW kind \in {"plain", "transfer", "read", "sub"}, Begin(kind),
         stack # <<>> => Top.at = "CMD", kind = "sub" => stack # <<>> /\ Top.kind = "plain"
  PROVE  SInv'
<1> USE DEF SInv
<1> DEFINE f == [id |-> commands + 1, kind |-> kind, saved |-> resp_pool,
                 at |-> "PRE*", pre |-> FALSE, answered |-> FALSE]
<1>1. f \in Frame /\ stack' = Append(stack, f)
  BY DEF Begin, Frame, Any
<1> HIDE DEF f
<1>2. /\ stack' \in Seq(Frame) /\ Len(stack') = Len(stack) + 1 /\ Len(stack) \in Nat
      /\ DOMAIN stack = 1..Len(stack) /\ DOMAIN stack' = 1..(Len(stack) + 1)
      /\ \A i \in 1..Len(stack) : stack'[i] = stack[i]
      /\ stack'[Len(stack) + 1] = f
  BY <1>1, EmptySeq
<1>3. Top' = f /\ stack' # <<>>
  BY <1>2, EmptySeq DEF Top
<1>4. resp_pool' = f.id /\ resp_last' = 0 /\ commands' \in Nat
  BY DEF Begin, f
<1>5. resp_pool = IF Len(stack) = 0 THEN 0 ELSE stack[Len(stack)].id
  BY EmptySeq DEF Pool, Top
<1>6. /\ f.saved = resp_pool /\ f.kind = kind /\ Unanswered(f)
  BY DEF f, Unanswered
<1>7. kind = "sub" => Len(stack) > 0 /\ stack[Len(stack)].kind = "plain"
  BY <1>2, EmptySeq DEF Top
<1>8. Saved'
  <2> SUFFICES ASSUME NEW i \in DOMAIN stack'
               PROVE  /\ stack'[i].saved = IF i = 1 THEN 0 ELSE stack'[i - 1].id
                      /\ stack'[i].kind = "sub" => i > 1 /\ stack'[i - 1].kind = "plain"
                      /\ Unanswered(stack'[i])
                      /\ i < Len(stack') => stack'[i].at = "CMD"
    BY DEF Saved, Unanswered
  <2>1. CASE i = Len(stack) + 1
    BY <1>2, <1>5, <1>6, <1>7, <2>1
  <2>2. CASE i \in 1..Len(stack)
    <3>1. stack[i].at = "CMD"
      BY <1>2, <2>2, EmptySeq DEF Saved, Top
    <3> QED BY <1>2, <2>2, <3>1 DEF Saved
  <2> QED BY <1>2, <2>1, <2>2
<1>9. Pool' /\ Last'
  BY <1>3, <1>4, <1>6 DEF Pool, Last
<1>10. resp_pool' \in Nat
  BY <1>1, <1>4 DEF Frame
<1> QED BY <1>2, <1>4, <1>8, <1>9, <1>10

\* A dispatch ends, and the one it interrupted goes on with its own pool.
LEMMA FinishKeeps == SInv /\ Finish => SInv'
<1> SUFFICES ASSUME SInv, Finish PROVE SInv'
  OBVIOUS
<1> USE DEF SInv
<1> DEFINE n == Len(stack) - 1
           rest == SubSeq(stack, 1, n)
<1>1. /\ stack # <<>> /\ stack' = Popped /\ resp_pool' = Top.saved /\ resp_last' = 0
      /\ UNCHANGED commands
  BY DEF Finish, RestorePool, pr_response_flush
<1>2. n \in Nat /\ Len(stack) = n + 1 /\ DOMAIN stack = 1..(n + 1)
  BY <1>1, EmptySeq
<1>3. /\ rest \in Seq(Frame) /\ Len(rest) = n /\ DOMAIN rest = 1..n
      /\ \A i \in 1..n : rest[i] = stack[i]
  BY <1>2
<1>4. /\ stack' \in Seq(Frame) /\ Len(stack') = n /\ DOMAIN stack' = 1..n
      /\ \A i \in 1..n : /\ stack'[i].id = stack[i].id /\ stack'[i].kind = stack[i].kind
                         /\ stack'[i].saved = stack[i].saved /\ stack'[i].at = stack[i].at
                         /\ Unanswered(stack'[i])
  <2>1. CASE Top.kind # "sub"
    BY <1>1, <1>3, <1>2, <2>1 DEF Popped, Saved
  <2>2. CASE Top.kind = "sub"
    <3>1. n \in 1..n /\ stack[n].kind = "plain" /\ stack[n] \in Frame /\ stack[n].at = "CMD"
      BY <1>2, <2>2 DEF Saved, Top
    <3>2. stack' = [rest EXCEPT ![n] = [stack[n] EXCEPT !.answered = TRUE]]
      BY <1>1, <1>3, <2>2, <3>1 DEF Popped
    <3>3. PICK f \in Frame : f = [stack[n] EXCEPT !.answered = TRUE]
      BY <3>1 DEF Frame
    <3>4. /\ f.id = stack[n].id /\ f.kind = stack[n].kind /\ f.saved = stack[n].saved
          /\ f.at = stack[n].at /\ Unanswered(f)
      BY <3>1, <3>3 DEF Unanswered, Frame
    <3>5. /\ stack' \in Seq(Frame) /\ Len(stack') = n /\ DOMAIN stack' = 1..n
          /\ \A i \in 1..n : stack'[i] = IF i = n THEN f ELSE stack[i]
      <4>1. PICK q \in Seq(Frame), m \in Nat : q = rest /\ m = n /\ m \in 1..Len(q)
        <5> HIDE DEF n, rest
        <5> QED BY <1>2, <1>3, <3>1
      <4>2. stack' = [q EXCEPT ![m] = f]
        BY <3>2, <3>3, <4>1
      <4>3. Len(q) = n /\ \A i \in 1..n : q[i] = stack[i]
        BY <1>3, <4>1
      <4> HIDE DEF n, rest
      <4> QED BY <4>1, <4>2, <4>3, Replaced
    <3> HIDE DEF n, rest
    <3> QED BY <1>2, <3>4, <3>5 DEF Saved, Unanswered
  <2> QED BY <2>1, <2>2
<1>5. Saved'
  BY <1>2, <1>4 DEF Saved
<1>6. Pool'
  <2>1. CASE n = 0
    <3>1. stack' = <<>> /\ Top.saved = 0
      BY <1>2, <1>4, <2>1, EmptySeq DEF Saved, Top
    <3> QED BY <1>1, <3>1 DEF Pool
  <2>2. CASE n > 0
    <3>1. stack' # <<>> /\ Top'.id = stack[n].id /\ Top.saved = stack[n].id
      BY <1>2, <1>4, <2>2, EmptySeq DEF Saved, Top
    <3> QED BY <1>1, <3>1 DEF Pool
  <2> QED BY <1>2, <2>1, <2>2
<1>7. Last'
  BY <1>1 DEF Last
<1>8. resp_pool' \in Nat
  BY <1>1, TopFrame DEF Frame
<1> QED BY <1>1, <1>4, <1>5, <1>6, <1>7, <1>8

\* Every step of the dispatcher and the handlers keeps the invariant.
LEMMA SNext == SInv /\ [Next]_vars => SInv'
<1> SUFFICES ASSUME SInv, [Next]_vars PROVE SInv'
  OBVIOUS
<1>1. CASE UNCHANGED vars
  BY <1>1 DEF vars, SInv, Saved, Pool, Last, Top, Unanswered
<1>2. CASE ReadCommand
  BY <1>2, BeginKeeps DEF ReadCommand, Idle
<1>3. CASE Nested
  BY <1>3, BeginKeeps DEF Nested, InTransfer, Running
<1>4. CASE InvalidCommand
  <2>1. stack' = stack /\ resp_pool' = resp_pool /\ commands' \in Nat
    BY <1>4 DEF InvalidCommand, SInv
  <2>2. Saved'
    BY <2>1 DEF SInv, Saved, Unanswered
  <2>3. CASE Idle
    BY <1>4, <2>1, <2>2, <2>3 DEF InvalidCommand, Idle, SInv, Pool, Last
  <2>4. CASE InTransfer
    BY <2>1, <2>2, <2>4 DEF InTransfer, Running, SInv, Pool, Last, Top
  <2> QED BY <1>4, <2>3, <2>4 DEF InvalidCommand
<1>5. CASE RefusedInTransfer
  <2>1. stack' = stack /\ resp_pool' = resp_pool /\ commands' \in Nat /\ resp_last' = 0
    BY <1>5 DEF RefusedInTransfer, pr_response_flush, SInv
  <2> QED BY <2>1 DEF SInv, Saved, Pool, Last, Top, Unanswered
<1>6. CASE Silent
  BY <1>6, SilentKeeps
<1>7. CASE AddResponse \/ AddError \/ SendResponse
  BY <1>7, AddKeeps
<1>8. CASE Finish
  BY <1>8, FinishKeeps
<1>9. CASE Disconnect
  BY <1>9 DEF Disconnect, SInv, Saved, Pool, Last, Top, Unanswered
<1> QED BY <1>1, <1>2, <1>3, <1>4, <1>5, <1>6, <1>7, <1>8, <1>9 DEF Next

\* pr_response_set_pool() always has the pool of the command whose handlers
\* run, however deeply commands are dispatched within commands.
THEOREM PoolRestored == Spec => []PoolOfRunningCommand
<1>1. SInv => PoolOfRunningCommand
  BY DEF SInv, Pool, PoolOfRunningCommand
<1> QED BY <1>1, SInit, SNext, PTL DEF Spec

\* The log handlers of a command never see another command's last response.
THEOREM OwnResponseLogged == Spec => []LogsOwnResponse
<1>1. SInv => LogsOwnResponse
  BY DEF SInv, Last, LogsOwnResponse
<1> QED BY <1>1, SInit, SNext, PTL DEF Spec
=============================================================================
