------------------------------- MODULE Channel -------------------------------
(***************************************************************************)
(* The SSH2 channels of mod_sftp (contrib/mod_sftp/channel.c) and the new  *)
(* exchange of keys within a session (kex.c, packet.c), with a client that *)
(* keeps to the protocol.                                                  *)
(*                                                                         *)
(* The server has one thread.  What is left to do of the message it is     *)
(* handling is the sequence `tasks'; each step is one packet written or    *)
(* one turn of a loop, as a rekeying may begin with any packet.  Data are  *)
(* numbered bytes.  What a subsystem answers to data, and when it is done, *)
(* is open.  A packet that cannot be written ends the session.             *)
(***************************************************************************)
EXTENDS Integers, Sequences, FiniteSets, SequencesExt

CONSTANTS
  RemoteIds,           \* the numbers the client gives to its channels
  channel_max,         \* SFTPMaxChannels
  chan_window_size,    \* window granted to the client
  chan_packet_size,    \* longest data message accepted from the client
  remote_max_packetsz, \* longest data message the client accepts
  WindowMax,           \* SFTP_SSH2_CHANNEL_WINDOW_SIZE
  MaxOpens,            \* bound on the channels opened
  MaxBytes,            \* bound on the bytes written to a channel
  MaxRekeys,           \* bound on exchanges of keys
  MaxQueue             \* messages a side may send before the other reads

ASSUME ChannelAssumption ==
  /\ channel_max \in Nat \ {0} /\ chan_window_size \in Nat \ {0}
  /\ chan_packet_size \in Nat \ {0} /\ remote_max_packetsz \in Nat \ {0}
  /\ WindowMax \in Nat \ {0} /\ MaxOpens \in Nat /\ MaxBytes \in Nat
  /\ MaxRekeys \in Nat /\ MaxQueue \in Nat \ {0}

VARIABLES
  chans,       \* channel_list; the index is the local channel ID
  channel_count,
  kex,         \* [rekeying, kexinit, timerno, timer, timeout]: the state of kex.c
  auth,        \* SFTP_SESS_STATE_HAVE_AUTH
  tasks,       \* what is left to do of the message being handled
  ended,       \* why the session ended, or ""
  c2s, s2c,    \* messages on their way
  client,      \* the client's view of its channels
  ckex,        \* the client has sent KEXINIT and waits for NEWKEYS
  rekeys       \* exchanges begun

server == <<chans, channel_count, kex, auth, tasks, ended>>
clients == <<client, ckex>>
vars == <<server, c2s, s2c, clients, rekeys>>

Ids == DOMAIN chans
Open(i) == i \in Ids /\ chans[i].open
NewClient == [st |-> "free", peer |-> 0, credit |-> 0, window |-> 0, asked |-> FALSE,
              running |-> FALSE, sent_eof |-> FALSE, sent_close |-> FALSE,
              recvd_close |-> FALSE]

Idle == tasks = <<>> /\ ended = ""
Doing(op) == tasks # <<>> /\ ended = "" /\ Head(tasks).op = op
Task == Head(tasks)
Then(ts) == tasks' = ts \o Tail(tasks)
Send(m) == [op |-> "send", msg |-> m]
Drain(i) == [op |-> "drain", ch |-> i]
Done(i) == [op |-> "done", ch |-> i]
WriteData(i, n) == [op |-> "write", ch |-> i, buf |-> [k \in 1..n |-> chans[i].wrote + k]]
Msg(type, i) == [type |-> type, r |-> chans[i].remote, ch |-> i]

-----------------------------------------------------------------------------
(* The exchange of keys.                                                   *)

\* sftp_kex_rekey(), when the conditions for it hold.
Rekeying == [kex EXCEPT !.rekeying = TRUE, !.kexinit = TRUE, !.timerno = FALSE,
                        !.timer = FALSE, !.timeout = TRUE]
CanRekey == auth /\ ~kex.rekeying /\ rekeys < MaxRekeys
KEXINIT == [type |-> "kexinit"]
NEWKEYS == [type |-> "newkeys"]

\* sftp_ssh2_packet_write(): the limit on packets or bytes may be reached with
\* this packet.  The server waits while the connection takes no more.
packet_write(m) ==
  /\ Len(s2c) < MaxQueue
  /\ \/ /\ s2c' = Append(s2c, m)
        /\ UNCHANGED <<kex, rekeys>>
     \/ /\ CanRekey
        /\ s2c' = s2c \o <<m, KEXINIT>>
        /\ kex' = Rekeying
        /\ rekeys' = rekeys + 1

\* The same limits are checked when a packet is read.
RekeyOnRead ==
  /\ Idle /\ CanRekey
  /\ kex' = Rekeying
  /\ s2c' = Append(s2c, KEXINIT)
  /\ rekeys' = rekeys + 1
  /\ UNCHANGED <<chans, channel_count, auth, tasks, ended, c2s, clients>>

\* kex_rekey_timer_cb(): the timer does not run again, whatever comes of it.
kex_rekey_timer_cb ==
  /\ Idle /\ kex.timer
  /\ \/ /\ CanRekey
        /\ kex' = Rekeying
        /\ s2c' = Append(s2c, KEXINIT)
        /\ rekeys' = rekeys + 1
     \/ /\ ~auth \/ kex.rekeying
        /\ kex' = [kex EXCEPT !.timer = FALSE]
        /\ UNCHANGED <<s2c, rekeys>>
  /\ UNCHANGED <<chans, channel_count, auth, tasks, ended, c2s, clients>>

kex_rekey_timeout_cb ==
  /\ Idle /\ kex.timeout
  /\ ended' = "rekey timeout"
  /\ UNCHANGED <<chans, channel_count, kex, auth, tasks, c2s, s2c, clients, rekeys>>

\* sftp_auth_handle() with success.
Authenticated ==
  /\ Idle /\ ~auth
  /\ auth' = TRUE
  /\ UNCHANGED <<chans, channel_count, kex, tasks, ended, c2s, s2c, clients, rekeys>>

\* Mutant of DrainAll: what was written during the exchange stays where it is.
NoDrain == <<>>

\* sftp_channel_drain_data().
DrainAll == [i \in Ids |-> Drain(i)]

\* The client's KEXINIT: sftp_kex_handle() answers it and reads on until NEWKEYS,
\* which the client sends when it has KEXINIT.
HandleKexinit ==
  /\ s2c' = s2c \o (IF kex.kexinit THEN <<>> ELSE <<KEXINIT>>) \o <<NEWKEYS>>
  /\ kex' = [rekeying |-> FALSE, kexinit |-> FALSE, timerno |-> TRUE,
             timer |-> kex.timer \/ ~kex.timerno, timeout |-> FALSE]
  /\ tasks' = DrainAll
  /\ UNCHANGED <<chans, channel_count, auth, ended, rekeys>>

-----------------------------------------------------------------------------
(* The loops that write data.                                              *)

Payload(c, buf) == Min({Len(buf), remote_max_packetsz, c.rwin})

\* A data message of the first n bytes of buf.
SendData(i, buf, n, out) ==
  /\ packet_write(Msg("data", i) @@ [bytes |-> SubSeq(buf, 1, n)])
  /\ chans' = [chans EXCEPT ![i].rwin = @ - n, ![i].out = out,
                            ![i].sent = @ \o SubSeq(buf, 1, n)]

Rest(buf, n) == SubSeq(buf, n + 1, Len(buf))

\* Mutant of MayDrain: goes on while keys are exchanged.
DrainInKex(c) == c.open /\ c.out # <<>> /\ c.rwin > 0

MayDrain(c) == c.open /\ c.out # <<>> /\ c.rwin > 0 /\ ~kex.rekeying

\* One turn of the loop of drain_pending_channel_data().
drain_pending_channel_data ==
  /\ Doing("drain")
  /\ LET i == Task.ch  c == chans[i]
     IN  \/ /\ MayDrain(c)
            /\ LET buf == Head(c.out)  n == Payload(c, buf)
               IN  SendData(i, buf, n,
                            IF n = Len(buf) THEN Tail(c.out)
                                            ELSE <<Rest(buf, n)>> \o Tail(c.out))
            /\ UNCHANGED tasks
         \/ /\ ~MayDrain(c)
            /\ Then(<<>>)
            /\ UNCHANGED <<chans, kex, s2c, rekeys>>
  /\ UNCHANGED <<channel_count, auth, ended, c2s, clients>>

\* Mutant of get_databuf: puts the new buffer first.
PutFirst(out, buf) == IF buf = <<>> THEN out ELSE <<buf>> \o out

\* get_databuf(): the new buffer is the last of the list.
get_databuf(out, buf) == IF buf = <<>> THEN out ELSE Append(out, buf)

Buffer(i, buf) ==
  /\ chans' = [chans EXCEPT ![i].out = get_databuf(@, buf)]
  /\ Then(<<>>)
  /\ UNCHANGED <<kex, s2c, rekeys>>

\* The head of the loop of channel_write_data(), which first drains.
WriteLoop ==
  /\ Doing("write")
  /\ LET i == Task.ch  c == chans[i]
         more == ~kex.rekeying /\ c.rwin > 0 /\ Task.buf # <<>>
     IN  \/ /\ more
            /\ Then(<<Drain(i), [Task EXCEPT !.op = "chunk"]>>)
            /\ UNCHANGED <<chans, kex, s2c, rekeys>>
         \/ /\ ~more
            /\ Buffer(i, Task.buf)
  /\ UNCHANGED <<channel_count, auth, ended, c2s, clients>>

\* The rest of the loop: it does not ask again whether keys are exchanged.
WriteChunk ==
  /\ Doing("chunk")
  /\ LET i == Task.ch  c == chans[i]  n == Payload(c, Task.buf)
     IN  IF c.rwin = 0 THEN Buffer(i, Task.buf)
         ELSE /\ SendData(i, Task.buf, n, c.out)
              /\ Then(IF n = Len(Task.buf) THEN <<>>
                      ELSE <<[Task EXCEPT !.op = "write", !.buf = Rest(@, n)]>>)
  /\ UNCHANGED <<channel_count, auth, ended, c2s, clients>>

SendMessage ==
  /\ Doing("send")
  /\ packet_write(Task.msg)
  /\ Then(<<>>)
  /\ UNCHANGED <<chans, channel_count, auth, ended, c2s, clients>>

-----------------------------------------------------------------------------
(* Closing.                                                                *)

\* Mutant of NewChannel: mixes up the two windows.
OwnWindow(remote, rwin, open) ==
  [open |-> open, remote |-> remote, rwin |-> chan_window_size, lwin |-> chan_window_size,
   out |-> <<>>, sent |-> <<>>, wrote |-> 0, handler |-> FALSE, recvd_eof |-> FALSE,
   sent_eof |-> FALSE, recvd_close |-> FALSE, sent_close |-> FALSE]

\* alloc_channel(); one that is not open stands for NULL in the list.
NewChannel(remote, rwin, open) ==
  [open |-> open, remote |-> remote, rwin |-> rwin, lwin |-> chan_window_size,
   out |-> <<>>, sent |-> <<>>, wrote |-> 0, handler |-> FALSE, recvd_eof |-> FALSE,
   sent_eof |-> FALSE, recvd_close |-> FALSE, sent_close |-> FALSE]

\* Mutant of destroy_channel: does not wait for the client's CLOSE.
DestroyEarly(c) == c.sent_close

\* The condition of destroy_channel().
destroy_channel(c) == c.recvd_close /\ c.sent_close

\* Channel i becomes c, and is destroyed if both sides have closed it.
SetChannel(i, c) ==
  LET gone == destroy_channel(c)
  IN  /\ chans' = [chans EXCEPT ![i] = IF gone THEN NewChannel(c.remote, 0, FALSE) ELSE c]
      /\ channel_count' = IF gone THEN channel_count - 1 ELSE channel_count

\* send_channel_done(): exit status, EOF unless sent, CLOSE unless sent.
send_channel_done ==
  /\ Doing("done")
  /\ LET i == Task.ch  c == chans[i]
     IN  IF c.open
           THEN /\ Then(<<Send(Msg("exit", i))>>
                        \o (IF c.sent_eof THEN <<>> ELSE <<Send(Msg("eof", i))>>)
                        \o (IF c.sent_close THEN <<>> ELSE <<Send(Msg("close", i))>>))
                /\ SetChannel(i, [c EXCEPT !.sent_eof = TRUE, !.sent_close = TRUE])
           ELSE Then(<<>>) /\ UNCHANGED <<chans, channel_count>>
  /\ UNCHANGED <<kex, auth, ended, c2s, s2c, clients, rekeys>>

\* The end of handle_channel_close().
ReceivedClose ==
  /\ Doing("closed")
  /\ SetChannel(Task.ch, [chans[Task.ch] EXCEPT !.recvd_close = TRUE])
  /\ Then(<<>>)
  /\ UNCHANGED <<kex, auth, ended, c2s, s2c, clients, rekeys>>

NeedsAdjust(left) == left < 3 * chan_packet_size

\* The end of process_channel_data(), after the data were handled.
Consumed ==
  /\ Doing("consumed")
  /\ LET i == Task.ch  c == chans[i]  left == c.lwin - Task.len
         window_adjlen == chan_window_size - left
     IN  IF NeedsAdjust(left)
           THEN /\ chans' = [chans EXCEPT ![i].lwin = left + window_adjlen]
                /\ Then(<<Send(Msg("adjust", i) @@ [n |-> window_adjlen])>>)
           ELSE /\ chans' = [chans EXCEPT ![i].lwin = left]
                /\ Then(<<>>)
  /\ UNCHANGED <<channel_count, kex, auth, ended, c2s, s2c, clients, rekeys>>

-----------------------------------------------------------------------------
(* The handlers of messages from the client.                               *)

\* A handler that returns -1: sftp_ssh2_packet_handle() disconnects.
Ends(why) ==
  /\ ended' = why
  /\ UNCHANGED <<chans, channel_count, tasks, kex, auth, s2c, rekeys>>

\* Mutant of Confirmed: does not skip channels that are gone.
ConfirmedAny(cs, r) ==
  CHOOSE i \in DOMAIN cs : cs[i].remote = r /\ \A j \in 1..(i - 1) : cs[j].remote # r

\* write_channel_open_confirm(): the first channel with the client's number.
Confirmed(cs, r) ==
  CHOOSE i \in DOMAIN cs :
    /\ cs[i].open /\ cs[i].remote = r
    /\ \A j \in 1..(i - 1) : ~(cs[j].open /\ cs[j].remote = r)

TooMany == channel_count + 1 > channel_max

\* read_channel_open(), alloc_channel() and the answer.  A refusal is answered
\* and then ends the session, as sftp_channel_handle() returns -1.
HandleOpen(m) ==
  /\ \/ /\ TooMany
        /\ ended' = "too many channels"
        /\ s2c' = Append(s2c, [type |-> "failure", r |-> m.r])
        /\ UNCHANGED <<chans, channel_count, tasks>>
     \/ /\ ~TooMany
        /\ LET cs == Append(chans, NewChannel(m.r, m.n, TRUE))
           IN  /\ chans' = cs
               /\ tasks' = <<Send([type |-> "confirm", r |-> m.r, ch |-> Confirmed(cs, m.r),
                                   n |-> chan_window_size])>>
        /\ channel_count' = channel_count + 1
        /\ UNCHANGED <<ended, s2c>>
  /\ UNCHANGED <<kex, auth, rekeys>>

\* Bytes that may be written in answer, with the bound.
Answers(i) == 0..(MaxBytes - chans[i].wrote)

\* handle_channel_req(): a subsystem may send a text before the reply, the date
\* is sent after it and ends the channel, other requests are refused.
HandleRequest(m) ==
  LET i == m.ch
      Reply(type) == <<Send(Msg(type, i))>>
  IN  /\ \/ /\ m.kind = "subsystem"
            /\ \E n \in Answers(i) \cap {0, 1} :
                 /\ chans' = [chans EXCEPT ![i].handler = TRUE, ![i].wrote = @ + n]
                 /\ tasks' = <<WriteData(i, n)>> \o Reply("success")
         \/ /\ m.kind = "date"
            /\ \E n \in Answers(i) \cap {1, 2} :
                 /\ chans' = [chans EXCEPT ![i].handler = TRUE, ![i].wrote = @ + n]
                 /\ tasks' = Reply("success") \o <<WriteData(i, n), Done(i)>>
         \/ /\ m.kind = "other"
            /\ tasks' = Reply("failure")
            /\ UNCHANGED chans
      /\ UNCHANGED <<channel_count, ended, kex, auth, s2c, rekeys>>

\* handle_channel_data() and process_channel_data(); a handler that returns 1
\* is done with the channel.
HandleData(m) ==
  LET i == m.ch
  IN  IF m.n > chans[i].lwin THEN UNCHANGED <<server, s2c, rekeys>>
      ELSE IF ~chans[i].handler THEN Ends("no handler")
      ELSE /\ \E n \in Answers(i), finished \in BOOLEAN :
                /\ chans' = [chans EXCEPT ![i].wrote = @ + n]
                /\ tasks' = <<WriteData(i, n), [op |-> "consumed", ch |-> i, len |-> m.n]>>
                            \o (IF finished THEN <<Done(i)>> ELSE <<>>)
           /\ UNCHANGED <<channel_count, ended, kex, auth, s2c, rekeys>>

HandleEof(m) ==
  /\ chans' = [chans EXCEPT ![m.ch].recvd_eof = TRUE]
  /\ tasks' = <<Drain(m.ch)>> \o (IF chans[m.ch].sent_eof THEN <<>> ELSE <<Done(m.ch)>>)
  /\ UNCHANGED <<channel_count, ended, kex, auth, s2c, rekeys>>

HandleClose(m) ==
  /\ tasks' = (IF chans[m.ch].sent_close THEN <<>> ELSE <<Done(m.ch)>>)
              \o <<[op |-> "closed", ch |-> m.ch]>>
  /\ UNCHANGED <<chans, channel_count, ended, kex, auth, s2c, rekeys>>

\* handle_channel_window_adjust().
HandleAdjust(m) ==
  /\ chans' = [chans EXCEPT ![m.ch].rwin = @ + Min({m.n, WindowMax - @})]
  /\ tasks' = <<Drain(m.ch)>>
  /\ UNCHANGED <<channel_count, ended, kex, auth, s2c, rekeys>>

\* sftp_ssh2_packet_handle() and sftp_channel_handle().
Handle ==
  /\ Idle /\ c2s # <<>>
  /\ c2s' = Tail(c2s)
  /\ LET m == Head(c2s)
         On(h) == IF Open(m.ch) THEN h ELSE Ends("no such channel")
     IN  \/ m.type = "kexinit" /\ HandleKexinit
         \/ m.type = "open" /\ HandleOpen(m)
         \/ m.type = "request" /\ On(HandleRequest(m))
         \/ m.type = "data" /\ On(HandleData(m))
         \/ m.type = "adjust" /\ On(HandleAdjust(m))
         \/ m.type = "eof" /\ On(HandleEof(m))
         \/ m.type = "close" /\ On(HandleClose(m))
  /\ UNCHANGED clients

-----------------------------------------------------------------------------
(* The client: any that keeps to the protocol.                             *)

MaySend == ended = "" /\ ~ckex /\ Len(c2s) < MaxQueue
Using(r) == client[r].st = "open" /\ ~client[r].sent_close
ToServer(m) == c2s' = Append(c2s, m)
ClientOnly == UNCHANGED <<server, s2c, ckex, rekeys>>
SetClient(r, c) == client' = [client EXCEPT ![r] = c]
Message(type, r) == [type |-> type, ch |-> client[r].peer]

ClientOpen(r) ==
  /\ MaySend /\ auth /\ client[r].st = "free"
  /\ Len(chans) + Cardinality({q \in RemoteIds : client[q].st = "opening"}) < MaxOpens
  /\ \E n \in 0..WindowMax :
       /\ ToServer([type |-> "open", r |-> r, n |-> n])
       /\ SetClient(r, [client[r] EXCEPT !.st = "opening", !.credit = n])
  /\ ClientOnly

ClientRequest(r) ==
  /\ MaySend /\ Using(r) /\ ~client[r].asked
  /\ \E kind \in {"subsystem", "date", "other"} :
       ToServer(Message("request", r) @@ [kind |-> kind])
  /\ SetClient(r, [client[r] EXCEPT !.asked = TRUE])
  /\ ClientOnly

ClientData(r) ==
  /\ MaySend /\ Using(r) /\ client[r].running /\ ~client[r].sent_eof
  /\ \E n \in 1..Min({chan_packet_size, client[r].window}) :
       /\ ToServer(Message("data", r) @@ [n |-> n])
       /\ SetClient(r, [client[r] EXCEPT !.window = @ - n])
  /\ ClientOnly

ClientAdjust(r) ==
  /\ MaySend /\ Using(r)
  /\ \E n \in 1..(WindowMax - client[r].credit) :
       /\ ToServer(Message("adjust", r) @@ [n |-> n])
       /\ SetClient(r, [client[r] EXCEPT !.credit = @ + n])
  /\ ClientOnly

ClientEof(r) ==
  /\ MaySend /\ Using(r) /\ ~client[r].sent_eof
  /\ ToServer(Message("eof", r))
  /\ SetClient(r, [client[r] EXCEPT !.sent_eof = TRUE])
  /\ ClientOnly

\* A number is free again when both sides have closed the channel.
Closed(c) == IF c.sent_close /\ c.recvd_close THEN NewClient ELSE c

ClientClose(r) ==
  /\ MaySend /\ Using(r)
  /\ ToServer(Message("close", r))
  /\ SetClient(r, Closed([client[r] EXCEPT !.sent_close = TRUE]))
  /\ ClientOnly

ClientKexinit ==
  /\ MaySend /\ rekeys < MaxRekeys
  /\ ToServer(KEXINIT)
  /\ ckex' = TRUE
  /\ rekeys' = rekeys + 1
  /\ UNCHANGED <<server, s2c, client>>

\* What the client makes of a message about one of its channels.
Received(c, m) ==
  CASE m.type = "confirm" -> [c EXCEPT !.st = "open", !.peer = m.ch, !.window = m.n]
    [] m.type # "confirm" /\ (c.st # "open" \/ m.ch # c.peer) -> c
    [] m.type = "success" -> [c EXCEPT !.running = TRUE]
    [] m.type = "data" -> [c EXCEPT !.credit = @ - Len(m.bytes)]
    [] m.type = "adjust" -> [c EXCEPT !.window = @ + m.n]
    [] m.type = "close" -> Closed([c EXCEPT !.recvd_close = TRUE])
    [] OTHER -> c

ClientReceive ==
  /\ ended = "" /\ s2c # <<>>
  /\ s2c' = Tail(s2c)
  /\ LET m == Head(s2c)
     IN  \/ /\ m.type = "kexinit"
            /\ ckex' = TRUE
            /\ c2s' = IF ckex THEN c2s ELSE Append(c2s, KEXINIT)
            /\ UNCHANGED client
         \/ /\ m.type = "newkeys"
            /\ ckex' = FALSE
            /\ UNCHANGED <<client, c2s>>
         \/ /\ m.type \notin {"kexinit", "newkeys"}
            /\ SetClient(m.r, Received(client[m.r], m))
            /\ UNCHANGED <<ckex, c2s>>
  /\ UNCHANGED <<server, rekeys>>

-----------------------------------------------------------------------------
Init ==
  /\ chans = <<>> /\ channel_count = 0
  /\ kex = [rekeying |-> FALSE, kexinit |-> FALSE, timerno |-> TRUE, timer |-> TRUE,
            timeout |-> FALSE]
  /\ auth = FALSE /\ tasks = <<>> /\ ended = ""
  /\ c2s = <<>> /\ s2c = <<>>
  /\ client = [r \in RemoteIds |-> NewClient]
  /\ ckex = FALSE /\ rekeys = 0

Server ==
  \/ Handle
  \/ drain_pending_channel_data \/ WriteLoop \/ WriteChunk \/ SendMessage
  \/ send_channel_done \/ ReceivedClose \/ Consumed
  \/ RekeyOnRead \/ kex_rekey_timer_cb \/ kex_rekey_timeout_cb \/ Authenticated

Client ==
  \/ ClientReceive \/ ClientKexinit
  \/ \E r \in RemoteIds :
       \/ ClientOpen(r) \/ ClientRequest(r) \/ ClientData(r) \/ ClientAdjust(r)
       \/ ClientEof(r) \/ ClientClose(r)

Next == Server \/ Client

Spec == Init /\ [][Next]_vars

-----------------------------------------------------------------------------
(* Properties.                                                             *)

Bytes == Seq(1..MaxBytes)

\* The type invariant, and the number of channels within SFTPMaxChannels, as
\* read_channel_open() sees to.
TypeOK ==
  /\ \A i \in Ids :
       /\ chans[i].remote \in RemoteIds
       /\ chans[i].rwin \in 0..WindowMax /\ chans[i].lwin \in 0..chan_window_size
       /\ chans[i].wrote \in 0..MaxBytes /\ chans[i].sent \in Bytes
       /\ \A k \in DOMAIN chans[i].out : chans[i].out[k] \in Bytes \ {<<>>}
  /\ channel_count = Cardinality({i \in Ids : chans[i].open})
  /\ channel_count <= channel_max
  /\ \A f \in DOMAIN kex : kex[f] \in BOOLEAN
  /\ \A r \in RemoteIds : client[r].credit \in 0..WindowMax /\ client[r].window \in Nat

\* What a subsystem wrote to a channel goes out once, whole and in order: what
\* is still in buffers follows what was sent, whatever windows and exchanges of
\* keys did in between.  Buffers in tasks are those being written.
InOrder ==
  \A i \in Ids :
    LET writing == SelectSeq(tasks, LAMBDA t : t.op \in {"write", "chunk"} /\ t.ch = i)
    IN  chans[i].sent \o FlattenSeq(chans[i].out)
          \o FlattenSeq([k \in DOMAIN writing |-> writing[k].buf])
        = [k \in 1..chans[i].wrote |-> k]

SumOf(queue, Sel(_), Size(_)) ==
  FoldLeft(LAMBDA n, m : IF Sel(m) THEN n + Size(m) ELSE n, 0, queue)

\* The window the server has for the client, with the data and the adjustments
\* on their way, is what the client has granted: neither side takes the other's
\* word for more than it gave.
DownloadWindow ==
  \A r \in RemoteIds : client[r].st = "open" /\ Open(client[r].peer) =>
    LET i == client[r].peer
        OfChannel(m) == m.type = "data" /\ m.ch = i
        ForChannel(m) == m.type = "adjust" /\ m.ch = i
    IN  chans[i].rwin + SumOf(s2c, OfChannel, LAMBDA m : Len(m.bytes))
                      + SumOf(c2s, ForChannel, LAMBDA m : m.n)
        = client[r].credit

\* Between messages the server has window enough for three packets, or the whole
\* window if that is less: an upload never waits for an adjustment that nobody
\* will send.  What the client has left of it is the same up to messages on
\* their way.
UploadWindow ==
  tasks = <<>> /\ ended = "" =>
    \A r \in RemoteIds : client[r].st = "open" /\ Open(client[r].peer) =>
      LET i == client[r].peer
          OfChannel(m) == m.type = "data" /\ m.ch = i
          ForChannel(m) == m.type = "adjust" /\ m.ch = i
      IN  /\ chans[i].lwin >= Min({chan_window_size, 3 * chan_packet_size})
          /\ chans[i].lwin = client[r].window + SumOf(c2s, OfChannel, LAMBDA m : m.n)
                                              + SumOf(s2c, ForChannel, LAMBDA m : m.n)

\* Both windows are kept, and all variables have their types.
WindowsKept == TypeOK /\ DownloadWindow /\ UploadWindow

\* Between messages data wait only for the client's window or for the end of an
\* exchange of keys: each of the events that let data go drains the buffers.
NothingWaitsInVain ==
  tasks = <<>> =>
    \A i \in Ids : chans[i].open /\ chans[i].out # <<>> => chans[i].rwin = 0 \/ kex.rekeying

\* No data leave the server between its KEXINIT and its NEWKEYS, although the
\* loop of channel_write_data() does not look again after it has drained.
NoDataInKex ==
  [][kex.rekeying => \A k \in (Len(s2c) + 1)..Len(s2c') : s2c'[k].type # "data"]_vars

\* A client that keeps to the protocol is disconnected only for opening too many
\* channels or for being late with its keys: the server never destroys a channel
\* the client may still name.
OnlyFairDisconnects == ended \in {"", "too many channels", "rekey timeout"}

\* The confirmation of a channel is found by the client's number, which may have
\* been used before: it still names the channel just opened.
ConfirmsOwnChannel ==
  [][Len(chans') > Len(chans) => tasks'[1].msg.ch = Len(chans')]_vars

\* EOF is sent when everything written to the channel has been, as the comment
\* on draining in handle_channel_eof() has it.
EofAfterData ==
  \A i \in Ids : chans[i].sent_eof => chans[i].out = <<>>

\* Once the client has logged in, the rekey timer runs or keys are being
\* exchanged: the comment in sftp_kex_rekey() on a timer that expires too early.
RekeyTimerRuns == auth /\ ended = "" => kex.timer \/ kex.rekeying
=============================================================================
