------------------------------ MODULE CanPath ------------------------------
(***************************************************************************)
(* The command on its way to the vehicle over CAN: ControlCommandCanOutput *)
(* and its encoder, the four platform back ends (SocketCAN classic and FD, *)
(* the Zephyr driver, the UDP tunnel and its gateway), and the CARLA       *)
(* bridge that assembles, sequences and applies the command.               *)
(*                                                                         *)
(* A message has a steering angle and a speed in tenths of the wire unit,  *)
(* so rounding is visible; a wire word has two digits of base ByteBase.    *)
(* Frames carry the ghost fields n (the number of the send) and msg.  The  *)
(* classic bus delivers in order and drops nothing; the FD bus may drop a  *)
(* frame and the IP network may drop, repeat and reorder datagrams.        *)
(***************************************************************************)
EXTENDS Integers, Sequences, FiniteSets

CONSTANTS ByteBase,      \* values of a byte: 256 in the code
          SeqMod,        \* 2^16 in the code
          CanMessages,   \* messages the controller may send
          CanStarts,     \* values of sequence_ when the bridge starts
          MaxSends,      \* bound on the sends of one behaviour
          BusBound,      \* bound on the frames the bridge has not read
          MaxDelay,      \* a datagram is lost once it is this many sends old
          CanTimeout     \* --timeout of the bridge, in loop iterations

ASSUME CanAssumption ==
  /\ ByteBase \in Nat /\ ByteBase > 1
  /\ SeqMod \in Nat /\ SeqMod % 2 = 0 /\ CanStarts \subseteq 0 .. SeqMod - 1
  /\ MaxDelay \in Nat /\ MaxDelay < SeqMod \div 2
  /\ \A m \in CanMessages : m.steer \in Int /\ m.vel \in Int /\ m.finite \in BOOLEAN
  /\ MaxSends \in Nat /\ BusBound \in Nat /\ CanTimeout \in Nat

VARIABLES canVia,    \* the back end of this build
          canSeq,    \* sequence_
          canNum,    \* ghost: sends so far
          canTodo,   \* frames the current Zephyr batch has still to send
          canCtx,    \* CanSendContext: [state, sem, err]
          canMail,   \* frames the Zephyr driver holds, callback outstanding
          canNet,    \* datagrams in flight
          canBus,    \* frames the bridge has not read
          canDec,    \* ControlCommandDecoder
          canCtl,    \* the control last applied to the vehicle
          canTick,   \* the bridge has iterated since the last tick
          canLate,   \* ghost: status frames whose completion timed out
          canMissed  \* ghost: new commands the decoder refused as replays

canVars == <<canVia, canSeq, canNum, canTodo, canCtx, canMail, canNet, canBus,
             canDec, canCtl, canTick, canLate, canMissed>>

senderVars == <<canSeq, canNum, canTodo, canCtx, canMail, canLate>>

bridgeVars == <<canDec, canCtl, canTick, canMissed>>

-----------------------------------------------------------------------------
(* Encoding *)

WordMod == ByteBase * ByteBase

(* scale_to_i32: round half away from zero, refuse what does not fit. *)
Rounded(v) == IF v >= 0 THEN (v + 5) \div 10 ELSE -((5 - v) \div 10)

scale_to_i32(v) ==
  LET low == -(WordMod \div 2)
      high == WordMod \div 2 - 1
  IN [ok  |-> v >= 10 * low - 5 /\ v <= 10 * high + 5
              /\ Rounded(v) \in low .. high,
      out |-> Rounded(v)]

write_i32_le(v) == <<(v % WordMod) % ByteBase, (v % WordMod) \div ByteBase>>

(* Mutant of i32_le: the word is read as unsigned. *)
u32_le(data) == data[1] + ByteBase * data[2]

i32_le(data) ==
  LET raw == data[1] + ByteBase * data[2]
  IN IF raw >= WordMod \div 2 THEN raw - WordMod ELSE raw

Encodable(m) == m.finite /\ scale_to_i32(m.steer).ok /\ scale_to_i32(m.vel).ok

encode_control_command(m, n, seq) ==
  <<[id |-> "lat", data |-> write_i32_le(scale_to_i32(m.steer).out), seq |-> 0, n |-> n, msg |-> m],
    [id |-> "lon", data |-> write_i32_le(scale_to_i32(m.vel).out),   seq |-> 0, n |-> n, msg |-> m],
    [id |-> "st",  data |-> <<0, 0>>, seq |-> seq, n |-> n, msg |-> m]>>

(* One CAN-FD frame holds the three classic payloads in order. *)
encode_control_command_fd(m, n, seq) ==
  [id |-> "fd", parts |-> encode_control_command(m, n, seq)]

-----------------------------------------------------------------------------
(* ControlCommandCanOutput::send over the back ends that finish at once *)

Idle == [state |-> "Idle", sem |-> 0, err |-> 0]

(* Mutant of SequenceAfter: the number does not wrap. *)
SequenceUnwrapped(sent) == IF sent THEN canSeq + 1 ELSE canSeq

(* Mutant of SequenceAfter: a failed send burns the number, a good one does not. *)
SequenceAfterFailure(sent) == IF sent THEN canSeq ELSE (canSeq + 1) % SeqMod

(* sequence_ advances after a batch that was sent whole, and only then. *)
SequenceAfter(sent) == IF sent THEN (canSeq + 1) % SeqMod ELSE canSeq

MaySend == canNum < MaxSends /\ canTodo = <<>> /\ Len(canBus) + 3 <= BusBound

(* A message that does not encode is not sent at all. *)
SendRefused(m) ==
  /\ MaySend /\ ~Encodable(m)
  /\ canNum' = canNum + 1 /\ canSeq' = SequenceAfter(FALSE)
  /\ UNCHANGED <<canVia, canTodo, canCtx, canMail, canNet, canBus, canLate, bridgeVars>>

(* can_send_batch of SocketCAN stops at the first write that fails: the bus *)
(* gets the first `written` frames.                                         *)
SendClassic(m, written) ==
  /\ canVia = "socketcan" /\ MaySend /\ Encodable(m)
  /\ canNum' = canNum + 1
  /\ canBus' = canBus \o SubSeq(encode_control_command(m, canNum + 1, canSeq), 1, written)
  /\ canSeq' = SequenceAfter(written = 3)
  /\ UNCHANGED <<canVia, canTodo, canCtx, canMail, canNet, canLate, bridgeVars>>

SendFd(m, written) ==
  /\ canVia = "fd" /\ MaySend /\ Encodable(m)
  /\ canNum' = canNum + 1
  /\ canBus' = IF written = 1
               THEN Append(canBus, encode_control_command_fd(m, canNum + 1, canSeq)) ELSE canBus
  /\ canSeq' = SequenceAfter(written = 1)
  /\ UNCHANGED <<canVia, canTodo, canCtx, canMail, canNet, canLate, bridgeVars>>

-----------------------------------------------------------------------------
(* The UDP tunnel: one datagram is one batch *)

(* pack_can_udp_tunnel; the header repeats the sequence of the status frame. *)
pack_can_udp_tunnel(frames) ==
  [magic |-> "CT", version |-> 1, seq |-> frames[3].seq, frames |-> frames]

unpack_can_udp_tunnel(d) ==
  /\ d.magic = "CT" /\ d.version = 1
  /\ [i \in 1 .. 3 |-> d.frames[i].id] = <<"lat", "lon", "st">>
  /\ d.frames[3].seq = d.seq

SendUdp(m, sent) ==
  /\ canVia = "udp" /\ MaySend /\ Encodable(m)
  /\ canNum' = canNum + 1
  /\ canNet' = IF sent
               THEN canNet \cup {pack_can_udp_tunnel(encode_control_command(m, canNum + 1, canSeq))}
               ELSE canNet
  /\ canSeq' = SequenceAfter(sent)
  /\ UNCHANGED <<canVia, canTodo, canCtx, canMail, canBus, canLate, bridgeVars>>

Loses(d) ==
  /\ canNet' = canNet \ {d}
  /\ UNCHANGED <<canVia, canBus, senderVars, bridgeVars>>

(* The gateway unpacks a datagram and injects its frames until one fails. A *)
(* datagram the network keeps is one it will deliver again.                 *)
Gateway(d, injected, again) ==
  /\ d.frames[1].n > canNum - MaxDelay /\ Len(canBus) + injected <= BusBound
  /\ canBus' = IF unpack_can_udp_tunnel(d)
               THEN canBus \o SubSeq(d.frames, 1, injected) ELSE canBus
  /\ canNet' = IF again THEN canNet ELSE canNet \ {d}
  /\ UNCHANGED <<canVia, senderVars, bridgeVars>>

-----------------------------------------------------------------------------
(* The Zephyr driver: a frame is queued, its completion comes as a callback *)

SendZephyr(m) ==
  /\ canVia = "zephyr" /\ MaySend /\ Encodable(m)
  /\ canNum' = canNum + 1
  /\ canTodo' = encode_control_command(m, canNum + 1, canSeq)
  /\ UNCHANGED <<canVia, canSeq, canCtx, canMail, canNet, canBus, canLate, bridgeVars>>

(* Mutant of ContextFree: a timed-out context is taken over at once. *)
ContextAnyway == canCtx.state # "Waiting"

(* can_send may start: a context left TimedOut is free once the late *)
(* callback has given the semaphore.                                 *)
ContextFree == canCtx.state = "Idle" \/ (canCtx.state = "TimedOut" /\ canCtx.sem = 1)

FailBatch ==
  /\ canTodo' = <<>> /\ canSeq' = SequenceAfter(FALSE)

QueueFrame ==
  /\ canTodo # <<>> /\ canCtx.state # "Waiting" /\ ContextFree
  /\ canCtx' = [state |-> "Waiting", sem |-> 0, err |-> 0]
  /\ canMail' = canMail \cup {Head(canTodo)}
  /\ UNCHANGED <<canVia, canSeq, canNum, canTodo, canNet, canBus, canLate, bridgeVars>>

(* The context is still owned by a frame that timed out, or the driver has *)
(* no free mailbox for 10 ms.                                              *)
QueueFails ==
  /\ canTodo # <<>> /\ canCtx.state # "Waiting"
  /\ canCtx' = IF ContextFree THEN Idle ELSE canCtx
  /\ FailBatch
  /\ UNCHANGED <<canVia, canNum, canMail, canNet, canBus, canLate, bridgeVars>>

(* can_tx_done_callback, from the driver's interrupt. *)
TxDone(f, err) ==
  /\ canMail' = canMail \ {f}
  /\ canBus' = IF err = 0 THEN Append(canBus, f) ELSE canBus
  /\ canCtx' = [canCtx EXCEPT !.err = err, !.sem = 1]
  /\ UNCHANGED <<canVia, canSeq, canNum, canTodo, canNet, canLate, bridgeVars>>

WaitEnds ==
  /\ canCtx.state = "Waiting" /\ canCtx.sem = 1
  /\ canCtx' = Idle
  /\ IF canCtx.err # 0 THEN FailBatch
     ELSE /\ canTodo' = Tail(canTodo)
          /\ canSeq' = IF Len(canTodo) = 1 THEN SequenceAfter(TRUE) ELSE canSeq
  /\ UNCHANGED <<canVia, canNum, canMail, canNet, canBus, canLate, bridgeVars>>

WaitTimesOut ==
  /\ canCtx.state = "Waiting" /\ canCtx.sem = 0
  /\ canCtx' = [canCtx EXCEPT !.state = "TimedOut"]
  /\ canLate' = canLate + IF Head(canTodo).id = "st" THEN 1 ELSE 0
  /\ FailBatch
  /\ UNCHANGED <<canVia, canNum, canMail, canNet, canBus, bridgeVars>>

-----------------------------------------------------------------------------
(* ControlCommandDecoder and the loop of the bridge *)

NoFrame == [id |-> "none", data |-> <<0, 0>>, seq |-> 0, n |-> 0,
            msg |-> [steer |-> 0, vel |-> 0, finite |-> TRUE]]

NoCommand == [steer |-> 0, vel |-> 0, lat |-> NoFrame, lon |-> NoFrame, st |-> NoFrame]

Cleared(dec) == [dec EXCEPT !.lat = NoFrame, !.lon = NoFrame]

(* Mutant of seq_delta: only an exact repeat is refused. *)
seq_repeat(sequence, expected) ==
  IF (sequence + 1) % SeqMod = expected THEN -1 ELSE 0

(* _seq_delta: the signed distance modulo 2^16. *)
seq_delta(sequence, expected) ==
  ((sequence - expected + SeqMod \div 2) % SeqMod) - SeqMod \div 2

(* Mutant of NoteTime: every frame feeds the watchdog. *)
NoteEveryTime(dec) == [dec EXCEPT !.anchored = TRUE, !.age = 0]

(* _note_time: only the first frame or poll sets the anchor. *)
NoteTime(dec) == IF dec.anchored THEN dec ELSE [dec EXCEPT !.anchored = TRUE, !.age = 0]

(* feed of a status frame that finds both halves and a number not yet used. *)
Accepted(dec, f) ==
  [lat |-> NoFrame, lon |-> NoFrame, safe |-> FALSE, hasExpected |-> TRUE,
   expected |-> (f.seq + 1) % SeqMod, anchored |-> TRUE, age |-> 0, event |-> "ACCEPTED",
   command |-> [steer |-> i32_le(dec.lat.data), vel |-> i32_le(dec.lon.data),
                lat |-> dec.lat, lon |-> dec.lon, st |-> f]]

Replayed(dec, f) == dec.hasExpected /\ seq_delta(f.seq, dec.expected) < 0

Paired(dec) == dec.lat # NoFrame /\ dec.lon # NoFrame

feed(noted, f) ==
  LET dec == NoteTime(noted)
  IN CASE f.id = "lat" -> [dec EXCEPT !.lat = f, !.event = "STORED"]
       [] f.id = "lon" -> [dec EXCEPT !.lon = f, !.event = "STORED"]
       [] f.id = "st" /\ (~Paired(dec) \/ Replayed(dec, f))
            -> [Cleared(dec) EXCEPT !.event = "REJECTED"]
       [] OTHER -> Accepted(dec, f)

feed_fd(dec, f) == feed(feed(feed(dec, f.parts[1]), f.parts[2]), f.parts[3])

poll_watchdog(noted) ==
  LET dec == NoteTime(noted)
  IN IF ~dec.safe /\ dec.age > CanTimeout
     THEN [Cleared(dec) EXCEPT !.safe = TRUE, !.hasExpected = FALSE, !.event = "IGNORED"]
     ELSE [dec EXCEPT !.event = "IGNORED"]

(* map_ackermann: the CARLA sign of steering, or the last one and no speed. *)
map_ackermann(dec) ==
  IF dec.safe
  THEN [canCtl EXCEPT !.kind = "stop", !.speed = 0]
  ELSE [kind |-> "drive", steer |-> -dec.command.steer, speed |-> dec.command.vel,
        n |-> dec.command.st.n, age |-> 0]

(* A new command that the decoder took for a replay of an older one. *)
RefusedNew(dec, f) ==
  LET st == IF f.id = "fd" THEN f.parts[3] ELSE f
      known == dec.command.st.n
  IN st.id = "st" /\ st.n > known /\ (f.id = "fd" \/ Paired(dec)) /\ Replayed(dec, st)

(* One iteration of main's loop: watchdog, at most one frame, the control. *)
BridgeApplies(dec) ==
  /\ canDec' = dec
  /\ canCtl' = IF dec.safe \/ dec.event = "ACCEPTED" THEN map_ackermann(dec) ELSE canCtl
  /\ canTick' = TRUE

BridgeReads ==
  /\ canBus # <<>>
  /\ LET polled == poll_watchdog(canDec)
         f == Head(canBus)
     IN /\ BridgeApplies(IF f.id = "fd" THEN feed_fd(polled, f) ELSE feed(polled, f))
        /\ canMissed' = canMissed + IF RefusedNew(polled, f) THEN 1 ELSE 0
  /\ canBus' = Tail(canBus)
  /\ UNCHANGED <<canVia, canNet, senderVars>>

BridgeWaits ==
  /\ canBus = <<>>
  /\ BridgeApplies(poll_watchdog(canDec))
  /\ UNCHANGED <<canVia, canNet, canBus, canMissed, senderVars>>

FdLoses ==
  /\ canVia = "fd" /\ canBus # <<>>
  /\ canBus' = Tail(canBus)
  /\ UNCHANGED <<canVia, canNet, senderVars, bridgeVars>>

(* Time passes: the loop iterates at least once in every 50 ms. *)
CanTicks ==
  /\ canTick
  /\ canTick' = FALSE
  /\ canDec' = [canDec EXCEPT !.age = IF @ > CanTimeout THEN @ ELSE @ + 1]
  /\ canCtl' = [canCtl EXCEPT !.age = IF @ > CanTimeout + 1 THEN @ ELSE @ + 1]
  /\ UNCHANGED <<canVia, canNet, canBus, canMissed, senderVars>>

-----------------------------------------------------------------------------

CanInit ==
  /\ canVia \in {"socketcan", "fd", "udp", "zephyr"}
  /\ canSeq \in CanStarts
  /\ canNum = 0 /\ canTodo = <<>> /\ canCtx = Idle /\ canMail = {}
  /\ canNet = {} /\ canBus = <<>> /\ canLate = 0 /\ canMissed = 0
  /\ canDec = [lat |-> NoFrame, lon |-> NoFrame, command |-> NoCommand, safe |-> FALSE,
               hasExpected |-> FALSE, expected |-> 0, anchored |-> FALSE, age |-> 0,
               event |-> "IGNORED"]
  /\ canCtl = [kind |-> "none", steer |-> 0, speed |-> 0, n |-> 0, age |-> 0]
  /\ canTick = FALSE

CanNext ==
  \/ \E m \in CanMessages :
       \/ SendRefused(m)
       \/ \E k \in 0 .. 3 : SendClassic(m, k)
       \/ \E k \in 0 .. 1 : SendFd(m, k)
       \/ \E ok \in BOOLEAN : SendUdp(m, ok)
       \/ SendZephyr(m)
  \/ \E d \in canNet : Loses(d) \/ \E k \in 0 .. 3, again \in BOOLEAN : Gateway(d, k, again)
  \/ QueueFrame \/ QueueFails \/ WaitEnds \/ WaitTimesOut
  \/ \E f \in canMail, err \in 0 .. 1 : TxDone(f, err)
  \/ BridgeReads \/ BridgeWaits \/ FdLoses \/ CanTicks

CanSpec == CanInit /\ [][CanNext]_canVars

-----------------------------------------------------------------------------
(* Properties *)

(* A command the bridge accepts is one command the controller sent: its     *)
(* steering, speed and status frames come from the same send, whatever      *)
(* prefix of a batch an earlier failure left on the bus and however late a  *)
(* timed-out frame left the driver, and the decoded values are within half  *)
(* a wire unit of the message (encoder, send, decoder.feed).                *)
AcceptedWhole ==
  LET c == canDec.command
  IN c # NoCommand =>
       /\ c.lat.n = c.st.n /\ c.lon.n = c.st.n
       /\ 10 * c.steer - c.st.msg.steer \in -5 .. 5
       /\ 10 * c.vel - c.st.msg.vel \in -5 .. 5

(* Outside a safe stop the vehicle never goes back to an older command: the *)
(* sequence window of decoder.feed refuses every repeated or overtaken      *)
(* datagram, across the wrap of the 16-bit number.                          *)
NeverBackwards ==
  [][canDec'.command # canDec.command /\ canDec.hasExpected /\ ~canDec.safe /\ ~canDec'.safe
       => canDec'.command.st.n > canDec.command.st.n]_canVars

(* No command drives the vehicle for longer than the timeout and one loop   *)
(* iteration: frames that are refused, incomplete or not ours do not feed   *)
(* the watchdog (poll_watchdog, _note_time).                                *)
NoOldDrive == canCtl.kind = "drive" => canCtl.age <= CanTimeout + 1

(* The decoder refuses a new command as a replay at most once for every     *)
(* status frame that completed late on Zephyr (can_send leaves sequence_    *)
(* unadvanced, so the next batch repeats the number), and never elsewhere.  *)
RefusedOnlyAfterLate == canMissed <= canLate

(* The Zephyr context is never shared: at most one frame is in the driver,  *)
(* and a completion that ends a wait belongs to the frame waited for, not   *)
(* to one that timed out before (can_send, can_tx_done_callback).           *)
OneCompletion ==
  /\ Cardinality(canMail) <= 1
  /\ canCtx.state = "Waiting" /\ canMail # {} => canMail = {Head(canTodo)} /\ canCtx.sem = 0

CanTypeOK ==
  /\ canSeq \in 0 .. SeqMod - 1 /\ canNum \in 0 .. MaxSends
  /\ canCtx.state \in {"Idle", "Waiting", "TimedOut"}
  /\ Len(canTodo) <= 3 /\ canDec.expected \in 0 .. SeqMod - 1

(* What arrives at the vehicle is one whole command, refused only where the *)
(* protocol has to, and in force no longer than the watchdog allows.        *)
CanSound ==
  CanTypeOK /\ AcceptedWhole /\ NoOldDrive /\ RefusedOnlyAfterLate /\ OneCompletion
=============================================================================
