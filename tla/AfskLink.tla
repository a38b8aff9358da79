------------------------------ MODULE AfskLink ------------------------------
(***************************************************************************)
(* extmodem (src/extmodem): from a client's packet to the packet another   *)
(* extmodem dispatches.  The main thread turns a packet into samples       *)
(* (encoder_af1200stj::send()); the playing thread asks for buffers of     *)
(* samples, keys the transmitter (PTT) and writes them to the sound        *)
(* device, which plays them later; the other station demodulates them and  *)
(* looks for packets (hdlc.cpp).                                           *)
(*                                                                         *)
(* A symbol, one of two tones, is one sample.  While the transmitter is    *)
(* not keyed the other station hears silence, in which the tone does not   *)
(* change.  The actions of the two threads end where a mutex is released.  *)
(***************************************************************************)
EXTENDS Integers, FiniteSets, SequencesExt

CONSTANTS
  Frames,      \* the packets the clients send: sequences of bytes
  TxDelay,     \* flags before a packet (config tx-delay)
  TxTail,      \* and after it (config tx-tail)
  BufferSize,  \* config frames-per-buffer
  Latency,     \* how many buffers the sound device holds
  MaxQueue,    \* send() drops a packet when more are queued (5)
  MaxPacket,   \* sizeof(rxbuf) (1024)
  MaxSends     \* bound: the packets of the clients

ASSUME FramesAssumption == Frames \subseteq Seq(0..255) /\ \A f \in Frames : f # <<>>
ASSUME SizesAssumption ==
  /\ BufferSize \in Nat \ {0} /\ Latency \in Nat \ {0} /\ MaxPacket \in Nat
  /\ TxDelay \in Nat /\ TxTail \in Nat /\ MaxQueue \in Nat /\ MaxSends \in Nat

\* What is configured covers a buffer before a packet, the device after it, and a
\* buffer is a byte at least.  Nothing in the code sees to it, and the defaults do
\* not: 200 ms, 50 ms, and buffers of 8192 samples, 372 ms (extconfig.cpp:60-65).
DelaysCover ==
  /\ BufferSize >= 8
  /\ 8 * TxDelay >= BufferSize + 16
  /\ 8 * TxTail >= (Latency + 1) * BufferSize + 8

VARIABLES
  encoding,   \* the packets send() makes samples of, at most one
  out_queue,  \* of the encoder, under out_queue_mutex_
  out_ptr,    \* out_queue_ptr_
  play,       \* where the playing thread is, and its buffer
  tx,         \* the PTT
  device,     \* the buffers the sound device has not played
  stopped,    \* the device ran dry or was suspended: it has to be prepared again
  rx,         \* the demodulator and l2_state_hdlc of the other station
  requests,   \* the packets of the clients so far
  sent,       \* history: the packets queued
  dispatched  \* history: the packets the other station dispatched

client == <<encoding, requests, sent>>
receiver == <<rx, dispatched>>
vars == <<client, out_queue, out_ptr, play, tx, device, stopped, receiver>>
-----------------------------------------------------------------------------
(***************************************************************************)
(* Bits: of a byte the least significant one first.                        *)
(***************************************************************************)
Weights == <<1, 2, 4, 8, 16, 32, 64, 128>>

Bits(byte) == [i \in 1..8 |-> (byte \div Weights[i]) % 2]

BitsOf(bytes) ==
  [i \in 1..(8 * Len(bytes)) |-> Bits(bytes[(i - 1) \div 8 + 1])[((i - 1) % 8) + 1]]

Flag == Bits(126)

(***************************************************************************)
(* crc_ccitt_table shifts a byte through this register.                    *)
(***************************************************************************)
Xor(a, b) == (a + b) % 2

ShiftCrc(r, bit) ==
  LET x == Xor(Head(r), bit) IN
  [Append(Tail(r), x) EXCEPT ![4] = Xor(@, x), ![11] = Xor(@, x)]

Crc(bits) == FoldLeft(ShiftCrc, BitsOf(<<255, 255>>), bits)

calc_crc_ccitt(bits) == LET r == Crc(bits) IN [i \in 1..16 |-> 1 - r[i]]

check_crc_ccitt(bits) == Crc(bits) = BitsOf(<<184, 240>>)

(***************************************************************************)
(* byteToSymbols(): a zero after five ones, unless it is a flag; a zero    *)
(* changes the tone.                                                       *)
(***************************************************************************)
Stuff(acc, b) ==
  IF b = 1 /\ acc.count = 4 THEN [out |-> acc.out \o <<1, 0>>, count |-> 0]
  ELSE [out |-> Append(acc.out, b), count |-> IF b = 1 THEN acc.count + 1 ELSE 0]

Stuffed(bits) == FoldLeft(Stuff, [out |-> <<>>, count |-> 0], bits).out

Flags(n) == BitsOf([i \in 1..n |-> 126])

Symbols(bits) ==
  [i \in DOMAIN bits |-> Cardinality({j \in 1..i : bits[j] = 0}) % 2]

\* The samples of send(): preamble, data and CRC, tail
Message(f) == BitsOf(f) \o calc_crc_ccitt(BitsOf(f))

Samples(f) == Symbols(Flags(TxDelay) \o Stuffed(Message(f)) \o Flags(TxTail))
-----------------------------------------------------------------------------
(***************************************************************************)
(* send() looks at the queue, makes the samples and queues them.           *)
(***************************************************************************)
Check ==
  /\ encoding = <<>>
  /\ requests < MaxSends
  /\ requests' = requests + 1
  /\ \E f \in Frames :
       encoding' = IF Len(out_queue) > MaxQueue THEN <<>> ELSE <<f>>
  /\ UNCHANGED <<sent, out_queue, out_ptr, play, tx, device, stopped, receiver>>

Queue ==
  /\ encoding # <<>>
  /\ out_queue' = Append(out_queue, Samples(Head(encoding)))
  /\ sent' = sent \o encoding
  /\ encoding' = <<>>
  /\ UNCHANGED <<requests, out_ptr, play, tx, device, stopped, receiver>>
-----------------------------------------------------------------------------
(***************************************************************************)
(* output_callback(): key the transmitter if there is something to play,   *)
(* fill the buffer, release the transmitter if all of it is in buffers.    *)
(***************************************************************************)
Silence == 2

Key ==
  /\ play.at = "start"
  /\ tx' = (tx \/ out_queue # <<>>)
  /\ play' = [play EXCEPT !.at = "fill"]
  /\ UNCHANGED <<client, out_queue, out_ptr, device, stopped, receiver>>

\* As many samples of the first packet of the queue as the buffer has room for
Taken ==
  LET samples == Head(out_queue)
      room == BufferSize - Len(play.buffer)
      left == Len(samples) - out_ptr
  IN SubSeq(samples, out_ptr + 1, out_ptr + (IF left < room THEN left ELSE room))

PopFront == out_queue' = Tail(out_queue) /\ out_ptr' = 0

Fill ==
  /\ play.at = "fill"
  /\ out_queue # <<>> /\ Len(play.buffer) < BufferSize
  /\ play' = [play EXCEPT !.buffer = @ \o Taken]
  /\ IF out_ptr + Len(Taken) = Len(Head(out_queue))
     THEN PopFront
     ELSE out_ptr' = out_ptr + Len(Taken) /\ UNCHANGED out_queue
  /\ UNCHANGED <<client, tx, device, stopped, receiver>>

Filled ==
  /\ play.at = "fill"
  /\ out_queue = <<>> \/ Len(play.buffer) = BufferSize
  /\ play' = [at |-> "release",
              buffer |-> play.buffer \o
                           [i \in 1..(BufferSize - Len(play.buffer)) |-> Silence]]
  /\ UNCHANGED <<client, out_queue, out_ptr, tx, device, stopped, receiver>>

\* Mutant: the transmitter stays keyed after the last packet.
Release_never ==
  /\ play.at = "release"
  /\ tx' = (tx /\ (out_queue # <<>> \/ requests = MaxSends))
  /\ play' = [play EXCEPT !.at = "write"]
  /\ UNCHANGED <<client, out_queue, out_ptr, device, stopped, receiver>>

\* Mutant: the transmitter is released after each buffer.
Release_each ==
  /\ play.at = "release"
  /\ tx' = FALSE
  /\ play' = [play EXCEPT !.at = "write"]
  /\ UNCHANGED <<client, out_queue, out_ptr, device, stopped, receiver>>

Release ==
  /\ play.at = "release"
  /\ tx' = (tx /\ out_queue # <<>>)
  /\ play' = [play EXCEPT !.at = "write"]
  /\ UNCHANGED <<client, out_queue, out_ptr, device, stopped, receiver>>

NextBuffer == play' = [at |-> "start", buffer |-> <<>>]

\* loop_async_thread_play() waits for room in the device.
Write ==
  /\ play.at = "write"
  /\ ~stopped /\ Len(device) < Latency
  /\ device' = Append(device, play.buffer)
  /\ NextBuffer
  /\ UNCHANGED <<client, out_queue, out_ptr, tx, stopped, receiver>>

\* snd_pcm_writei() fails: the buffer is gone, and what is dropped and prepared
\* again is the capture handle, so the next write fails as well.
WriteFails ==
  /\ play.at = "write"
  /\ stopped
  /\ NextBuffer
  /\ UNCHANGED <<client, out_queue, out_ptr, tx, device, stopped, receiver>>
-----------------------------------------------------------------------------
(***************************************************************************)
(* The other station.  hdlc::rxbit() collects the bits since the last      *)
(* flag; the packets it finds go to modem::dispatch_packet().              *)
(***************************************************************************)
Recent(stream, n) == SubSeq(stream, Len(stream) - n + 1, Len(stream))

dispatch_packet(r, data) ==
  LET crc == calc_crc_ccitt(data) IN
  IF crc = r.last_packet_crc THEN r
  ELSE [r EXCEPT !.last_packet_crc = crc,
                 !.found = Append(@, [i \in 1..(Len(data) \div 8) |->
                                        SubSeq(data, 8 * i - 7, 8 * i)])]

ax25_dispatch_packet(r) ==
  IF check_crc_ccitt(r.buf) THEN dispatch_packet(r, SubSeq(r.buf, 1, Len(r.buf) - 16))
  ELSE r

\* rxbuf and the bits of the next byte, which rxbitbuf has
Bytes(r) == Len(r.buf) \div 8

Collect(r, bit) ==
  IF Len(r.buf) % 8 = 7 /\ Bytes(r) >= MaxPacket THEN [r EXCEPT !.rxstate = FALSE]
  ELSE [r EXCEPT !.buf = Append(@, bit)]

Whole(r) == [r EXCEPT !.buf = SubSeq(@, 1, 8 * Bytes(r))]

rxbit(r0, bit) ==
  LET r == [r0 EXCEPT !.rxbitstream = Append(Tail(@), bit)] IN
  IF r.rxbitstream = Flag
  THEN [(IF r.rxstate /\ Bytes(r) > 2 THEN ax25_dispatch_packet(Whole(r)) ELSE r)
          EXCEPT !.rxstate = TRUE, !.buf = <<>>]
  ELSE IF Recent(r.rxbitstream, 7) = <<1, 1, 1, 1, 1, 1, 1>>
  THEN [r EXCEPT !.rxstate = FALSE, !.buf = <<>>]
  ELSE IF ~r.rxstate \/ Recent(r.rxbitstream, 6) = <<1, 1, 1, 1, 1, 0>> THEN r
  ELSE Collect(r, bit)

\* A transition is a zero, a bit time without one a one.
Demodulate(r, symbol) ==
  LET s == IF symbol = Silence THEN r.symbol ELSE symbol IN
  rxbit([r EXCEPT !.symbol = s], IF s = r.symbol THEN 1 ELSE 0)

Mute(buffer) == [i \in DOMAIN buffer |-> Silence]

\* The device plays a buffer.
Play ==
  /\ device # <<>>
  /\ device' = Tail(device)
  /\ LET heard == FoldLeft(Demodulate, rx, IF tx THEN Head(device)
                                           ELSE Mute(Head(device))) IN
     /\ rx' = [heard EXCEPT !.found = <<>>]
     /\ dispatched' = dispatched \o heard.found
  /\ UNCHANGED <<client, out_queue, out_ptr, play, tx, stopped>>

\* It stops, with what it holds: nothing came in time, or the system suspended it.
DeviceStops ==
  /\ ~stopped
  /\ stopped' = TRUE
  /\ device' = <<>>
  /\ UNCHANGED <<client, out_queue, out_ptr, play, tx, receiver>>
-----------------------------------------------------------------------------
NoCrc == [i \in 1..16 |-> 0]

Init ==
  /\ encoding = <<>> /\ out_queue = <<>> /\ out_ptr = 0
  /\ play = [at |-> "start", buffer |-> <<>>]
  /\ tx = FALSE
  /\ device = <<>> /\ stopped = FALSE
  /\ rx = [symbol |-> 0, rxbitstream |-> [i \in 1..8 |-> 0], rxstate |-> FALSE,
           buf |-> <<>>, last_packet_crc |-> NoCrc, found |-> <<>>]
  /\ requests = 0
  /\ sent = <<>> /\ dispatched = <<>>

Playing == Key \/ Fill \/ Filled \/ Release \/ Write \/ WriteFails

Next == Check \/ Queue \/ Playing \/ Play \/ DeviceStops

Spec == Init /\ [][Next]_vars
-----------------------------------------------------------------------------
Symbol == {0, 1, Silence}

\* The types; six packets wait at most, and the buffers are not overrun.
TypeOK ==
  /\ encoding \in {<<>>} \cup {<<f>> : f \in Frames}
  /\ out_queue \in Seq(Seq({0, 1})) /\ Len(out_queue) <= MaxQueue + 1
  /\ out_ptr \in Nat
  /\ out_queue # <<>> => out_ptr < Len(Head(out_queue))
  /\ play.at \in {"start", "fill", "release", "write"}
  /\ play.buffer \in Seq(Symbol) /\ Len(play.buffer) <= BufferSize
  /\ tx \in BOOLEAN /\ stopped \in BOOLEAN
  /\ Len(device) <= Latency
  /\ \A i \in DOMAIN device : device[i] \in [1..BufferSize -> Symbol]
  /\ rx.symbol \in {0, 1} /\ rx.rxstate \in BOOLEAN /\ rx.found = <<>>
  /\ rx.rxbitstream \in [1..8 -> {0, 1}]
  /\ rx.buf \in Seq({0, 1}) /\ Bytes(rx) <= MaxPacket
  /\ requests \in 0..MaxSends
  /\ sent \in Seq(Frames)

(***************************************************************************)
(* What the other station can dispatch: a packet that fits in its buffer,  *)
(* unless its CRC is the one of the packet dispatched before, the number   *)
(* zero at first.                                                          *)
(***************************************************************************)
Fits(f) == Len(f) + 2 <= MaxPacket

FrameCrc(f) == calc_crc_ccitt(BitsOf(f))

LastCrc(frames) == IF frames = <<>> THEN NoCrc ELSE FrameCrc(Last(frames))

Deliver(frames, f) ==
  IF Fits(f) /\ FrameCrc(f) # LastCrc(frames) THEN Append(frames, f) ELSE frames

Expected == FoldLeft(Deliver, <<>>, sent)

AsBits(frames) ==
  [i \in DOMAIN frames |-> [j \in DOMAIN frames[i] |-> Bits(frames[i][j])]]

(***************************************************************************)
(* Between two callbacks the transmitter is keyed only for what is queued, *)
(* and the place in what is queued is always one in its first packet.      *)
(***************************************************************************)
KeyedForAReason ==
  /\ TypeOK
  /\ play.at \in {"write", "start"} /\ tx => out_queue # <<>>

\* Nothing is left to play.
Played ==
  /\ encoding = <<>> /\ out_queue = <<>>
  /\ \A b \in {play.buffer} \cup ToSet(device) : ToSet(b) \subseteq {Silence}

IsSubsequence(part, whole) ==
  LET Match(n, x) == IF n < Len(part) /\ part[n + 1] = x THEN n + 1 ELSE n IN
  FoldLeft(Match, 0, whole) = Len(part)

(***************************************************************************)
(* Whatever the delays and the device do, nothing is dispatched that was   *)
(* not sent, and nothing twice or out of order: what is left of a packet   *)
(* cut off at its beginning or end is not taken for a packet, nor joined   *)
(* with the next one.                                                      *)
(***************************************************************************)
HeardInOrder == IsSubsequence(dispatched, AsBits(Expected))

(***************************************************************************)
(* No packet is skipped: neither the moment at which a packet is queued,   *)
(* with the transmitter just released or not keyed yet, nor the buffers it *)
(* is cut into matter.  When nothing is left to play, all that was queued  *)
(* has been dispatched, if the device did not stop: the transmitter is not *)
(* released so early that the end is cut off, nor keyed too late for the   *)
(* beginning.  This takes delays that cover the buffers (DelaysCover).     *)
(***************************************************************************)
HeardAsSent ==
  /\ IsPrefix(dispatched, AsBits(Expected))
  /\ Played /\ ~stopped => dispatched = AsBits(Expected)
=============================================================================
