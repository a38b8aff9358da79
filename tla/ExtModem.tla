------------------------------ MODULE ExtModem ------------------------------
(***************************************************************************)
(* extmodem (src/extmodem): a sound card modem for AX.25 packets between a *)
(* radio and the programs connected to its KISS and AGWPE TCP servers.     *)
(*                                                                         *)
(* Two threads of its three.  The recording thread runs the decoders and   *)
(* dispatches what they decode; the main thread runs the handlers of the   *)
(* io_service: accepts, reads, writes and the flush of the output queue.   *)
(* Each action of the main thread is one handler; those of the other end   *)
(* where a mutex is released.  What the clients send goes to the encoder   *)
(* and the playing thread, which are in AfskLink.                          *)
(***************************************************************************)
EXTENDS Integers, Sequences

CONSTANTS
  Frames,       \* packets; different ones have different CRCs
  NoFrame,
  KissSessions, AgwpeSessions,
  MaxHeard,     \* bound: how often a decoder finds a packet
  MaxRequests   \* bound: the requests of the AGWPE clients

Sessions == KissSessions \cup AgwpeSessions

ASSUME NoFrameAssumption == NoFrame \notin Frames
ASSUME SessionsAssumption == KissSessions \cap AgwpeSessions = {}
ASSUME BoundsAssumption == MaxHeard \in Nat /\ MaxRequests \in Nat

VARIABLES
  last_packet_crc,  \* of modem: the last packet dispatched
  unposted,         \* write_to_all_safe() has queued, and not posted yet
  output_queue,     \* of tcpserver, under output_queue_mutex_
  flushes,          \* flush_output_queue handlers that wait in the io_service
  session,          \* the session objects
  clients,          \* clients_ of the two servers
  heard, requests,  \* how much of the bounds is used
  due,              \* history: the frames flushed since the KISS client came
  received          \* history: the frames it has received

radio == <<last_packet_crc, unposted, heard>>
history == <<due, received>>
vars == <<radio, output_queue, flushes, session, clients, requests, history>>
-----------------------------------------------------------------------------
(***************************************************************************)
(* The recording thread: a decoder has a packet.  Several decoders listen  *)
(* to a channel, so the same packet may come again; only a repetition that *)
(* follows at once is told from a new packet.                              *)
(* dispatch_packet() and write_to_all_safe(): to the queue, under its      *)
(* mutex.                                                                  *)
(***************************************************************************)
Decoded == Frames

Dispatch ==
  /\ ~unposted /\ heard < MaxHeard
  /\ heard' = heard + 1
  /\ \E f \in Decoded :
       IF f = last_packet_crc
       THEN UNCHANGED <<last_packet_crc, output_queue, unposted>>
       ELSE /\ last_packet_crc' = f
            /\ output_queue' = Append(output_queue, f)
            /\ unposted' = TRUE
  /\ UNCHANGED <<flushes, session, clients, requests, history>>

\* write_to_all_safe(): io_service_.dispatch()
Post ==
  /\ unposted
  /\ unposted' = FALSE
  /\ flushes' = flushes + 1
  /\ UNCHANGED <<last_packet_crc, heard, output_queue, session, clients, requests,
                 history>>

-----------------------------------------------------------------------------
(***************************************************************************)
(* A session object: "read" and "write" are its asynchronous operations:   *)
(* "none" while waiting_read_ or waiting_write_ is not set, "pending" until *)
(* the operation ends, then its result until the handler runs.  A socket   *)
(* that is closed ends the pending operations with an error, and those     *)
(* that are started later at once.                                         *)
(***************************************************************************)
NewSession == [state |-> "accepting", read |-> "none", write |-> "none",
               closing |-> FALSE, socket |-> "open", peer |-> "there",
               want_raw_frames |-> FALSE, out |-> <<>>]

Started(x) == IF x.socket = "open" THEN "pending" ELSE "error"

start_read(x) == [x EXCEPT !.read = Started(x)]

start_write(x) ==
  IF x.out # <<>> /\ x.write = "none" THEN [x EXCEPT !.write = Started(x)] ELSE x

write_raw(x, data) == start_write([x EXCEPT !.out = Append(@, data)])

Aborted(operation) == IF operation = "pending" THEN "error" ELSE operation

close(x) == [x EXCEPT !.socket = "closed", !.read = Aborted(@), !.write = Aborted(@)]

Deleted(x) == [x EXCEPT !.state = "deleted", !.peer = "gone", !.out = <<>>,
                        !.want_raw_frames = FALSE]

\* Mutant: the object is deleted by the first of its handlers that fails.
on_error_at_once(x) == Deleted(close([x EXCEPT !.closing = TRUE]))

on_error(x) ==
  LET y == IF x.closing THEN x ELSE close([x EXCEPT !.closing = TRUE]) IN
  IF y.read = "none" /\ y.write = "none" THEN Deleted(y) ELSE y

RawWanted(s, x) == s \in KissSessions \/ x.want_raw_frames

\* Mutant: one frame of the queue, as if each flush had one to write.
WriteAll_first(s, x, frames) ==
  IF s \in clients /\ RawWanted(s, x) /\ frames # <<>>
  THEN start_write([x EXCEPT !.out = Append(@, Head(frames))])
  ELSE x

\* write_to_all() of the frames of the queue, one after the other
WriteAll(s, x, frames) ==
  IF s \in clients /\ RawWanted(s, x) /\ frames # <<>>
  THEN start_write([x EXCEPT !.out = @ \o frames])
  ELSE x

\* handle_accept() and start() of the session
HandleAccept(s) ==
  /\ session[s].state = "accepting"
  /\ session' = [session EXCEPT ![s] = start_read([@ EXCEPT !.state = "open"])]
  /\ clients' = clients \cup {s}
  /\ UNCHANGED <<radio, output_queue, flushes, requests, history>>

\* The operations end; data that is written may not be read any more.
ReadEnds(s) ==
  /\ session[s].read = "pending"
  /\ \/ /\ session[s].peer = "there"
        /\ s \in AgwpeSessions => requests < MaxRequests
        /\ session' = [session EXCEPT ![s].read = "data"]
        /\ requests' = IF s \in AgwpeSessions THEN requests + 1 ELSE requests
     \/ /\ session[s].peer = "gone"
        /\ session' = [session EXCEPT ![s].read = "error"]
        /\ UNCHANGED requests
  /\ UNCHANGED <<radio, output_queue, flushes, clients, history>>

WriteEnds(s) ==
  /\ session[s].write = "pending"
  /\ \/ /\ session' = [session EXCEPT ![s].write = "ok"]
        /\ received' = IF session[s].peer = "there" /\ s \in KissSessions
                       THEN [received EXCEPT ![s] = Append(@, Head(session[s].out))]
                       ELSE received
     \/ /\ session[s].peer = "gone"
        /\ session' = [session EXCEPT ![s].write = "error"]
        /\ UNCHANGED received
  /\ UNCHANGED <<radio, output_queue, flushes, clients, requests, due>>

PeerLeaves(s) ==
  /\ session[s].state = "open" /\ session[s].peer = "there"
  /\ session' = [session EXCEPT ![s].peer = "gone"]
  /\ IF s \in KissSessions
     THEN due' = [due EXCEPT ![s] = <<>>] /\ received' = [received EXCEPT ![s] = <<>>]
     ELSE UNCHANGED history
  /\ UNCHANGED <<radio, output_queue, flushes, clients, requests>>

\* Has handle_read() or handle_write() fail: on_error()
Fail(s, x) ==
  /\ session' = [session EXCEPT ![s] = on_error(x)]
  /\ clients' = clients \ {s}

(***************************************************************************)
(* handle_incoming_data(): a packet to send; with AGWPE also a question,   *)
(* the switch of raw frames, or something that is no AGWPE frame.          *)
(***************************************************************************)
HandleRead(s) ==
  LET x == [session[s] EXCEPT !.read = "none"]
      ReadOn(y) == session' = [session EXCEPT ![s] = start_read(y)] /\ UNCHANGED clients
  IN
  /\ \/ session[s].read = "error" /\ Fail(s, x)
     \/ /\ session[s].read = "data"
        /\ \/ ReadOn(x)
           \/ /\ s \in AgwpeSessions
              /\ \/ ReadOn([x EXCEPT !.want_raw_frames = ~@])
                 \/ ReadOn(write_raw(x, "reply"))
                 \/ ReadOn(close(x))
  /\ UNCHANGED <<radio, output_queue, flushes, requests, history>>

\* Mutant: the next entry waits for the next write().
HandleWrite_without_next(s) ==
  LET x == [session[s] EXCEPT !.write = "none"] IN
  /\ \/ session[s].write = "error" /\ Fail(s, x)
     \/ /\ session[s].write = "ok"
        /\ session' = [session EXCEPT ![s] = [x EXCEPT !.out = Tail(@)]]
        /\ UNCHANGED clients
  /\ UNCHANGED <<radio, output_queue, flushes, requests, history>>

HandleWrite(s) ==
  LET x == [session[s] EXCEPT !.write = "none"] IN
  /\ \/ session[s].write = "error" /\ Fail(s, x)
     \/ /\ session[s].write = "ok"
        /\ session' = [session EXCEPT ![s] = start_write([x EXCEPT !.out = Tail(@)])]
        /\ UNCHANGED clients
  /\ UNCHANGED <<radio, output_queue, flushes, requests, history>>

\* flush_output_queue()
Flush ==
  /\ flushes > 0
  /\ flushes' = flushes - 1
  /\ session' = [s \in Sessions |-> WriteAll(s, session[s], output_queue)]
  /\ due' = [s \in KissSessions |->
              IF s \in clients /\ session[s].peer = "there" THEN due[s] \o output_queue
              ELSE due[s]]
  /\ output_queue' = <<>>
  /\ UNCHANGED <<radio, clients, requests, received>>
-----------------------------------------------------------------------------
Init ==
  /\ last_packet_crc = NoFrame
  /\ unposted = FALSE
  /\ output_queue = <<>>
  /\ flushes = 0
  /\ session = [s \in Sessions |-> NewSession]
  /\ clients = {}
  /\ heard = 0 /\ requests = 0
  /\ due = [s \in KissSessions |-> <<>>]
  /\ received = [s \in KissSessions |-> <<>>]

Handlers(s) == HandleRead(s) \/ HandleWrite(s)

Network(s) == HandleAccept(s) \/ ReadEnds(s) \/ WriteEnds(s) \/ PeerLeaves(s)

Next ==
  \/ Dispatch \/ Post
  \/ Flush
  \/ \E s \in Sessions : Handlers(s) \/ Network(s)

Spec == Init /\ [][Next]_vars

\* The threads run and the io_service runs every handler; clients read.
FairSpec ==
  /\ Spec
  /\ WF_vars(Post) /\ WF_vars(Flush)
  /\ \A s \in Sessions : WF_vars(HandleRead(s)) /\ WF_vars(HandleWrite(s))
                          /\ WF_vars(WriteEnds(s))
-----------------------------------------------------------------------------
Operation == {"none", "pending", "error"}

\* The types of the members.
TypeOK ==
  /\ last_packet_crc \in Frames \cup {NoFrame}
  /\ unposted \in BOOLEAN
  /\ output_queue \in Seq(Frames)
  /\ flushes \in Nat
  /\ session \in [Sessions ->
       [state : {"accepting", "open", "deleted"}, read : Operation \cup {"data"},
        write : Operation \cup {"ok"}, closing : BOOLEAN, socket : {"open", "closed"},
        peer : {"there", "gone"}, want_raw_frames : BOOLEAN,
        out : Seq(Frames \cup {"reply"})]]
  /\ clients \subseteq Sessions
  /\ heard \in 0..MaxHeard /\ requests \in 0..MaxRequests
  /\ due \in [KissSessions -> Seq(Frames)]
  /\ received \in [KissSessions -> Seq(Frames)]

(***************************************************************************)
(* "delete this" in on_error(): a session that is deleted has no operation *)
(* whose handler would still run, and is not a client any more.            *)
(***************************************************************************)
NoUseAfterDelete ==
  \A s \in Sessions :
    session[s].state = "deleted" =>
      session[s].read = "none" /\ session[s].write = "none" /\ s \notin clients

(***************************************************************************)
(* A session is neither deleted too early nor forgotten: one with nothing  *)
(* waiting, which no handler will close any more, is not among the         *)
(* clients.                                                                *)
(***************************************************************************)
ClientsAreHandled ==
  /\ TypeOK /\ NoUseAfterDelete
  /\ \A s \in clients : session[s].read # "none" /\ ~session[s].closing

(***************************************************************************)
(* Every frame that is dispatched while a KISS client is connected goes to *)
(* it once and in order, whatever it sends and however slowly it reads.    *)
(***************************************************************************)
Unsent(x) == IF x.write = "ok" THEN Tail(x.out) ELSE x.out

EveryFrameOnce ==
  \A s \in KissSessions \cap clients :
    session[s].peer = "there" =>
      received[s] \o Unsent(session[s]) = due[s]

(***************************************************************************)
(* What the recording thread queues does not wait for the next frame, and  *)
(* what is queued for a client that stays is written, the frames that came *)
(* while a write was under way too.                                        *)
(***************************************************************************)
QueuesDrain ==
  /\ output_queue # <<>> ~> output_queue = <<>>
  /\ \A s \in Sessions :
       session[s].out # <<>>
         ~> \/ session[s].out = <<>>
            \/ session[s].peer = "gone" \/ session[s].socket = "closed"
=============================================================================
