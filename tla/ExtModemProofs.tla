--------------------------- MODULE ExtModemProofs ---------------------------
(***************************************************************************)
(* That every session of extmodem that is a client is handled, that none   *)
(* is used after it has been deleted, and that every frame goes to every   *)
(* KISS client once and in order: for any packets, any number of clients   *)
(* and any number of packets and requests.                                 *)
(***************************************************************************)
EXTENDS ExtModem, SequenceTheorems, TLAPS

SessionType ==
  [state : {"accepting", "open", "deleted"}, read : Operation \cup {"data"},
   write : Operation \cup {"ok"}, closing : BOOLEAN, socket : {"open", "closed"},
   peer : {"there", "gone"}, want_raw_frames : BOOLEAN,
   out : Seq(Frames \cup {"reply"})]

(***************************************************************************)
(* What holds of a session object whoever acts on it: it is untouched      *)
(* until it is accepted, and has no operation once it is deleted; what is  *)
(* being written, or has been and waits for its handler, is at the head of *)
(* its queue; and while the session is not closing, what is in the queue   *)
(* is being written.                                                       *)
(***************************************************************************)
SessionOK(s, x) ==
  /\ x.state = "accepting" => x = NewSession
  /\ x.state = "deleted" => x.read = "none" /\ x.write = "none"
  /\ x.write \in {"pending", "ok"} => x.out # <<>>
  /\ x.state = "open" /\ ~x.closing /\ x.out # <<>> => x.write # "none"
  /\ s \in KissSessions => x.out \in Seq(Frames)

IsClient(x) == x.state = "open" /\ x.read # "none" /\ ~x.closing

SessionsOK ==
  \A s \in Sessions :
    /\ SessionOK(s, session[s])
    /\ s \in clients => IsClient(session[s])
    /\ s \in KissSessions /\ session[s].state = "accepting" =>
         due[s] = <<>> /\ received[s] = <<>>

(***************************************************************************)
(* Nothing is stranded: what the recording thread has queued has a flush   *)
(* that is posted or about to be, and what is queued for a session that is *)
(* not closing is being written (handle_write() and write() start the next *)
(* write, dispatch_packet() posts after it has queued).                    *)
(***************************************************************************)
FlushIsPosted == output_queue # <<>> => unposted \/ flushes > 0

NothingIsStranded ==
  /\ FlushIsPosted
  /\ \A s \in Sessions :
       session[s].state = "open" /\ ~session[s].closing /\ session[s].out # <<>>
         => session[s].write # "none"

ExtInv == TypeOK /\ FlushIsPosted /\ SessionsOK /\ EveryFrameOnce
-----------------------------------------------------------------------------
(***************************************************************************)
(* Queues: what is at the head and what comes after it.                    *)
(***************************************************************************)
LEMMA HeadAndTail ==
  ASSUME NEW S, NEW q \in Seq(S), q # <<>>
  PROVE  /\ Head(q) \in S /\ Tail(q) \in Seq(S)
         /\ q = <<Head(q)>> \o Tail(q)
BY HeadTailProperties

LEMMA TailOfConcat ==
  ASSUME NEW S, NEW q \in Seq(S), NEW r \in Seq(S), q # <<>>
  PROVE  q \o r # <<>> /\ Tail(q \o r) = Tail(q) \o r
<1>1. q \o r \in Seq(S) /\ Len(q \o r) = Len(q) + Len(r)
  BY ConcatProperties
<1>2. Len(q) \in Nat \ {0} /\ Len(r) \in Nat
  BY EmptySeq, LenProperties
<1>3. q \o r # <<>>
  BY <1>1, <1>2, EmptySeq
<1>4. Tail(q) \in Seq(S) /\ Tail(q \o r) \in Seq(S)
  BY <1>1, <1>3, HeadTailProperties
<1>5. Len(Tail(q)) = Len(q) - 1 /\ Len(Tail(q \o r)) = Len(q) + Len(r) - 1
  BY <1>1, <1>3, HeadTailProperties
<1>6. Tail(q) \o r \in Seq(S) /\ Len(Tail(q) \o r) = Len(q) + Len(r) - 1
  BY <1>2, <1>4, <1>5, ConcatProperties
<1>7. ASSUME NEW i \in 1..Len(Tail(q \o r))
      PROVE  Tail(q \o r)[i] = (Tail(q) \o r)[i]
  <2>1. i \in 1..(Len(q) + Len(r) - 1) /\ i + 1 \in 1..(Len(q) + Len(r))
    BY <1>2, <1>5, <1>7
  <2>2. Tail(q \o r)[i] = (q \o r)[i + 1]
    BY <1>1, <1>3, <1>7, HeadTailProperties
  <2>3. (q \o r)[i + 1] = IF i + 1 <= Len(q) THEN q[i + 1] ELSE r[i + 1 - Len(q)]
    BY <2>1, ConcatProperties
  <2>4. (Tail(q) \o r)[i] = IF i <= Len(q) - 1 THEN Tail(q)[i] ELSE r[i - (Len(q) - 1)]
    BY <1>2, <1>4, <1>5, <2>1, ConcatProperties
  <2>5. i <= Len(q) - 1 => Tail(q)[i] = q[i + 1]
    BY <1>2, <1>5, <2>1, HeadTailProperties
  <2> QED
    BY <1>2, <2>1, <2>2, <2>3, <2>4, <2>5
<1> QED
  BY <1>3, <1>4, <1>5, <1>6, <1>7, SeqEqual

(***************************************************************************)
(* The operations of a session.                                            *)
(***************************************************************************)
LEMMA SessionFields ==
  ASSUME NEW x \in SessionType
  PROVE  /\ x.state \in {"accepting", "open", "deleted"}
         /\ x.read \in Operation \cup {"data"} /\ x.write \in Operation \cup {"ok"}
         /\ x.closing \in BOOLEAN /\ x.socket \in {"open", "closed"}
         /\ x.peer \in {"there", "gone"} /\ x.want_raw_frames \in BOOLEAN
         /\ x.out \in Seq(Frames \cup {"reply"})
BY DEF SessionType

LEMMA NewSessionType == NewSession \in SessionType
<1>1. <<>> \in Seq(Frames \cup {"reply"})
  BY EmptySeq
<1> QED
  BY <1>1 DEF NewSession, SessionType, Operation

LEMMA StartReadType ==
  ASSUME NEW x \in SessionType
  PROVE  /\ start_read(x) \in SessionType
         /\ start_read(x).read \in {"pending", "error"}
         /\ start_read(x).state = x.state /\ start_read(x).write = x.write
         /\ start_read(x).closing = x.closing /\ start_read(x).peer = x.peer
         /\ start_read(x).out = x.out
BY DEF start_read, Started, SessionType, Operation

LEMMA StartWriteType ==
  ASSUME NEW x \in SessionType
  PROVE  /\ start_write(x) \in SessionType
         /\ start_write(x).write \in
              IF x.out # <<>> /\ x.write = "none" THEN {"pending", "error"} ELSE {x.write}
         /\ start_write(x).state = x.state /\ start_write(x).read = x.read
         /\ start_write(x).closing = x.closing /\ start_write(x).peer = x.peer
         /\ start_write(x).out = x.out
BY DEF start_write, Started, SessionType, Operation

LEMMA CloseType ==
  ASSUME NEW x \in SessionType
  PROVE  /\ close(x) \in SessionType
         /\ close(x).read = Aborted(x.read) /\ close(x).write = Aborted(x.write)
         /\ close(x).state = x.state
         /\ close(x).closing = x.closing /\ close(x).peer = x.peer
         /\ close(x).out = x.out
BY DEF close, Aborted, SessionType, Operation

LEMMA DeletedType ==
  ASSUME NEW x \in SessionType
  PROVE  /\ Deleted(x) \in SessionType
         /\ Deleted(x).state = "deleted" /\ Deleted(x).out = <<>>
         /\ Deleted(x).read = x.read /\ Deleted(x).write = x.write
         /\ Deleted(x).closing = x.closing
<1>1. <<>> \in Seq(Frames \cup {"reply"})
  BY EmptySeq
<1> QED
  BY <1>1 DEF Deleted, SessionType, Operation

\* An error closes the session, and it is deleted when nothing is under way.
LEMMA OnErrorType ==
  ASSUME NEW x \in SessionType, x.state = "open"
  PROVE  /\ on_error(x) \in SessionType
         /\ on_error(x).closing
         /\ \/ /\ on_error(x).state = "deleted" /\ on_error(x).out = <<>>
               /\ on_error(x).read = "none" /\ on_error(x).write = "none"
            \/ /\ on_error(x).state = "open" /\ on_error(x).out = x.out
               /\ on_error(x).write \in {x.write, "error"}
<1> DEFINE c == [x EXCEPT !.closing = TRUE]
           y == IF x.closing THEN x ELSE close(c)
<1>1. /\ c \in SessionType /\ c.closing /\ c.state = "open" /\ c.out = x.out
      /\ c.write = x.write
  BY DEF SessionType
<1>2. /\ y \in SessionType /\ y.closing /\ y.state = "open" /\ y.out = x.out
      /\ y.write \in {x.write, "error"}
  <2>1. CASE x.closing
    BY <2>1
  <2>2. CASE ~x.closing
    <3>1. y = close(c)
      BY <2>2
    <3> HIDE DEF y, c
    <3> QED
      BY <1>1, <3>1, CloseType DEF Aborted
  <2> QED
    BY <2>1, <2>2
<1>3. on_error(x) = IF y.read = "none" /\ y.write = "none" THEN Deleted(y) ELSE y
  BY DEF on_error
<1> HIDE DEF y, c
<1> QED
  BY <1>2, <1>3, DeletedType

-----------------------------------------------------------------------------
LEMMA TypesOfInv ==
  ASSUME ExtInv, NEW s \in Sessions
  PROVE  /\ session \in [Sessions -> SessionType] /\ session[s] \in SessionType
         /\ SessionOK(s, session[s])
         /\ s \in clients => IsClient(session[s])
BY DEF ExtInv, TypeOK, SessionsOK, SessionType

(***************************************************************************)
(* A handler or the network changes one session and what is recorded of    *)
(* it: the invariant holds again when it holds of that session.            *)
(***************************************************************************)
LEMMA SessionStep ==
  ASSUME ExtInv, NEW s \in Sessions, NEW x \in SessionType,
         session' = [session EXCEPT ![s] = x],
         SessionOK(s, x), x.state # "accepting",
         clients' \in {clients, clients \cup {s}, clients \ {s}},
         s \in clients' => IsClient(x),
         UNCHANGED <<radio, output_queue, flushes>>,
         requests' \in 0..MaxRequests,
         due' \in [KissSessions -> Seq(Frames)],
         received' \in [KissSessions -> Seq(Frames)],
         \A t \in KissSessions \ {s} : due'[t] = due[t] /\ received'[t] = received[t],
         s \in KissSessions \cap clients' /\ x.peer = "there" =>
           received'[s] \o Unsent(x) = due'[s]
  PROVE  ExtInv'
<1>1. session \in [Sessions -> SessionType]
  BY TypesOfInv
<1>2. /\ session' \in [Sessions -> SessionType] /\ session'[s] = x
      /\ \A t \in Sessions \ {s} : session'[t] = session[t] /\ (t \in clients' <=> t \in clients)
  BY <1>1
<1>3. TypeOK'
  BY <1>2 DEF ExtInv, TypeOK, radio, SessionType
<1>4. FlushIsPosted'
  BY DEF ExtInv, FlushIsPosted, radio
<1>5. SessionsOK'
  <2> SUFFICES ASSUME NEW t \in Sessions
               PROVE  /\ SessionOK(t, session'[t])
                      /\ t \in clients' => IsClient(session'[t])
                      /\ t \in KissSessions /\ session'[t].state = "accepting" =>
                           due'[t] = <<>> /\ received'[t] = <<>>
    BY DEF SessionsOK, SessionOK, IsClient, NewSession
  <2>1. CASE t = s
    BY <1>2, <2>1
  <2>2. CASE t # s
    BY <1>2, <2>2 DEF ExtInv, SessionsOK
  <2> QED
    BY <2>1, <2>2
<1>6. EveryFrameOnce'
  <2> SUFFICES ASSUME NEW t \in KissSessions, t \in clients', session'[t].peer = "there"
               PROVE  received'[t] \o Unsent(session'[t]) = due'[t]
    BY DEF EveryFrameOnce, Unsent
  <2>1. CASE t = s
    BY <1>2, <2>1
  <2>2. CASE t # s
    BY <1>2, <2>2 DEF ExtInv, EveryFrameOnce, Sessions
  <2> QED
    BY <2>1, <2>2
<1> QED
  BY <1>3, <1>4, <1>5, <1>6 DEF ExtInv

\* The same when nothing is recorded and the session stays the client it is.
LEMMA QuietStep ==
  ASSUME ExtInv, NEW s \in Sessions, NEW x \in SessionType,
         session' = [session EXCEPT ![s] = x],
         session[s].state = "open", x.state \in {"open", "deleted"}, SessionOK(s, x),
         clients' \in {clients, clients \ {s}},
         s \in clients' => IsClient(x),
         s \in KissSessions \cap clients' =>
           x.peer = session[s].peer /\ Unsent(x) = Unsent(session[s]),
         UNCHANGED <<radio, output_queue, flushes, history>>,
         requests' \in 0..MaxRequests
  PROVE  ExtInv'
<1>1. /\ due' = due /\ received' = received
      /\ due \in [KissSessions -> Seq(Frames)] /\ received \in [KissSessions -> Seq(Frames)]
  BY DEF history, ExtInv, TypeOK
<1>2. ASSUME s \in KissSessions \cap clients', x.peer = "there"
      PROVE  received'[s] \o Unsent(x) = due'[s]
  <2>1. s \in KissSessions \cap clients /\ session[s].peer = "there"
    BY <1>2
  <2> QED
    BY <1>1, <1>2, <2>1 DEF ExtInv, EveryFrameOnce
<1> QED
  BY <1>1, <1>2, SessionStep

LEMMA ExtInitInv == Init => ExtInv
<1> SUFFICES ASSUME Init PROVE ExtInv
  OBVIOUS
<1>1. \A s \in Sessions : session[s] = NewSession
  BY DEF Init
<1>2. <<>> \in Seq(Frames) /\ \A s \in KissSessions : due[s] = <<>> /\ received[s] = <<>>
  BY EmptySeq DEF Init
<1>3. session \in [Sessions -> SessionType]
  BY NewSessionType DEF Init
<1>4. TypeOK
  <2>1. /\ due \in [KissSessions -> Seq(Frames)]
        /\ received \in [KissSessions -> Seq(Frames)]
    BY <1>2 DEF Init
  <2>2. heard \in 0..MaxHeard /\ requests \in 0..MaxRequests
    BY BoundsAssumption DEF Init
  <2> QED
    BY <1>2, <1>3, <2>1, <2>2 DEF Init, TypeOK, SessionType
<1>5. FlushIsPosted /\ EveryFrameOnce
  BY DEF Init, FlushIsPosted, EveryFrameOnce
<1>6. SessionsOK
  BY <1>1, <1>2 DEF Init, SessionsOK, SessionOK, NewSession
<1> QED
  BY <1>4, <1>5, <1>6 DEF ExtInv

\* Dispatch, Post: the recording thread.
LEMMA RadioStepInv == ExtInv /\ (Dispatch \/ Post) => ExtInv'
<1> SUFFICES ASSUME ExtInv, Dispatch \/ Post PROVE ExtInv'
  OBVIOUS
<1>1. UNCHANGED <<session, clients, requests, history>>
  BY DEF Dispatch, Post
<1>2. SessionsOK' /\ EveryFrameOnce'
  BY <1>1 DEF ExtInv, SessionsOK, EveryFrameOnce, history
<1>3. FlushIsPosted'
  BY DEF ExtInv, TypeOK, FlushIsPosted, Dispatch, Post
<1>4. TypeOK'
  <2>1. /\ last_packet_crc' \in Frames \cup {NoFrame} /\ unposted' \in BOOLEAN
        /\ output_queue' \in Seq(Frames) /\ flushes' \in Nat /\ heard' \in 0..MaxHeard
    <3>1. CASE Post
      <4>1. flushes' \in Nat
        BY <3>1 DEF ExtInv, TypeOK, Post
      <4>2. unposted' \in BOOLEAN
        BY <3>1 DEF Post
      <4> QED
        BY <3>1, <4>1, <4>2 DEF ExtInv, TypeOK, Post
    <3>2. CASE Dispatch
      <4>1. heard' \in 0..MaxHeard
        BY <3>2, BoundsAssumption DEF ExtInv, TypeOK, Dispatch
      <4>2. output_queue \in Seq(Frames) /\ flushes \in Nat
        BY DEF ExtInv, TypeOK
      <4>3. PICK f \in Frames :
              IF f = last_packet_crc
              THEN UNCHANGED <<last_packet_crc, output_queue, unposted>>
              ELSE /\ last_packet_crc' = f
                   /\ output_queue' = Append(output_queue, f)
                   /\ unposted' = TRUE
        BY <3>2 DEF Dispatch, Decoded
      <4>4. Append(output_queue, f) \in Seq(Frames)
        BY <4>2, AppendProperties
      <4> QED
        BY <3>2, <4>1, <4>2, <4>3, <4>4 DEF ExtInv, TypeOK, Dispatch
    <3> QED
      BY <3>1, <3>2
  <2> QED
    BY <1>1, <2>1 DEF ExtInv, TypeOK, history
<1> QED
  BY <1>2, <1>3, <1>4 DEF ExtInv

\* HandleAccept: a client that connects gets every frame from here on.
LEMMA AcceptInv ==
  ASSUME ExtInv, NEW s \in Sessions, HandleAccept(s)
  PROVE  ExtInv'
<1> DEFINE y == [session[s] EXCEPT !.state = "open"]
           x == start_read(y)
<1>1. /\ session[s] \in SessionType /\ session[s] = NewSession
      /\ s \in KissSessions => due[s] = <<>> /\ received[s] = <<>>
  BY TypesOfInv DEF HandleAccept, SessionOK, ExtInv, SessionsOK
<1>2. /\ y \in SessionType /\ y.state = "open" /\ y.write = "none" /\ y.out = <<>>
      /\ ~y.closing
  <2>1. /\ session[s].write = "none" /\ session[s].out = <<>> /\ ~session[s].closing
    BY <1>1 DEF NewSession
  <2>2. y \in SessionType /\ y.state = "open"
    BY <1>1 DEF SessionType
  <2>3. y.write = session[s].write /\ y.out = session[s].out /\ y.closing = session[s].closing
    BY <1>1 DEF SessionType
  <2> QED
    BY <2>1, <2>2, <2>3
<1>3. session' = [session EXCEPT ![s] = x] /\ clients' = clients \cup {s}
  BY DEF HandleAccept
<1>4. /\ requests' \in 0..MaxRequests /\ UNCHANGED <<radio, output_queue, flushes>>
      /\ due' = due /\ received' = received
      /\ due \in [KissSessions -> Seq(Frames)] /\ received \in [KissSessions -> Seq(Frames)]
  BY DEF HandleAccept, history, ExtInv, TypeOK
<1> HIDE DEF y
<1>5. /\ x \in SessionType /\ x.state = "open" /\ x.write = "none" /\ x.out = <<>>
      /\ ~x.closing /\ x.read \in {"pending", "error"}
  BY <1>2, StartReadType
<1> HIDE DEF x
<1>6. SessionOK(s, x) /\ IsClient(x)
  <2>1. <<>> \in Seq(Frames)
    BY EmptySeq
  <2> QED
    BY <1>5, <2>1 DEF SessionOK, IsClient
<1>7. s \in KissSessions => received'[s] \o Unsent(x) = due'[s]
  <2>1. <<>> \o <<>> = <<>>
    BY EmptySeq, ConcatEmptySeq
  <2> QED
    BY <1>1, <1>4, <1>5, <2>1 DEF Unsent
<1> QED
  BY <1>3, <1>4, <1>5, <1>6, <1>7, SessionStep

LEMMA ReadEndsInv ==
  ASSUME ExtInv, NEW s \in Sessions, ReadEnds(s)
  PROVE  ExtInv'
<1>1. /\ session[s] \in SessionType /\ SessionOK(s, session[s])
      /\ s \in clients => IsClient(session[s])
  BY TypesOfInv
<1>2. session[s].read = "pending" /\ session[s].state = "open"
  <2>1. session[s].read = "pending"
    BY DEF ReadEnds
  <2> QED
    BY <1>1, <2>1, SessionFields DEF SessionOK, NewSession
<1>3. PICK r \in {"data", "error"} : session' = [session EXCEPT ![s].read = r]
  BY DEF ReadEnds
<1> DEFINE x == [session[s] EXCEPT !.read = r]
<1>4. session' = [session EXCEPT ![s] = x]
  BY <1>3
<1>5. /\ x \in SessionType /\ x.state = "open" /\ x.read = r /\ x.write = session[s].write
      /\ x.closing = session[s].closing /\ x.out = session[s].out
      /\ x.peer = session[s].peer
  BY <1>1, <1>2 DEF SessionType, Operation
<1>6. /\ requests' \in 0..MaxRequests /\ UNCHANGED <<radio, output_queue, flushes, history>>
      /\ clients' = clients
  BY BoundsAssumption DEF ReadEnds, ExtInv, TypeOK
<1> HIDE DEF x
<1>7. SessionOK(s, x) /\ (s \in clients => IsClient(x))
  BY <1>1, <1>2, <1>5 DEF SessionOK, IsClient
<1>8. Unsent(x) = Unsent(session[s])
  BY <1>5 DEF Unsent
<1> QED
  BY <1>2, <1>4, <1>5, <1>6, <1>7, <1>8, QuietStep

\* WriteEnds: what is written is received when the client is there.
LEMMA WriteEndsInv ==
  ASSUME ExtInv, NEW s \in Sessions, WriteEnds(s)
  PROVE  ExtInv'
<1>1. /\ session[s] \in SessionType /\ SessionOK(s, session[s])
      /\ s \in clients => IsClient(session[s])
  BY TypesOfInv
<1>2. /\ session[s].write = "pending" /\ session[s].state = "open"
      /\ session[s].out # <<>> /\ session[s].out \in Seq(Frames \cup {"reply"})
  <2>1. session[s].write = "pending"
    BY DEF WriteEnds
  <2> QED
    BY <1>1, <2>1, SessionFields DEF SessionOK, NewSession
<1>3. PICK w \in {"ok", "error"} :
        /\ session' = [session EXCEPT ![s].write = w]
        /\ w = "error" => session[s].peer = "gone" /\ received' = received
        /\ w = "ok" =>
             received' = IF session[s].peer = "there" /\ s \in KissSessions
                         THEN [received EXCEPT ![s] = Append(@, Head(session[s].out))]
                         ELSE received
  BY DEF WriteEnds
<1> DEFINE x == [session[s] EXCEPT !.write = w]
<1>4. session' = [session EXCEPT ![s] = x]
  BY <1>3
<1>5. /\ x \in SessionType /\ x.state = "open" /\ x.write = w /\ x.read = session[s].read
      /\ x.closing = session[s].closing /\ x.out = session[s].out
      /\ x.peer = session[s].peer
  BY <1>1, <1>2 DEF SessionType, Operation
<1>6. /\ requests' \in 0..MaxRequests /\ UNCHANGED <<radio, output_queue, flushes>>
      /\ clients' = clients /\ due' = due
      /\ due \in [KissSessions -> Seq(Frames)] /\ received \in [KissSessions -> Seq(Frames)]
  BY DEF WriteEnds, ExtInv, TypeOK
<1> HIDE DEF x
<1>7. SessionOK(s, x) /\ (s \in clients => IsClient(x))
  BY <1>1, <1>2, <1>5 DEF SessionOK, IsClient
<1>8. ASSUME s \in KissSessions
      PROVE  /\ Head(x.out) \in Frames /\ Tail(x.out) \in Seq(Frames)
             /\ x.out = <<Head(x.out)>> \o Tail(x.out) /\ x.out \in Seq(Frames)
  <2>1. x.out \in Seq(Frames) /\ x.out # <<>>
    BY <1>1, <1>2, <1>5, <1>8 DEF SessionOK
  <2> QED
    BY <2>1, HeadAndTail
<1>9. /\ received' \in [KissSessions -> Seq(Frames)]
      /\ \A t \in KissSessions \ {s} : received'[t] = received[t]
  <2>1. s \in KissSessions => Append(received[s], Head(session[s].out)) \in Seq(Frames)
    BY <1>5, <1>6, <1>8, AppendProperties
  <2> QED
    BY <1>3, <1>6, <2>1
<1>10. ASSUME s \in KissSessions \cap clients', x.peer = "there"
       PROVE  received'[s] \o Unsent(x) = due'[s]
  <2> DEFINE r == received[s]
             h == Head(x.out)
             t == Tail(x.out)
  <2>1. r \in Seq(Frames) /\ h \in Frames /\ t \in Seq(Frames) /\ x.out = <<h>> \o t
    BY <1>6, <1>8, <1>10
  <2>2. w = "ok" /\ Unsent(x) = t /\ received'[s] = Append(r, h)
    BY <1>3, <1>5, <1>6, <1>10 DEF Unsent
  <2>3. r \o x.out = due[s]
    BY <1>2, <1>5, <1>6, <1>10 DEF ExtInv, EveryFrameOnce, Unsent
  <2> HIDE DEF r, h, t
  <2>4. Append(r, h) = r \o <<h>> /\ <<h>> \in Seq(Frames)
    BY <2>1, AppendIsConcat
  <2>5. (r \o <<h>>) \o t = r \o (<<h>> \o t)
    BY <2>1, <2>4, ConcatAssociative
  <2> QED
    BY <1>6, <2>1, <2>2, <2>3, <2>4, <2>5
<1> QED
  BY <1>4, <1>5, <1>6, <1>7, <1>9, <1>10, SessionStep

\* PeerLeaves: the client closes its connection.
LEMMA PeerLeavesInv ==
  ASSUME ExtInv, NEW s \in Sessions, PeerLeaves(s)
  PROVE  ExtInv'
<1>1. /\ session[s] \in SessionType /\ SessionOK(s, session[s])
      /\ s \in clients => IsClient(session[s])
  BY TypesOfInv
<1> DEFINE x == [session[s] EXCEPT !.peer = "gone"]
<1>2. session' = [session EXCEPT ![s] = x] /\ session[s].state = "open"
  BY DEF PeerLeaves
<1>3. /\ x \in SessionType /\ x.state = "open" /\ x.peer = "gone"
      /\ x.read = session[s].read /\ x.write = session[s].write
      /\ x.closing = session[s].closing /\ x.out = session[s].out
  BY <1>1, <1>2 DEF SessionType
<1>4. /\ requests' \in 0..MaxRequests /\ UNCHANGED <<radio, output_queue, flushes>>
      /\ clients' = clients
  BY DEF PeerLeaves, ExtInv, TypeOK
<1>5. /\ due' \in [KissSessions -> Seq(Frames)] /\ received' \in [KissSessions -> Seq(Frames)]
      /\ \A t \in KissSessions \ {s} : due'[t] = due[t] /\ received'[t] = received[t]
  <2>1. <<>> \in Seq(Frames)
    BY EmptySeq
  <2> QED
    BY <2>1 DEF PeerLeaves, history, ExtInv, TypeOK
<1> HIDE DEF x
<1>6. SessionOK(s, x) /\ (s \in clients => IsClient(x))
  BY <1>1, <1>2, <1>3 DEF SessionOK, IsClient
<1> QED
  BY <1>2, <1>3, <1>4, <1>5, <1>6, SessionStep

(***************************************************************************)
(* The handlers.  One that fails makes the session a client no more, and   *)
(* the object goes when the other operation has ended too.                 *)
(***************************************************************************)
LEMMA FailInv ==
  ASSUME ExtInv, NEW s \in Sessions, NEW x \in SessionType,
         session[s].state = "open", x.state = "open",
         s \in KissSessions => x.out \in Seq(Frames),
         x.write \in {"pending", "ok"} => x.out # <<>>,
         Fail(s, x), UNCHANGED <<radio, output_queue, flushes, requests, history>>
  PROVE  ExtInv'
<1> DEFINE e == on_error(x)
<1>1. session' = [session EXCEPT ![s] = e] /\ clients' = clients \ {s}
  BY DEF Fail
<1>2. /\ e \in SessionType /\ e.closing
      /\ \/ /\ e.state = "deleted" /\ e.out = <<>>
            /\ e.read = "none" /\ e.write = "none"
         \/ e.state = "open" /\ e.out = x.out /\ e.write \in {x.write, "error"}
  BY OnErrorType
<1>3. requests' \in 0..MaxRequests
  BY DEF ExtInv, TypeOK
<1> HIDE DEF e
<1>4. SessionOK(s, e)
  <2>1. <<>> \in Seq(Frames)
    BY EmptySeq
  <2> QED
    BY <1>2, <2>1 DEF SessionOK
<1> QED
  BY <1>1, <1>2, <1>3, <1>4, QuietStep

LEMMA HandleReadInv ==
  ASSUME ExtInv, NEW s \in Sessions, HandleRead(s)
  PROVE  ExtInv'
<1> DEFINE x == [session[s] EXCEPT !.read = "none"]
<1>1. /\ session[s] \in SessionType /\ SessionOK(s, session[s])
      /\ s \in clients => IsClient(session[s])
  BY TypesOfInv
<1>2. session[s].state = "open"
  <2>1. session[s].read \in {"error", "data"}
    BY DEF HandleRead
  <2> QED
    BY <1>1, <2>1, SessionFields DEF SessionOK, NewSession
<1>3. /\ x \in SessionType /\ x.state = "open" /\ x.write = session[s].write
      /\ x.closing = session[s].closing /\ x.out = session[s].out
      /\ x.peer = session[s].peer
  BY <1>1, <1>2 DEF SessionType, Operation
<1>4. UNCHANGED <<radio, output_queue, flushes, requests, history>>
      /\ requests' \in 0..MaxRequests
  BY DEF HandleRead, ExtInv, TypeOK
<1>5. \/ Fail(s, x)
      \/ /\ clients' = clients
         /\ \E y \in {x} \cup (IF s \in AgwpeSessions
                               THEN {[x EXCEPT !.want_raw_frames = ~@],
                                     write_raw(x, "reply"), close(x)}
                               ELSE {}) :
              session' = [session EXCEPT ![s] = start_read(y)]
  BY DEF HandleRead
<1> HIDE DEF x
<1>6. CASE Fail(s, x)
  <2>1. s \in KissSessions => x.out \in Seq(Frames)
    BY <1>1, <1>3 DEF SessionOK
  <2>2. x.write \in {"pending", "ok"} => x.out # <<>>
    BY <1>1, <1>3 DEF SessionOK
  <2> QED
    BY <1>2, <1>3, <1>4, <1>6, <2>1, <2>2, FailInv
<1>7. ASSUME clients' = clients, NEW y \in SessionType,
             y.state = "open", y.closing = x.closing, y.peer = x.peer,
             y.write \in {"pending", "ok"} => y.out # <<>>,
             ~y.closing /\ y.out # <<>> => y.write # "none",
             s \in KissSessions => y = x,
             session' = [session EXCEPT ![s] = start_read(y)]
      PROVE  ExtInv'
  <2> DEFINE z == start_read(y)
  <2>1. /\ z \in SessionType /\ z.read \in {"pending", "error"} /\ z.state = "open"
        /\ z.write = y.write /\ z.closing = y.closing /\ z.peer = y.peer /\ z.out = y.out
    BY <1>7, StartReadType
  <2>2. session' = [session EXCEPT ![s] = z]
    BY <1>7
  <2> HIDE DEF z
  <2>3. SessionOK(s, z)
    BY <1>1, <1>3, <1>7, <2>1 DEF SessionOK
  <2>4. s \in clients => IsClient(z)
    BY <1>1, <1>3, <1>7, <2>1 DEF IsClient
  <2>5. s \in KissSessions => z.peer = session[s].peer /\ Unsent(z) = Unsent(session[s])
    BY <1>3, <1>7, <2>1 DEF Unsent
  <2> QED
    BY <1>2, <1>4, <1>7, <2>1, <2>2, <2>3, <2>4, <2>5, QuietStep
<1>8. /\ x.write \in {"pending", "ok"} => x.out # <<>>
      /\ ~x.closing /\ x.out # <<>> => x.write # "none"
      /\ x.write \in Operation \cup {"ok"} /\ x.out \in Seq(Frames \cup {"reply"})
  BY <1>1, <1>2, <1>3, SessionFields DEF SessionOK
<1>9. CASE clients' = clients /\ session' = [session EXCEPT ![s] = start_read(x)]
  BY <1>3, <1>7, <1>8, <1>9
<1>10. ASSUME clients' = clients, s \in AgwpeSessions,
              NEW y \in {[x EXCEPT !.want_raw_frames = ~@], write_raw(x, "reply"), close(x)},
              session' = [session EXCEPT ![s] = start_read(y)]
       PROVE  ExtInv'
  <2>1. s \notin KissSessions
    BY <1>10, SessionsAssumption
  <2>2. CASE y = [x EXCEPT !.want_raw_frames = ~@]
    <3>1. /\ y \in SessionType /\ y.state = x.state /\ y.closing = x.closing
          /\ y.peer = x.peer /\ y.write = x.write /\ y.out = x.out
      BY <1>3, <2>2 DEF SessionType
    <3> QED
      BY <1>3, <1>7, <1>8, <1>10, <2>1, <3>1
  <2>3. CASE y = write_raw(x, "reply")
    <3> DEFINE w == [x EXCEPT !.out = Append(@, "reply")]
    <3>1. Append(x.out, "reply") \in Seq(Frames \cup {"reply"}) /\ Append(x.out, "reply") # <<>>
      <4>1. "reply" \in Frames \cup {"reply"}
        OBVIOUS
      <4> QED
        BY <1>8, <4>1, AppendProperties
    <3>2. /\ w \in SessionType /\ w.state = x.state /\ w.closing = x.closing
          /\ w.peer = x.peer /\ w.write = x.write /\ w.out # <<>>
      BY <1>3, <3>1 DEF SessionType
    <3>3. y = start_write(w)
      BY <2>3 DEF write_raw
    <3> HIDE DEF w
    <3>4. /\ y \in SessionType /\ y.state = x.state /\ y.closing = x.closing
          /\ y.peer = x.peer /\ y.out # <<>> /\ y.write # "none"
      BY <3>2, <3>3, StartWriteType
    <3> QED
      BY <1>3, <1>7, <1>10, <2>1, <3>4
  <2>4. CASE y = close(x)
    <3>1. /\ y \in SessionType /\ y.state = x.state /\ y.closing = x.closing
          /\ y.peer = x.peer /\ y.write = Aborted(x.write) /\ y.out = x.out
      BY <1>3, <2>4, CloseType
    <3> QED
      BY <1>3, <1>7, <1>8, <1>10, <2>1, <3>1 DEF Aborted
  <2> QED
    BY <1>10, <2>2, <2>3, <2>4
<1> QED
  BY <1>5, <1>6, <1>9, <1>10

LEMMA HandleWriteInv ==
  ASSUME ExtInv, NEW s \in Sessions, HandleWrite(s)
  PROVE  ExtInv'
<1> DEFINE x == [session[s] EXCEPT !.write = "none"]
<1>1. /\ session[s] \in SessionType /\ SessionOK(s, session[s])
      /\ s \in clients => IsClient(session[s])
  BY TypesOfInv
<1>2. session[s].state = "open"
  <2>1. session[s].write \in {"error", "ok"}
    BY DEF HandleWrite
  <2> QED
    BY <1>1, <2>1, SessionFields DEF SessionOK, NewSession
<1>3. /\ x \in SessionType /\ x.state = "open" /\ x.write = "none"
      /\ x.read = session[s].read /\ x.closing = session[s].closing
      /\ x.out = session[s].out /\ x.peer = session[s].peer
  BY <1>1, <1>2 DEF SessionType, Operation
<1>4. UNCHANGED <<radio, output_queue, flushes, requests, history>>
      /\ requests' \in 0..MaxRequests
  BY DEF HandleWrite, ExtInv, TypeOK
<1>5. CASE Fail(s, x)
  <2>1. s \in KissSessions => x.out \in Seq(Frames)
    BY <1>1, <1>3 DEF SessionOK
  <2> QED
    BY <1>2, <1>3, <1>4, <1>5, <2>1, FailInv
<1>6. ASSUME session[s].write = "ok", clients' = clients,
             session' = [session EXCEPT ![s] = start_write([x EXCEPT !.out = Tail(@)])]
      PROVE  ExtInv'
  <2> DEFINE y == [x EXCEPT !.out = Tail(@)]
             z == start_write(y)
  <2>1. /\ Tail(x.out) \in Seq(Frames \cup {"reply"})
        /\ s \in KissSessions => Tail(x.out) \in Seq(Frames)
    <3>1. x.out # <<>> /\ x.out \in Seq(Frames \cup {"reply"})
          /\ (s \in KissSessions => x.out \in Seq(Frames))
      BY <1>1, <1>3, <1>6, SessionFields DEF SessionOK
    <3> QED
      BY <3>1, HeadAndTail
  <2>2. /\ y \in SessionType /\ y.state = "open" /\ y.write = "none"
        /\ y.read = x.read /\ y.closing = x.closing /\ y.peer = x.peer
        /\ y.out = Tail(x.out)
    BY <1>3, <2>1 DEF SessionType
  <2>3. session' = [session EXCEPT ![s] = z]
    BY <1>6
  <2> HIDE DEF y
  <2>4. /\ z \in SessionType /\ z.state = "open"
        /\ z.write \in IF y.out # <<>> THEN {"pending", "error"} ELSE {"none"}
        /\ z.read = x.read /\ z.closing = x.closing /\ z.peer = x.peer
        /\ z.out = Tail(x.out)
    BY <2>2, StartWriteType
  <2> HIDE DEF z
  <2>5. SessionOK(s, z)
    BY <2>1, <2>2, <2>4 DEF SessionOK
  <2>6. s \in clients => IsClient(z)
    BY <1>1, <1>3, <2>4 DEF IsClient
  <2>7. z.peer = session[s].peer /\ Unsent(z) = Unsent(session[s])
    <3>1. z.write # "ok"
      BY <2>4
    <3> QED
      BY <1>3, <1>6, <2>4, <3>1 DEF Unsent
  <2> QED
    BY <1>2, <1>4, <1>6, <2>3, <2>4, <2>5, <2>6, <2>7, QuietStep
<1> QED
  BY <1>5, <1>6 DEF HandleWrite

\* write_to_all(): the frames of the queue come after what the session has.
LEMMA WriteAllIs ==
  ASSUME NEW s \in Sessions, NEW x \in SessionType, NEW q \in Seq(Frames),
         SessionOK(s, x), s \in clients => IsClient(x)
  PROVE  /\ WriteAll(s, x, q) \in SessionType
         /\ SessionOK(s, WriteAll(s, x, q))
         /\ s \notin clients => WriteAll(s, x, q) = x
         /\ s \in clients => IsClient(WriteAll(s, x, q))
         /\ WriteAll(s, x, q).peer = x.peer
         /\ s \in KissSessions \cap clients => Unsent(WriteAll(s, x, q)) = Unsent(x) \o q
<1>1. CASE ~(s \in clients /\ RawWanted(s, x) /\ q # <<>>)
  <2>1. WriteAll(s, x, q) = x
    BY <1>1 DEF WriteAll
  <2>2. ASSUME s \in KissSessions \cap clients
        PROVE  Unsent(x) = Unsent(x) \o q
    <3>1. q = <<>>
      BY <1>1, <2>2 DEF RawWanted
    <3>2. x.out \in Seq(Frames)
      BY <2>2 DEF SessionOK
    <3>3. Unsent(x) \in Seq(Frames)
      BY <3>2, HeadAndTail DEF Unsent, SessionOK
    <3> QED
      BY <3>1, <3>3, ConcatEmptySeq
  <2> QED
    BY <2>1, <2>2
<1>2. CASE s \in clients /\ RawWanted(s, x) /\ q # <<>>
  <2> DEFINE o == x.out \o q
             y == [x EXCEPT !.out = @ \o q]
             z == start_write(y)
  <2>1. WriteAll(s, x, q) = z
    BY <1>2 DEF WriteAll
  <2>2. x.out \in Seq(Frames \cup {"reply"}) /\ q \in Seq(Frames \cup {"reply"})
    BY SessionFields, SeqMonotonic
  <2>3. /\ o \in Seq(Frames \cup {"reply"}) /\ o # <<>>
        /\ s \in KissSessions => o \in Seq(Frames)
    <3>1. o \in Seq(Frames \cup {"reply"})
      BY <2>2, ConcatProperties
    <3>2. o # <<>>
      BY <1>2, <2>2, ConcatEqualIffEmpty
    <3>3. s \in KissSessions => o \in Seq(Frames)
      BY ConcatProperties DEF SessionOK
    <3> QED
      BY <3>1, <3>2, <3>3
  <2>4. /\ y \in SessionType /\ y.out = o /\ y.write = x.write /\ y.read = x.read
        /\ y.state = x.state /\ y.closing = x.closing /\ y.peer = x.peer
    BY <2>3 DEF SessionType
  <2> HIDE DEF y
  <2>5. /\ z \in SessionType /\ z.out = o /\ z.read = x.read
        /\ z.write \in IF x.write = "none" THEN {"pending", "error"} ELSE {x.write}
        /\ z.state = x.state /\ z.closing = x.closing /\ z.peer = x.peer
    BY <2>3, <2>4, StartWriteType
  <2> HIDE DEF z, o
  <2>6. SessionOK(s, z) /\ IsClient(z)
    BY <1>2, <2>3, <2>5 DEF SessionOK, IsClient
  <2>7. ASSUME s \in KissSessions
        PROVE  Unsent(z) = Unsent(x) \o q
    <3>1. x.out \in Seq(Frames)
      BY <2>7 DEF SessionOK
    <3>2. CASE x.write = "ok"
      <4>1. x.out # <<>>
        BY <3>2 DEF SessionOK
      <4>2. Tail(x.out \o q) = Tail(x.out) \o q
        BY <3>1, <4>1, TailOfConcat
      <4> QED
        BY <2>5, <3>2, <4>2 DEF Unsent, o
    <3>3. CASE x.write # "ok"
      BY <2>5, <3>3 DEF Unsent, o
    <3> QED
      BY <3>2, <3>3
  <2> QED
    BY <1>2, <2>1, <2>5, <2>6, <2>7
<1> QED
  BY <1>1, <1>2

LEMMA FlushInv == ExtInv /\ Flush => ExtInv'
<1> SUFFICES ASSUME ExtInv, Flush PROVE ExtInv'
  OBVIOUS
<1>1. /\ output_queue \in Seq(Frames) /\ flushes \in Nat \ {0}
      /\ due \in [KissSessions -> Seq(Frames)] /\ received \in [KissSessions -> Seq(Frames)]
  BY DEF ExtInv, TypeOK, Flush
<1>2. /\ output_queue' = <<>> /\ flushes' = flushes - 1
      /\ session' = [s \in Sessions |-> WriteAll(s, session[s], output_queue)]
      /\ UNCHANGED <<radio, clients, requests, received>>
      /\ \A s \in KissSessions :
           due'[s] = IF s \in clients /\ session[s].peer = "there"
                     THEN due[s] \o output_queue ELSE due[s]
  BY DEF Flush
<1>3. \A s \in Sessions :
        /\ session'[s] \in SessionType /\ SessionOK(s, session'[s])
        /\ s \notin clients => session'[s] = session[s]
        /\ s \in clients => IsClient(session'[s])
        /\ session'[s].peer = session[s].peer
        /\ s \in KissSessions \cap clients =>
             Unsent(session'[s]) = Unsent(session[s]) \o output_queue
  BY <1>1, <1>2, TypesOfInv, WriteAllIs
<1>4. TypeOK'
  <2>1. session' \in [Sessions -> SessionType]
    BY <1>2, <1>3
  <2>2. \A s \in KissSessions : due[s] \o output_queue \in Seq(Frames)
    BY <1>1, ConcatProperties
  <2>3. due' \in [KissSessions -> Seq(Frames)]
    BY <1>1, <2>2 DEF Flush
  <2>4. <<>> \in Seq(Frames) /\ flushes - 1 \in Nat
    BY <1>1, EmptySeq
  <2> QED
    BY <1>2, <2>1, <2>3, <2>4 DEF ExtInv, TypeOK, SessionType, radio
<1>5. FlushIsPosted'
  BY <1>2 DEF FlushIsPosted
<1>6. SessionsOK'
  <2> SUFFICES ASSUME NEW s \in Sessions
               PROVE  /\ SessionOK(s, session'[s])
                      /\ s \in clients => IsClient(session'[s])
                      /\ s \in KissSessions /\ session'[s].state = "accepting" =>
                           due'[s] = <<>> /\ received'[s] = <<>>
    BY <1>2 DEF SessionsOK, SessionOK, IsClient, NewSession
  <2>1. CASE s \in clients
    BY <1>3, <2>1 DEF IsClient
  <2>2. CASE s \notin clients
    BY <1>2, <1>3, <2>2 DEF ExtInv, SessionsOK
  <2> QED
    BY <2>1, <2>2
<1>7. EveryFrameOnce'
  <2> SUFFICES ASSUME NEW s \in KissSessions, s \in clients, session[s].peer = "there"
               PROVE  received[s] \o Unsent(session'[s]) = due[s] \o output_queue
    BY <1>2, <1>3 DEF EveryFrameOnce, Unsent, Sessions
  <2> DEFINE u == Unsent(session[s])
  <2>1. Unsent(session'[s]) = u \o output_queue
    BY <1>3 DEF Sessions
  <2>2. received[s] \o u = due[s]
    BY DEF ExtInv, EveryFrameOnce
  <2>3. u \in Seq(Frames)
    <3>1. SessionOK(s, session[s])
      BY TypesOfInv DEF Sessions
    <3>2. session[s].out \in Seq(Frames)
      BY <3>1 DEF SessionOK
    <3> QED
      BY <3>1, <3>2, HeadAndTail DEF Unsent, SessionOK
  <2> HIDE DEF u
  <2>4. (received[s] \o u) \o output_queue = received[s] \o (u \o output_queue)
    <3>1. received[s] \in Seq(Frames)
      BY <1>1
    <3> QED
      BY <1>1, <2>3, <3>1, ConcatAssociative
  <2> QED
    BY <2>1, <2>2, <2>4
<1> QED
  BY <1>4, <1>5, <1>6, <1>7 DEF ExtInv

-----------------------------------------------------------------------------
LEMMA ExtStepInv == ExtInv /\ [Next]_vars => ExtInv'
<1> SUFFICES ASSUME ExtInv, [Next]_vars PROVE ExtInv'
  OBVIOUS
<1>1. CASE Dispatch \/ Post
  BY <1>1, RadioStepInv
<1>2. CASE Flush
  BY <1>2, FlushInv
<1>3. ASSUME NEW s \in Sessions, Handlers(s)
      PROVE  ExtInv'
  BY <1>3, HandleReadInv, HandleWriteInv DEF Handlers
<1>4. ASSUME NEW s \in Sessions, Network(s)
      PROVE  ExtInv'
  BY <1>4, AcceptInv, ReadEndsInv, WriteEndsInv, PeerLeavesInv DEF Network
<1>5. CASE UNCHANGED vars
  <2>1. UNCHANGED <<last_packet_crc, unposted, heard, output_queue, flushes, session, clients,
                    requests, due, received>>
    BY <1>5 DEF vars, radio, history
  <2> QED
    BY <2>1 DEF ExtInv, TypeOK, FlushIsPosted, SessionsOK, EveryFrameOnce, SessionOK,
                IsClient, Unsent, NewSession
<1> QED
  BY <1>1, <1>2, <1>3, <1>4, <1>5 DEF Next

(***************************************************************************)
(* The sessions and their operations, the two queues and what is recorded  *)
(* of them are always as ExtInv says.                                      *)
(***************************************************************************)
THEOREM ExtCorrect == Spec => []ExtInv
<1>1. Init => ExtInv
  BY ExtInitInv
<1>2. ExtInv /\ [Next]_vars => ExtInv'
  BY ExtStepInv
<1> QED
  BY <1>1, <1>2, PTL DEF Spec

(***************************************************************************)
(* on_error() deletes a session when its last operation has ended and no   *)
(* sooner, and a session that is still a client has a read under way that  *)
(* will find out when the peer is gone.                                    *)
(***************************************************************************)
THEOREM ClientsCorrect == Spec => []ClientsAreHandled
<1>1. ExtInv => ClientsAreHandled
  <2> SUFFICES ASSUME ExtInv PROVE ClientsAreHandled
    OBVIOUS
  <2>1. \A s \in Sessions : SessionOK(s, session[s]) /\ (s \in clients => IsClient(session[s]))
    BY DEF ExtInv, SessionsOK
  <2>2. TypeOK /\ clients \subseteq Sessions
    BY DEF ExtInv, TypeOK
  <2> QED
    BY <2>1, <2>2 DEF ClientsAreHandled, NoUseAfterDelete, SessionOK, IsClient
<1> QED
  BY <1>1, ExtCorrect, PTL

(***************************************************************************)
(* What a KISS client has received, and what write_to_all() has queued for *)
(* it, is what was flushed since it came: nothing twice, nothing lost,     *)
(* nothing out of order.                                                   *)
(***************************************************************************)
THEOREM FramesCorrect == Spec => []EveryFrameOnce
<1>1. ExtInv => EveryFrameOnce
  BY DEF ExtInv
<1> QED
  BY <1>1, ExtCorrect, PTL

(***************************************************************************)
(* No frame waits with nobody to write it: a queue that is not empty has a *)
(* flush posted, or about to be, or a write under way.                     *)
(***************************************************************************)
THEOREM QueuesCorrect == Spec => []NothingIsStranded
<1>1. ExtInv => NothingIsStranded
  BY DEF ExtInv, SessionsOK, SessionOK, NothingIsStranded
<1> QED
  BY <1>1, ExtCorrect, PTL
=============================================================================
