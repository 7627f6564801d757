-------------------------- MODULE WlibSocketProofs --------------------------
(***************************************************************************)
(* Proofs about module WlibSocket: replies are paired with calls, events   *)
(* arrive only for windows that exist, the ring of events is a bounded     *)
(* queue, and _wremove_events() is exact as long as the count agrees with  *)
(* the indices, for rings, buffers and sockets of any size.                *)
(***************************************************************************)
EXTENDS WlibSocket, SequenceTheorems, FiniteSetTheorems, WellFoundedInduction, TLAPS

-----------------------------------------------------------------------------
(* The packets.                                                            *)

\* A packet for the client is an event for a window or the reply to a call.
LEMMA PacketKinds ==
  ASSUME NEW p \in Packet
  PROVE  \/ p \in Events /\ p.kind = "event" /\ p.win \in Window
         \/ p.kind = "reply" /\ p.to \in Call /\ p = Reply(p.to)
BY DEF Packet, Events, Reply

\* The calls: none is a drawing request, and only a deletion has a window.
LEMMA CallKinds ==
  ASSUME NEW c \in Call
  PROVE  /\ c # Draw /\ Reply(c) \in Packet
         /\ Reply(c).kind = "reply" /\ Reply(c).to = c
         /\ \/ c.kind = "query" /\ c.win = NoWin
            \/ c.kind = "delete" /\ c.win \in Window
BY DEF Call, Query, Delete, Draw, Packet, Reply

\* An event of the user.
LEMMA EventKind ==
  ASSUME NEW w \in Window, NEW n \in 1 .. MaxInput
  PROVE  LET e == [kind |-> "event", win |-> w, n |-> n]
         IN  e \in Packet /\ e.kind = "event" /\ e.win = w
BY DEF Packet, Events

-----------------------------------------------------------------------------
(* The two directions of the connection.                                   *)

Typed ==
  /\ out \in Seq(Call \union {Draw}) /\ toServer \in Seq(Call \union {Draw})
  /\ ibuf \in Seq(Packet) /\ toClient \in Seq(Packet) /\ writing \in Seq(Packet)
  /\ Len(writing) <= 1
  /\ wins \subseteq Window /\ srvwins \subseteq Window
  /\ call \in Call /\ inputs \in 0 .. MaxInput

\* A packet that moves from the head of one queue to the end of the one before it
\* does not move in both together.
LEMMA MoveHead ==
  ASSUME NEW S, NEW a \in Seq(S), NEW b \in Seq(S), b # <<>>
  PROVE  /\ Append(a, Head(b)) \in Seq(S) /\ Tail(b) \in Seq(S)
         /\ Append(a, Head(b)) \o Tail(b) = a \o b
<1>1. Head(b) \in S /\ Tail(b) \in Seq(S)
  BY HeadTailProperties
<1>2. Append(a, Head(b)) = a \o <<Head(b)>>
  BY <1>1, AppendIsConcat
<1>3. <<Head(b)>> \in Seq(S)
  BY <1>1
<1>4. <<Head(b)>> \o Tail(b) = b
  BY <1>1
<1> QED
  BY <1>1, <1>2, <1>3, <1>4, ConcatAssociative, AppendProperties

\* A queue is what is before a place in it and what is after it.
LEMMA Halves ==
  ASSUME NEW S, NEW b \in Seq(S), NEW k \in 1 .. Len(b)
  PROVE  \A x, y : x = SubSeq(b, 1, k) /\ y = SubSeq(b, k + 1, Len(b))
                      => x \in Seq(S) /\ y \in Seq(S) /\ x \o y = b
<1> SUFFICES ASSUME NEW x, x = SubSeq(b, 1, k), NEW y, y = SubSeq(b, k + 1, Len(b))
             PROVE  x \in Seq(S) /\ y \in Seq(S) /\ x \o y = b
  OBVIOUS
<1>1. x \in Seq(S) /\ y \in Seq(S)
  BY LenProperties, SubSeqProperties
<1>2. x \o y = b
  <2>1. Len(x) = k /\ Len(y) = Len(b) - k /\ Len(b) \in Nat
    BY LenProperties, SubSeqProperties
  <2>2. \A i \in 1 .. k : x[i] = b[i]
    BY LenProperties
  <2>3. \A i \in 1 .. Len(b) - k : y[i] = b[k + i]
    BY LenProperties
  <2>4. x \o y \in Seq(S) /\ Len(x \o y) = Len(b)
    BY <1>1, <2>1, ConcatProperties
  <2>5. \A i \in 1 .. Len(b) : (x \o y)[i] = b[i]
    BY <1>1, <2>1, <2>2, <2>3, ConcatProperties
  <2> QED
    BY <2>4, <2>5, SeqEqual
<1> QED
  BY <1>1, <1>2

\* Putting something at the end of the second queue, and taking the head of the first.
LEMMA AppendSecond ==
  ASSUME NEW S, NEW a \in Seq(S), NEW b \in Seq(S), NEW e \in S
  PROVE  a \o Append(b, e) = Append(a \o b, e)
<1>1. Append(b, e) = b \o <<e>> /\ Append(a \o b, e) = (a \o b) \o <<e>>
  BY ConcatProperties, AppendIsConcat
<1> QED
  BY <1>1, ConcatAssociative

LEMMA TailFirst ==
  ASSUME NEW S, NEW a \in Seq(S), NEW b \in Seq(S), a # <<>>
  PROVE  /\ a \o b # <<>> /\ Head(a \o b) = Head(a)
         /\ Tail(a \o b) = Tail(a) \o b
<1>1. a \o b \in Seq(S) /\ Len(a \o b) = Len(a) + Len(b) /\ Len(a) > 0
  BY ConcatProperties, LenProperties, EmptySeq
<1>2. a \o b # <<>> /\ Head(a \o b) = Head(a)
  BY <1>1, ConcatProperties, LenProperties
<1>3. Tail(a) \in Seq(S) /\ Tail(a \o b) \in Seq(S) /\ Tail(a) \o b \in Seq(S)
  BY <1>1, <1>2, HeadTailProperties, ConcatProperties
<1>4. Len(Tail(a \o b)) = Len(Tail(a) \o b)
  BY <1>1, <1>2, <1>3, HeadTailProperties, ConcatProperties, LenProperties
<1>5. \A i \in 1 .. Len(Tail(a \o b)) : Tail(a \o b)[i] = (Tail(a) \o b)[i]
  BY <1>1, <1>2, <1>3, HeadTailProperties, ConcatProperties, LenProperties
<1> QED
  BY <1>2, <1>3, <1>4, <1>5, SeqEqual

\* What a longer sequence holds, and one without its head.
LEMMA Longer ==
  ASSUME NEW S, NEW s \in Seq(S), NEW e \in S
  PROVE  /\ Append(s, e) \in Seq(S)
         /\ DOMAIN s = 1 .. Len(s) /\ DOMAIN Append(s, e) = 1 .. Len(s) + 1 /\ Len(s) \in Nat
         /\ Append(s, e)[Len(s) + 1] = e
         /\ \A k \in DOMAIN s : Append(s, e)[k] = s[k] /\ s[k] \in S
BY AppendProperties, LenProperties

LEMMA Shorter ==
  ASSUME NEW S, NEW s \in Seq(S), s # <<>>
  PROVE  /\ Tail(s) \in Seq(S) /\ Head(s) = s[1]
         /\ DOMAIN s = 1 .. Len(s) /\ DOMAIN Tail(s) = 1 .. Len(s) - 1 /\ Len(s) \in Nat \ {0}
         /\ \A k \in DOMAIN Tail(s) : Tail(s)[k] = s[k + 1]
         /\ \A k \in DOMAIN s : s[k] \in S
BY HeadTailProperties, LenProperties, EmptySeq

-----------------------------------------------------------------------------
(* The invariant.                                                          *)

\* The reply to a deletion comes after the events of the window, and w_delete() is
\* called for windows that exist.
DeletedLast ==
  /\ \A k \in DOMAIN Stream : Stream[k].kind = "reply" =>
       /\ Stream[k].to.win \notin srvwins
       /\ \A j \in DOMAIN Stream : k < j /\ Stream[j].kind = "event" =>
            Stream[j].win # Stream[k].to.win
  /\ Awaiting /\ call.kind = "delete" => call.win \in wins

Inv == Typed /\ RepliesPaired /\ EventsKnown /\ DeletedLast

\* Both directions hold packets.
LEMMA Directions ==
  ASSUME Typed
  PROVE  Requests \in Seq(Call \union {Draw}) /\ Stream \in Seq(Packet)
BY ConcatProperties DEF Typed, Requests, Stream

\* Steps that neither send nor take a packet, nor change the windows or the call.
LEMMA Unmoved ==
  ASSUME Inv, Typed', UNCHANGED <<wins, srvwins, call>>, pc' # "aborted",
         Requests' = Requests, Stream' = Stream, Awaiting' = Awaiting
  PROVE  Inv'
BY DEF Inv, RepliesPaired, EventsKnown, DeletedLast

\* Calls and drawing requests.
LEMMA Calling ==
  ASSUME Inv, Typed', UNCHANGED <<wins, srvwins>>, pc' # "aborted", ~Awaiting,
         NEW c \in Call \union {Draw}, Requests' = Append(Requests, c), Stream' = Stream,
         IF c = Draw THEN ~Awaiting' ELSE Awaiting' /\ call' = c,
         c # Draw /\ c.kind = "delete" => c.win \in wins
  PROVE  Inv'
<1>1. Requests \in Seq(Call \union {Draw}) /\ Stream \in Seq(Packet)
  BY Directions DEF Inv
<1>2. /\ \A k \in DOMAIN Requests : Requests[k] = Draw
      /\ \A k \in DOMAIN Stream : Stream[k].kind # "reply"
  BY DEF Inv, RepliesPaired
<1>3. RepliesPaired'
  BY <1>1, <1>2, Longer DEF RepliesPaired
<1> QED
  BY <1>2, <1>3 DEF Inv, EventsKnown, DeletedLast

\* The server sends an event for one of its windows, or nothing.
LEMMA Happening ==
  ASSUME Inv, Typed', UNCHANGED <<wins, srvwins, call, pc, goal>>, Requests' = Requests,
         NEW e \in Packet, e.kind = "event", e.win \in srvwins, Stream' = Append(Stream, e)
  PROVE  Inv'
<1>1. Stream \in Seq(Packet)
  BY Directions DEF Inv
<1>2. /\ DOMAIN Stream' = DOMAIN Stream \union {Len(Stream) + 1} /\ Len(Stream) + 1 \notin DOMAIN Stream
      /\ Stream'[Len(Stream) + 1] = e /\ \A k \in DOMAIN Stream : Stream'[k] = Stream[k] /\ k \in Nat
      /\ Len(Stream) \in Nat
  BY <1>1, Longer
<1>3. {k \in DOMAIN Stream' : Stream'[k].kind = "reply"} = {k \in DOMAIN Stream : Stream[k].kind = "reply"}
  BY <1>2
<1>4. RepliesPaired'
  BY <1>2, <1>3 DEF Inv, RepliesPaired, Awaiting
<1>5. EventsKnown'
  BY <1>2 DEF Inv, EventsKnown
<1>6. DeletedLast'
  BY <1>2 DEF Inv, DeletedLast, Awaiting
<1> QED
  BY <1>4, <1>5, <1>6 DEF Inv

\* The server works off a drawing request.
LEMMA Drawing ==
  ASSUME Inv, Typed', UNCHANGED <<wins, srvwins, call, pc, goal>>, Stream' = Stream,
         Requests # <<>>, Head(Requests) = Draw, Requests' = Tail(Requests)
  PROVE  Inv'
<1>1. Requests \in Seq(Call \union {Draw})
  BY Directions DEF Inv
<1> DEFINE n == Len(Requests)
<1>2. /\ n \in Nat \ {0} /\ DOMAIN Requests = 1 .. n /\ DOMAIN Requests' = 1 .. n - 1
      /\ Requests[1] = Draw /\ \A k \in 1 .. n - 1 : Requests'[k] = Requests[k + 1]
  BY <1>1, Shorter
<1> HIDE DEF n
<1>3. CASE \A k \in DOMAIN Requests : Requests[k] = Draw
  <2>1. \A k \in DOMAIN Requests' : Requests'[k] = Draw
    BY <1>2, <1>3
  <2> QED
    BY <1>3, <2>1 DEF Inv, RepliesPaired, EventsKnown, DeletedLast, Awaiting
<1>4. ASSUME NEW k \in DOMAIN Requests, Requests[k] # Draw
      PROVE  Inv'
  <2>1. /\ Awaiting /\ Requests[k] = call /\ \A j \in DOMAIN Requests : Requests[j] # Draw => j = k
        /\ \A j \in DOMAIN Stream : Stream[j].kind # "reply"
    BY <1>4 DEF Inv, RepliesPaired
  <2>2. k - 1 \in DOMAIN Requests' /\ Requests'[k - 1] = call
    BY <1>2, <1>4, <2>1
  <2>3. \A j \in DOMAIN Requests' : Requests'[j] # Draw <=> j = k - 1
    BY <1>2, <1>4, <2>1, <2>2
  <2>4. {j \in DOMAIN Requests' : Requests'[j] # Draw} = {k - 1}
    BY <2>2, <2>3
  <2>5. RepliesPaired'
    BY <2>1, <2>2, <2>4 DEF Inv, RepliesPaired, Awaiting
  <2> QED
    BY <2>5 DEF Inv, EventsKnown, DeletedLast, Awaiting
<1> QED
  BY <1>3, <1>4

\* The server answers a call and, if it is a deletion, loses the window.
LEMMA Answering ==
  ASSUME Inv, Typed', UNCHANGED <<wins, call, pc, goal>>,
         Requests # <<>>, Head(Requests) \in Call, Requests' = Tail(Requests),
         Stream' = Append(Stream, Reply(Head(Requests))),
         srvwins' = srvwins \ {Head(Requests).win}
  PROVE  Inv'
<1>1. Requests \in Seq(Call \union {Draw}) /\ Stream \in Seq(Packet)
  BY Directions DEF Inv
<1> DEFINE n == Len(Requests)  m == Len(Stream)
<1>2. /\ n \in Nat \ {0} /\ DOMAIN Requests = 1 .. n /\ DOMAIN Requests' = 1 .. n - 1
      /\ Requests[1] = Head(Requests) /\ \A k \in 1 .. n - 1 : Requests'[k] = Requests[k + 1]
  BY <1>1, Shorter
<1>3. Reply(Head(Requests)) \in Packet /\ Head(Requests) # Draw
      /\ Reply(Head(Requests)).kind = "reply" /\ Reply(Head(Requests)).to = Head(Requests)
  BY CallKinds
<1>4. /\ m \in Nat /\ DOMAIN Stream = 1 .. m /\ DOMAIN Stream' = 1 .. m + 1
      /\ \A k \in 1 .. m : Stream'[k] = Stream[k]
      /\ Stream'[m + 1].kind = "reply" /\ Stream'[m + 1].to = Head(Requests)
  BY <1>1, <1>3, Longer
<1> HIDE DEF n, m
<1>5. /\ Awaiting /\ Requests[1] = call /\ \A j \in 1 .. n : Requests[j] # Draw => j = 1
      /\ \A j \in 1 .. m : Stream[j].kind # "reply"
  <2>1. 1 \in DOMAIN Requests /\ Requests[1] # Draw
    BY <1>2, <1>3
  <2> QED
    BY <1>2, <1>4, <2>1 DEF Inv, RepliesPaired
<1>6. {k \in DOMAIN Requests' : Requests'[k] # Draw} = {}
  BY <1>2, <1>5
<1>7. {k \in DOMAIN Stream' : Stream'[k].kind = "reply"} = {m + 1}
  BY <1>4, <1>5
<1>8. RepliesPaired'
  BY <1>2, <1>4, <1>5, <1>6, <1>7 DEF Inv, RepliesPaired, Awaiting
<1>9. EventsKnown'
  <2>1. srvwins' \subseteq wins'
    BY DEF Inv, EventsKnown
  <2>2. ASSUME NEW k \in DOMAIN Stream', Stream'[k].kind = "event"
        PROVE  Stream'[k].win \in wins
    <3>1. k \in 1 .. m
      BY <1>4, <2>2
    <3> QED
      BY <1>4, <2>2, <3>1 DEF Inv, EventsKnown
  <2> QED
    BY <2>1, <2>2 DEF EventsKnown
<1>10. DeletedLast'
  <2>1. ASSUME NEW k \in DOMAIN Stream', Stream'[k].kind = "reply"
        PROVE  k = m + 1
    BY <1>7, <2>1
  <2>2. Stream'[m + 1].to.win \notin srvwins'
    BY <1>4
  <2>3. \A j \in DOMAIN Stream' : ~(m + 1 < j)
    BY <1>4
  <2> QED
    BY <2>1, <2>2, <2>3 DEF Inv, DeletedLast, Awaiting
<1> QED
  BY <1>8, <1>9, <1>10 DEF Inv

\* The library takes an event from its buffer.
LEMMA TakingEvent ==
  ASSUME Inv, Typed', UNCHANGED <<wins, srvwins, call, pc, goal>>, Requests' = Requests,
         Stream # <<>>, Head(Stream).kind = "event", Stream' = Tail(Stream)
  PROVE  Inv'
<1>1. Stream \in Seq(Packet)
  BY Directions DEF Inv
<1> DEFINE m == Len(Stream)
<1>2. /\ m \in Nat \ {0} /\ DOMAIN Stream = 1 .. m /\ DOMAIN Stream' = 1 .. m - 1
      /\ Stream[1].kind = "event" /\ \A k \in 1 .. m - 1 : Stream'[k] = Stream[k + 1]
  BY <1>1, Shorter
<1> HIDE DEF m
<1>3. \A k \in DOMAIN Stream' : k + 1 \in DOMAIN Stream /\ Stream'[k] = Stream[k + 1]
  BY <1>2
<1>4. EventsKnown'
  BY <1>3 DEF Inv, EventsKnown
<1>5. DeletedLast'
  <2>1. \A j, k \in DOMAIN Stream' : k < j => k + 1 < j + 1
    BY <1>2
  <2> QED
    BY <1>3, <2>1 DEF Inv, DeletedLast, Awaiting
<1>6. CASE \A k \in DOMAIN Stream : Stream[k].kind # "reply"
  <2>1. \A k \in DOMAIN Stream' : Stream'[k].kind # "reply"
    BY <1>3, <1>6
  <2>2. RepliesPaired'
    BY <1>6, <2>1 DEF Inv, RepliesPaired, Awaiting
  <2> QED
    BY <1>4, <1>5, <2>2 DEF Inv
<1>7. ASSUME NEW k \in DOMAIN Stream, Stream[k].kind = "reply"
      PROVE  Inv'
  <2>1. /\ Awaiting /\ Stream[k].to = call /\ \A j \in DOMAIN Stream : Stream[j].kind = "reply" => j = k
        /\ \A j \in DOMAIN Requests : Requests[j] = Draw
    BY <1>7 DEF Inv, RepliesPaired
  <2>2. k - 1 \in DOMAIN Stream' /\ Stream'[k - 1] = Stream[k]
    BY <1>2, <1>7
  <2>3. \A j \in DOMAIN Stream' : Stream'[j].kind = "reply" <=> j = k - 1
    BY <1>2, <1>3, <1>7, <2>1, <2>2
  <2>4. {j \in DOMAIN Stream' : Stream'[j].kind = "reply"} = {k - 1}
    BY <2>2, <2>3
  <2>5. RepliesPaired'
    BY <2>1, <2>2, <2>4 DEF Inv, RepliesPaired, Awaiting
  <2> QED
    BY <1>4, <1>5, <2>5 DEF Inv
<1> QED
  BY <1>6, <1>7

\* The library takes the reply, and frees the window that it deleted.
LEMMA TakingReply ==
  ASSUME Inv, Typed', UNCHANGED <<srvwins, call>>, Requests' = Requests, Awaiting,
         Stream # <<>>, Head(Stream).kind = "reply", Stream' = Tail(Stream),
         pc' = "app", wins' = wins \ {call.win}
  PROVE  Inv'
<1>1. Stream \in Seq(Packet)
  BY Directions DEF Inv
<1> DEFINE m == Len(Stream)
<1>2. /\ m \in Nat \ {0} /\ DOMAIN Stream = 1 .. m /\ DOMAIN Stream' = 1 .. m - 1
      /\ Stream[1].kind = "reply" /\ \A k \in 1 .. m - 1 : Stream'[k] = Stream[k + 1]
  BY <1>1, Shorter
<1> HIDE DEF m
<1>3. /\ Stream[1].to = call /\ \A j \in 1 .. m : Stream[j].kind = "reply" => j = 1
      /\ \A j \in DOMAIN Requests : Requests[j] = Draw
  <2>1. 1 \in {k \in DOMAIN Stream : Stream[k].kind = "reply"}
    BY <1>2
  <2> QED
    BY <1>2, <2>1 DEF Inv, RepliesPaired
<1>4. \A k \in DOMAIN Stream' : Stream'[k].kind # "reply"
  BY <1>2, <1>3
<1>5. ~Awaiting'
  BY DEF Awaiting
<1>6. RepliesPaired'
  BY <1>3, <1>4, <1>5 DEF RepliesPaired
<1>7. EventsKnown'
  <2>1. srvwins' \subseteq wins'
    BY <1>2, <1>3 DEF Inv, EventsKnown, DeletedLast
  <2>2. ASSUME NEW k \in DOMAIN Stream', Stream'[k].kind = "event"
        PROVE  Stream'[k].win \in wins'
    <3>1. k + 1 \in DOMAIN Stream /\ 1 < k + 1 /\ Stream'[k] = Stream[k + 1] /\ 1 \in DOMAIN Stream
      BY <1>2
    <3>2. Stream[k + 1].win # call.win
      BY <1>2, <1>3, <2>2, <3>1 DEF Inv, DeletedLast
    <3> QED
      BY <2>2, <3>1, <3>2 DEF Inv, EventsKnown
  <2> QED
    BY <2>1, <2>2 DEF EventsKnown
<1>8. DeletedLast'
  BY <1>4, <1>5 DEF DeletedLast
<1> QED
  BY <1>6, <1>7, <1>8 DEF Inv

-----------------------------------------------------------------------------
(* The steps.                                                              *)

\* The queues at the start.
LEMMA InitInv == Init => Inv
<1> SUFFICES ASSUME Init PROVE Inv
  OBVIOUS
<1>1. Typed
  BY SizeAssumption DEF Init, Typed, Call
<1>2. Requests = <<>> /\ Stream = <<>>
  BY DEF Init, Requests, Stream
<1>3. DOMAIN Requests = {} /\ DOMAIN Stream = {}
  BY <1>2
<1>4. ~Awaiting /\ pc = "app" /\ srvwins = wins
  BY DEF Init, Awaiting
<1> QED
  BY <1>1, <1>3, <1>4 DEF Inv, RepliesPaired, EventsKnown, DeletedLast

\* Calls of the application.
LEMMA ApplicationKeeps ==
  ASSUME Inv, Application
  PROVE  Inv'
<1> USE DEF server
<1>1. Typed /\ pc # "aborted"
  BY DEF Inv, RepliesPaired
<1>2. ASSUME NEW c \in Call \union {Draw}, pc = "app", out' = Append(out, c)
      PROVE  /\ out' \in Seq(Call \union {Draw})
             /\ toServer' = toServer => Requests' = Append(Requests, c)
  BY <1>1, <1>2, AppendProperties, AppendSecond DEF Typed, Requests
<1>3. CASE Request
  <2>1. Typed' /\ Requests' = Append(Requests, Draw) /\ Stream' = Stream
    BY <1>1, <1>2, <1>3 DEF Request, Typed, Stream
  <2>2. ~Awaiting /\ ~Awaiting' /\ pc' # "aborted" /\ UNCHANGED <<wins, srvwins>>
    BY <1>3 DEF Request, Awaiting
  <2> QED
    BY <2>1, <2>2, Calling
<1>4. CASE Flush
  <2>1. Typed' /\ Requests' = Requests /\ Stream' = Stream /\ Awaiting' = Awaiting
    BY <1>1, <1>4 DEF Flush, Typed, Stream, Requests, Awaiting
  <2> QED
    BY <1>4, <2>1, Unmoved DEF Flush
<1>5. ASSUME NEW c \in Call, Await(c), c.kind = "delete" => c.win \in wins
      PROVE  Inv'
  <2>1. Typed' /\ Requests' = Append(Requests, c) /\ Stream' = Stream
    BY <1>1, <1>2, <1>5 DEF Await, Typed, Stream
  <2>2. ~Awaiting /\ Awaiting' /\ call' = c /\ pc' # "aborted" /\ UNCHANGED <<wins, srvwins>>
    BY <1>5 DEF Await, Awaiting
  <2> QED
    BY <1>5, <2>1, <2>2, Calling, CallKinds
<1>6. CASE Await(Query)
  BY <1>5, <1>6 DEF Call, Query
<1>7. CASE DeleteWindow
  <2>1. PICK w \in wins : Await(Delete(w))
    BY <1>7 DEF DeleteWindow
  <2> QED
    BY <1>1, <1>5, <2>1 DEF Call, Delete, Typed
<1>8. ASSUME NEW t \in Timeouts, QueryEvent(t)
      PROVE  Inv'
  <2>1. t # "reply"
    BY TimeoutAssumption
  <2>2. Typed' /\ Requests' = Requests /\ Stream' = Stream /\ Awaiting' = Awaiting
    BY <1>1, <1>8, <2>1 DEF QueryEvent, Typed, Stream, Requests, Awaiting
  <2> QED
    BY <1>8, <2>2, Unmoved DEF QueryEvent
<1> QED
  BY <1>3, <1>4, <1>6, <1>7, <1>8 DEF Application

\* What the library does inside a call.
LEMMA LibraryKeeps ==
  ASSUME Inv, Library
  PROVE  Inv'
<1> USE DEF server
<1>1. Typed /\ pc # "aborted"
  BY DEF Inv, RepliesPaired
<1> DEFINE ahead == toClient \o writing
<1>2. /\ ahead \in Seq(Packet) /\ Stream = (ibuf \o toClient) \o writing
      /\ Stream = ibuf \o ahead
  <2>1. ibuf \in Seq(Packet) /\ toClient \in Seq(Packet) /\ writing \in Seq(Packet)
    BY <1>1 DEF Typed
  <2>2. toClient \o writing \in Seq(Packet)
    BY <2>1, ConcatProperties
  <2>3. (ibuf \o toClient) \o writing = ibuf \o (toClient \o writing)
    BY <2>1, ConcatAssociative
  <2>4. Stream = (ibuf \o toClient) \o writing
    BY DEF Stream
  <2> QED
    BY <2>2, <2>3, <2>4
<1> HIDE DEF ahead
<1>3. CASE WriteOut
  <2>1. Typed' /\ Requests' = Requests
    <3>1. /\ toServer \in Seq(Call \union {Draw}) /\ out \in Seq(Call \union {Draw}) /\ out # <<>>
          /\ toServer' = Append(toServer, Head(out)) /\ out' = Tail(out)
      BY <1>1, <1>3 DEF WriteOut, Typed
    <3>2. /\ toServer' \in Seq(Call \union {Draw}) /\ out' \in Seq(Call \union {Draw})
          /\ toServer' \o out' = toServer \o out
      BY <3>1, MoveHead
    <3>3. Requests' = Requests
      BY <3>2 DEF Requests
    <3>4. Typed'
      BY <1>1, <1>3, <3>2 DEF WriteOut, Typed
    <3> QED
      BY <3>3, <3>4
  <2>2. Stream' = Stream /\ Awaiting' = Awaiting
    BY <1>3 DEF WriteOut, Stream, Awaiting
  <2> QED
    BY <1>1, <1>3, <2>1, <2>2, Unmoved DEF WriteOut
<1>4. CASE FlushDone
  <2>1. Typed' /\ Requests' = Requests /\ Stream' = Stream /\ Awaiting' = Awaiting /\ pc' # "aborted"
    BY <1>1, <1>4 DEF FlushDone, Typed, Stream, Requests, Awaiting
  <2> QED
    BY <1>4, <2>1, Unmoved DEF FlushDone
<1>5. CASE SelectRead
  <2>1. ibuf \in Seq(Packet) /\ toClient \in Seq(Packet) /\ writing \in Seq(Packet)
    BY <1>1 DEF Typed
  <2>2. \E x, y \in Seq(Packet) : ibuf' = ibuf \o x /\ toClient' = y /\ x \o y = toClient
    <3>1. PICK k \in 1 .. Len(toClient) :
            /\ ibuf' = ibuf \o SubSeq(toClient, 1, k)
            /\ toClient' = SubSeq(toClient, k + 1, Len(toClient))
      BY <1>5 DEF SelectRead
    <3>2. \A x, y : x = SubSeq(toClient, 1, k) /\ y = SubSeq(toClient, k + 1, Len(toClient))
                      => x \in Seq(Packet) /\ y \in Seq(Packet) /\ x \o y = toClient
      BY <2>1, Halves
    <3> QED
      BY <3>1, <3>2
  <2>3. PICK x, y \in Seq(Packet) : ibuf' = ibuf \o x /\ toClient' = y /\ x \o y = toClient
    BY <2>2
  <2>4. ibuf' \in Seq(Packet) /\ toClient' \in Seq(Packet)
    BY <2>1, <2>3, ConcatProperties
  <2>5. Stream' = Stream
    <3>1. (ibuf \o x) \o y = ibuf \o (x \o y)
      BY <2>1, ConcatAssociative
    <3>2. ibuf' \o toClient' = ibuf \o toClient /\ writing' = writing
      BY <1>5, <2>3, <3>1 DEF SelectRead
    <3> QED
      BY <3>2 DEF Stream
  <2>6. Requests' = Requests /\ Awaiting' = Awaiting /\ pc' # "aborted"
    BY <1>5 DEF SelectRead, Requests, Awaiting
  <2>7. Typed'
    BY <1>1, <1>5, <2>4 DEF SelectRead, Typed
  <2> QED
    BY <1>5, <2>5, <2>6, <2>7, Unmoved DEF SelectRead
<1>6. CASE SelectTimeout
  <2>1. Typed' /\ Requests' = Requests /\ Stream' = Stream /\ Awaiting' = Awaiting
    BY <1>1, <1>6 DEF SelectTimeout, Typed, Stream, Requests, Awaiting
  <2> QED
    BY <1>6, <2>1, Unmoved DEF SelectTimeout
<1>7. ASSUME ibuf # <<>>, ibuf' = Tail(ibuf), UNCHANGED <<toClient, writing>>
      PROVE  /\ ibuf' \in Seq(Packet) /\ Stream # <<>> /\ Head(Stream) = Head(ibuf)
             /\ Stream' = Tail(Stream) /\ Head(ibuf) \in Packet
  <2>1. ibuf \in Seq(Packet)
    BY <1>1 DEF Typed
  <2>2. /\ ibuf' \in Seq(Packet) /\ toClient' \in Seq(Packet) /\ writing' \in Seq(Packet)
        /\ Head(ibuf) \in Packet
    BY <1>1, <1>7, <2>1, HeadTailProperties DEF Typed
  <2>3. Stream' = ibuf' \o ahead
    <3>1. ibuf' \in Seq(Packet) /\ toClient \in Seq(Packet) /\ writing \in Seq(Packet)
      BY <1>1, <2>2 DEF Typed
    <3>2. (ibuf' \o toClient) \o writing = ibuf' \o (toClient \o writing)
      BY ONLY <3>1, ConcatAssociative
    <3> QED
      BY <1>7, <3>2 DEF Stream, ahead
  <2>4. ibuf \o ahead # <<>> /\ Head(ibuf \o ahead) = Head(ibuf) /\ Tail(ibuf \o ahead) = Tail(ibuf) \o ahead
    BY <1>2, <1>7, <2>1, TailFirst
  <2>5. Stream = ibuf \o ahead
    BY <1>2
  <2> QED
    BY <1>7, <2>2, <2>3, <2>4, <2>5
<1>8. CASE ParseEvent
  <2>1. Typed' /\ Requests' = Requests
    BY <1>1, <1>7, <1>8 DEF ParseEvent, Typed, Requests
  <2> QED
    BY <1>7, <1>8, <2>1, TakingEvent DEF ParseEvent
<1>9. CASE ParseReply
  <2>1. /\ Stream # <<>> /\ Head(Stream) = Head(ibuf) /\ Stream' = Tail(Stream)
        /\ ibuf' \in Seq(Packet) /\ Head(Stream).kind = "reply"
    BY <1>7, <1>9 DEF ParseReply
  <2>2. Awaiting /\ Head(ibuf).to = call
    <3>1. 1 \in DOMAIN Stream /\ Stream[1] = Head(Stream)
      BY <1>1, <2>1, Directions, Shorter
    <3>2. 1 \in {k \in DOMAIN Stream : Stream[k].kind = "reply"}
      BY <2>1, <3>1
    <3> QED
      BY <2>1, <3>1, <3>2 DEF Inv, RepliesPaired
  <2>3. pc' = "app" /\ wins' = wins \ {call.win}
    BY <1>9, <2>2 DEF ParseReply, Awaiting
  <2>4. Typed' /\ Requests' = Requests
    BY <1>1, <1>9, <2>1, <2>3 DEF ParseReply, Typed, Requests
  <2> QED
    BY <1>9, <2>1, <2>2, <2>3, <2>4, TakingReply DEF ParseReply
<1>10. CASE ParseEnd
  <2>1. Typed' /\ Requests' = Requests /\ Stream' = Stream /\ pc' # "aborted"
    BY <1>1, <1>10 DEF ParseEnd, Typed, Stream, Requests
  <2>2. Awaiting' = Awaiting
    BY <1>10 DEF ParseEnd, Awaiting
  <2> QED
    BY <1>10, <2>1, <2>2, Unmoved DEF ParseEnd
<1> QED
  BY <1>3, <1>4, <1>5, <1>6, <1>8, <1>9, <1>10 DEF Library

\* The server and the user.
LEMMA ServerKeeps ==
  ASSUME Inv, Server \/ \E w \in Window : Input(w)
  PROVE  Inv'
<1> USE DEF library
<1>1. Typed /\ pc # "aborted"
  BY DEF Inv, RepliesPaired
<1> DEFINE seen == ibuf \o toClient
<1>2. seen \in Seq(Packet) /\ Stream = seen \o writing
  BY <1>1, ConcatProperties, ConcatAssociative DEF Typed, Stream
<1>4. ASSUME NEW e \in Packet, writing = <<>>, writing' = <<e>>, UNCHANGED <<ibuf, toClient>>
      PROVE  writing' \in Seq(Packet) /\ Len(writing') = 1 /\ Stream' = Append(Stream, e)
  <2>1. Stream = seen
    BY <1>2, <1>4, ConcatEmptySeq
  <2>2. writing' \in Seq(Packet) /\ Len(writing') = 1
    BY <1>4
  <2>3. Stream' = seen \o <<e>>
    BY <1>1, <1>4, <2>2, ConcatAssociative DEF Typed, Stream
  <2> QED
    BY <1>2, <2>1, <2>2, <2>3, AppendIsConcat
<1>5. CASE Serve
  <2>1. /\ toServer # <<>> /\ Head(toServer) \in Call \union {Draw}
        /\ toServer' \in Seq(Call \union {Draw}) /\ Requests # <<>>
        /\ Head(Requests) = Head(toServer) /\ Requests' = Tail(Requests)
    BY <1>1, <1>5, TailFirst, HeadTailProperties DEF Serve, Typed, Requests
  <2>2. CASE Head(toServer) = Draw
    <3>1. srvwins' = srvwins
      BY <1>1, <1>5, <2>2, WindowAssumption DEF Serve, Typed, Draw
    <3>2. writing' = writing /\ Typed' /\ Stream' = Stream
      BY <1>1, <1>5, <2>1, <2>2, <3>1 DEF Serve, Typed, Stream
    <3> QED
      BY <1>5, <2>1, <2>2, <3>1, <3>2, Drawing DEF Serve
  <2>3. CASE Head(toServer) # Draw
    <3>1. Reply(Head(toServer)) \in Packet /\ Head(toServer) \in Call
      BY <2>1, <2>3, CallKinds
    <3>2. writing = <<>> /\ writing' = <<Reply(Head(toServer))>>
      BY <1>5, <2>3 DEF Serve
    <3>3. writing' \in Seq(Packet) /\ Len(writing') = 1 /\ Stream' = Append(Stream, Reply(Head(Requests)))
      BY <1>4, <1>5, <2>1, <3>1, <3>2 DEF Serve
    <3>4. Typed'
      BY <1>1, <1>5, <2>1, <3>3 DEF Serve, Typed
    <3> QED
      BY <1>5, <2>1, <3>1, <3>3, <3>4, Answering DEF Serve
  <2> QED
    BY <2>2, <2>3
<1>6. CASE WriteToClient
  <2>1. toClient' = toClient \o writing /\ writing' = <<>> /\ ibuf' = ibuf
    BY <1>6 DEF WriteToClient
  <2>2. toClient' \in Seq(Packet) /\ writing' \in Seq(Packet) /\ Len(writing') = 0
    BY <1>1, <2>1, ConcatProperties DEF Typed
  <2>3. Stream' = Stream
    <3>1. ibuf \in Seq(Packet) /\ toClient \in Seq(Packet) /\ writing \in Seq(Packet)
      BY <1>1 DEF Typed
    <3>2. (ibuf \o toClient) \o writing = ibuf \o (toClient \o writing)
      BY <3>1, ConcatAssociative
    <3>3. ibuf \o toClient' \in Seq(Packet)
      BY <2>2, <3>1, ConcatProperties
    <3>4. (ibuf \o toClient') \o <<>> = ibuf \o toClient'
      BY <3>3, ConcatEmptySeq
    <3> QED
      BY <2>1, <3>2, <3>4 DEF Stream
  <2>4. Typed' /\ Requests' = Requests /\ Awaiting' = Awaiting
    BY <1>1, <1>6, <2>2 DEF WriteToClient, Typed, Requests, Awaiting
  <2> QED
    BY <1>1, <1>6, <2>3, <2>4, Unmoved DEF WriteToClient
<1>7. ASSUME NEW w \in Window, Input(w)
      PROVE  Inv'
  <2> DEFINE e == [kind |-> "event", win |-> w, n |-> inputs']
  <2>1. inputs' \in 1 .. MaxInput
    BY <1>1, <1>7, SizeAssumption DEF Input, Typed
  <2>2. e \in Packet /\ e.kind = "event" /\ e.win = w
    BY <2>1, EventKind
  <2>3. writing = <<>> /\ writing' = <<e>> /\ w \in srvwins
    BY <1>7 DEF Input
  <2> HIDE DEF e
  <2>4. writing' \in Seq(Packet) /\ Len(writing') = 1 /\ Stream' = Append(Stream, e)
    BY <1>4, <1>7, <2>2, <2>3 DEF Input
  <2>5. Typed' /\ Requests' = Requests
    BY <1>1, <1>7, <2>1, <2>4 DEF Input, Typed, Requests
  <2> QED
    BY <1>7, <2>2, <2>3, <2>4, <2>5, Happening DEF Input
<1> QED
  BY <1>5, <1>6, <1>7 DEF Server

\* The invariant holds.
THEOREM InvCorrect == Spec => []Inv
<1>1. Inv /\ [Next]_vars => Inv'
  <2> SUFFICES ASSUME Inv, [Next]_vars PROVE Inv'
    OBVIOUS
  <2>1. CASE UNCHANGED vars
    <3>1. Typed' /\ Requests' = Requests /\ Stream' = Stream /\ Awaiting' = Awaiting
      BY <2>1 DEF vars, library, server, Inv, Typed, Requests, Stream, Awaiting
    <3> QED
      BY <2>1, <3>1, Unmoved DEF vars, library, server, Inv, RepliesPaired
  <2> QED
    BY <2>1, ApplicationKeeps, LibraryKeeps, ServerKeeps DEF Next
<1> QED
  BY <1>1, InitInv, PTL DEF Spec

\* "socket communication garbled" does not happen: calls and replies are paired.
THEOREM RepliesCorrect == Spec => []RepliesPaired
<1>1. Inv => RepliesPaired
  BY DEF Inv
<1> QED
  BY <1>1, InvCorrect, PTL

\* What is read from the socket is for a window whose WWIN structure is allocated.
THEOREM EventsCorrect == Spec => []EventsKnown
<1>1. Inv => EventsKnown
  BY DEF Inv
<1> QED
  BY <1>1, InvCorrect, PTL

-----------------------------------------------------------------------------
(* The ring.                                                               *)

Rings == [Event : [0 .. MaxEvents - 1 -> Events \union {NoEvent}], Events : 0 .. MaxEvents,
          Ev_read : 0 .. MaxEvents - 1, Ev_write : 0 .. MaxEvents - 1]
Sound(rg) == rg \in Rings /\ Slot(rg.Ev_read, rg.Events) = rg.Ev_write

\* What is stored.
LEMMA StoredIs ==
  ASSUME NEW rg, Sound(rg)
  PROVE  /\ Stored(rg) \in Seq(Events \union {NoEvent}) /\ Len(Stored(rg)) = rg.Events
         /\ \A k \in 1 .. rg.Events : Stored(rg)[k] = rg.Event[Slot(rg.Ev_read, k - 1)]
<1>1. MaxEvents \in Nat \ {0} /\ rg.Events \in Nat /\ rg.Events <= MaxEvents
  BY SizeAssumption DEF Sound, Rings
<1>2. \A k \in 1 .. rg.Events : Slot(rg.Ev_read, k - 1) \in 0 .. MaxEvents - 1
  BY <1>1 DEF Sound, Rings, Slot
<1>3. \A k \in 1 .. rg.Events : rg.Event[Slot(rg.Ev_read, k - 1)] \in Events \union {NoEvent}
  BY <1>2 DEF Sound, Rings
<1> QED
  BY <1>1, <1>3 DEF Stored

\* The places of the ring.
LEMMA SlotNext ==
  ASSUME NEW r \in 0 .. MaxEvents - 1, NEW k \in 0 .. MaxEvents - 1
  PROVE  /\ Succ(r) \in 0 .. MaxEvents - 1 /\ Slot(r, k) \in 0 .. MaxEvents - 1
         /\ Slot(Succ(r), k) = Slot(r, k + 1) /\ Succ(Slot(r, k)) = Slot(r, k + 1)
<1>1. MaxEvents \in Nat \ {0}
  BY SizeAssumption
<1> QED
  BY <1>1 DEF Slot, Succ
LEMMA SlotsDiffer ==
  ASSUME NEW r \in 0 .. MaxEvents - 1, NEW k \in 0 .. MaxEvents - 1, NEW l \in 0 .. MaxEvents - 1,
         k # l
  PROVE  Slot(r, k) # Slot(r, l)
<1>1. MaxEvents \in Nat \ {0}
  BY SizeAssumption
<1> QED
  BY <1>1 DEF Slot
LEMMA SlotEnds ==
  ASSUME NEW r \in 0 .. MaxEvents - 1
  PROVE  Slot(r, 0) = r /\ Slot(r, MaxEvents) = r
<1>1. MaxEvents \in Nat \ {0}
  BY SizeAssumption
<1> QED
  BY <1>1 DEF Slot

\* A ring, given by its fields.
LEMMA SoundFields ==
  ASSUME NEW rg, Sound(rg)
  PROVE  /\ rg = [Event |-> rg.Event, Events |-> rg.Events, Ev_read |-> rg.Ev_read, Ev_write |-> rg.Ev_write]
         /\ rg.Event \in [0 .. MaxEvents - 1 -> Events \union {NoEvent}]
         /\ rg.Events \in 0 .. MaxEvents /\ rg.Ev_read \in 0 .. MaxEvents - 1
         /\ rg.Ev_write \in 0 .. MaxEvents - 1 /\ rg.Ev_write = Slot(rg.Ev_read, rg.Events)
         /\ MaxEvents \in Nat \ {0} /\ rg.Events \in Nat /\ rg.Events <= MaxEvents
BY SizeAssumption DEF Sound, Rings

\* A short holds what fits.
LEMMA ShortsAre == \A n : n \in Shorts <=> n \in Int /\ -32768 <= n /\ n <= 32767
<1> DEFINE a == -32768  b == 32767
<1>1. a \in Int /\ b \in Int /\ Shorts = a .. b
  BY DEF Shorts
<1> HIDE DEF a, b
<1>2. \A n : n \in Shorts <=> n \in Int /\ a <= n /\ n <= b
  BY <1>1
<1> QED
  BY <1>2 DEF a, b
LEMMA ShortKeeps ==
  ASSUME NEW n \in Int
  PROVE  /\ Short(n) \in Int /\ Short(n) \in Shorts
         /\ -32768 <= n /\ n <= 32767 => Short(n) = n
<1> DEFINE m == n + 32768  p == m % 65536  q == m \div 65536
<1>1. m \in Int /\ p \in Int /\ 0 <= p /\ p <= 65535 /\ q \in Int /\ m = 65536 * q + p
  OBVIOUS
<1>2. Short(n) = p - 32768
  BY DEF Short
<1> HIDE DEF m, p, q
<1>3. 0 <= m /\ m <= 65535 => q = 0
  BY <1>1
<1>4. p - 32768 \in Int /\ -32768 <= p - 32768 /\ p - 32768 <= 32767
  BY <1>1
<1>5. m = n + 32768
  BY DEF m
<1>6. -32768 <= n /\ n <= 32767 => p - 32768 = n
  BY <1>1, <1>3, <1>5
<1>7. Short(n) \in Int /\ -32768 <= Short(n) /\ Short(n) <= 32767
  BY <1>2, <1>4
<1>8. Short(n) \in Shorts
  BY <1>7, ShortsAre
<1> QED
  BY <1>2, <1>6, <1>7, <1>8

\* event_pop(), field by field.
LEMMA PopFields ==
  ASSUME NEW E, NEW n \in 1 .. MaxEvents, NEW r, NEW w
  PROVE  Pop([Event |-> E, Events |-> n, Ev_read |-> r, Ev_write |-> w]) =
           [Event |-> E, Events |-> n - 1, Ev_read |-> Succ(r), Ev_write |-> w]
<1>1. MaxEvents \in Nat /\ MaxEvents < 32768
  BY SizeAssumption
<1>2. n # 0 /\ n - 1 \in Int /\ -32768 <= n - 1 /\ n - 1 <= 32767
  BY <1>1
<1>3. Short(n - 1) = n - 1
  BY <1>2, ShortKeeps
<1> DEFINE rg == [Event |-> E, Events |-> n, Ev_read |-> r, Ev_write |-> w]  m == n - 1
<1>4. Pop(rg) = [rg EXCEPT !.Ev_read = Succ(@), !.Events = Short(@ - 1)]
  BY <1>2 DEF Pop
<1>5. [rg EXCEPT !.Ev_read = Succ(@), !.Events = Short(@ - 1)] =
        [rg EXCEPT !.Ev_read = Succ(r), !.Events = m]
  BY <1>3
<1> DEFINE i == Succ(r)
<1>6. rg = [Event |-> E, Events |-> n, Ev_read |-> r, Ev_write |-> w]
  OBVIOUS
<1> HIDE DEF m, i, rg
<1>7. [rg EXCEPT !.Ev_read = i, !.Events = m] =
        [Event |-> E, Events |-> m, Ev_read |-> i, Ev_write |-> w]
  <2>1. [rg EXCEPT !.Ev_read = i, !.Events = m] = [[rg EXCEPT !.Ev_read = i] EXCEPT !.Events = m]
    OBVIOUS
  <2>2. [rg EXCEPT !.Ev_read = i] = [Event |-> E, Events |-> n, Ev_read |-> i, Ev_write |-> w]
    BY <1>6
  <2>3. [[Event |-> E, Events |-> n, Ev_read |-> i, Ev_write |-> w] EXCEPT !.Events = m] =
          [Event |-> E, Events |-> m, Ev_read |-> i, Ev_write |-> w]
    OBVIOUS
  <2> QED
    BY <2>1, <2>2, <2>3
<1> QED
  BY <1>4, <1>5, <1>7 DEF m, i, rg

\* event_pop() takes the oldest event.
LEMMA PopMeans ==
  ASSUME NEW rg, Sound(rg), rg.Events # 0
  PROVE  Sound(Pop(rg)) /\ Stored(rg) # <<>> /\ Stored(Pop(rg)) = Tail(Stored(rg))
<1> DEFINE pg == Pop(rg)  n == rg.Events  r == rg.Ev_read
<1>1. n \in 1 .. MaxEvents /\ MaxEvents \in Nat \ {0} /\ r \in 0 .. MaxEvents - 1
  BY SoundFields
<1>2. pg = [Event |-> rg.Event, Events |-> n - 1, Ev_read |-> Succ(r), Ev_write |-> rg.Ev_write]
  <2>1. Pop([Event |-> rg.Event, Events |-> n, Ev_read |-> r, Ev_write |-> rg.Ev_write]) =
          [Event |-> rg.Event, Events |-> n - 1, Ev_read |-> Succ(r), Ev_write |-> rg.Ev_write]
    <3>1. \A i \in 1 .. MaxEvents :
            Pop([Event |-> rg.Event, Events |-> i, Ev_read |-> r, Ev_write |-> rg.Ev_write]) =
              [Event |-> rg.Event, Events |-> i - 1, Ev_read |-> Succ(r), Ev_write |-> rg.Ev_write]
      BY PopFields
    <3> QED
      BY <1>1, <3>1
  <2> QED
    BY <2>1, SoundFields
<1> HIDE DEF pg
<1>3. pg.Event = rg.Event /\ pg.Events = n - 1 /\ pg.Ev_read = Succ(r) /\ pg.Ev_write = rg.Ev_write
  BY <1>2
<1>4. \A k \in 0 .. n - 1 : Slot(Succ(r), k) = Slot(r, k + 1)
  <2> SUFFICES ASSUME NEW k \in 0 .. n - 1 PROVE Slot(Succ(r), k) = Slot(r, k + 1)
    OBVIOUS
  <2>1. k \in 0 .. MaxEvents - 1
    BY <1>1
  <2> QED
    BY <1>1, <2>1, SlotNext
<1>5. Sound(pg)
  <2>0. 0 \in 0 .. MaxEvents - 1 /\ n - 1 \in 0 .. MaxEvents
    BY <1>1
  <2>1. Succ(r) \in 0 .. MaxEvents - 1
    BY <1>1, <2>0, SlotNext
  <2>2. Slot(Succ(r), n - 1) = rg.Ev_write
    <3>1. n - 1 \in 0 .. n - 1 /\ n - 1 + 1 = n
      BY <1>1
    <3> QED
      BY <1>4, <3>1, SoundFields
  <2>3. pg \in Rings
    BY <1>2, <2>0, <2>1, SoundFields DEF Rings
  <2> QED
    BY <1>3, <2>2, <2>3 DEF Sound
<1>6. Stored(rg) \in Seq(Events \union {NoEvent}) /\ Len(Stored(rg)) = n /\ Stored(rg) # <<>>
  BY <1>1, StoredIs, EmptySeq
<1>7. /\ Tail(Stored(rg)) \in Seq(Events \union {NoEvent}) /\ Len(Tail(Stored(rg))) = n - 1
      /\ \A k \in 1 .. n - 1 : Tail(Stored(rg))[k] = Stored(rg)[k + 1]
  BY <1>1, <1>6, HeadTailProperties
<1>8. \A k \in 1 .. n - 1 : Stored(pg)[k] = Tail(Stored(rg))[k]
  <2> SUFFICES ASSUME NEW k \in 1 .. n - 1 PROVE Stored(pg)[k] = Tail(Stored(rg))[k]
    OBVIOUS
  <2>1. Stored(pg)[k] = rg.Event[Slot(Succ(r), k - 1)]
    BY <1>3, <1>5, StoredIs
  <2>2. k - 1 \in 0 .. n - 1 /\ k - 1 + 1 = k /\ k + 1 \in 1 .. n /\ k + 1 - 1 = k
    BY <1>1
  <2>3. Stored(rg)[k + 1] = rg.Event[Slot(r, k + 1 - 1)]
    BY <2>2, StoredIs
  <2> QED
    BY <1>4, <1>7, <2>1, <2>2, <2>3
<1>9. Stored(pg) \in Seq(Events \union {NoEvent}) /\ Len(Stored(pg)) = n - 1
  BY <1>3, <1>5, StoredIs
<1>10. Stored(pg) = Tail(Stored(rg))
  BY <1>7, <1>8, <1>9, SeqEqual
<1> QED
  BY <1>5, <1>6, <1>10 DEF pg

\* event_push(), field by field.
LEMMA PushFields ==
  ASSUME NEW E, NEW n \in 0 .. MaxEvents, NEW r, NEW w, NEW e
  PROVE  Push([Event |-> E, Events |-> n, Ev_read |-> r, Ev_write |-> w], e) =
           [Event |-> [E EXCEPT ![w] = e], Events |-> IF n = MaxEvents THEN MaxEvents ELSE n + 1,
            Ev_read |-> IF n = MaxEvents THEN Succ(r) ELSE r, Ev_write |-> Succ(w)]
<1> DEFINE F == [E EXCEPT ![w] = e]
           put == [Event |-> F, Events |-> n, Ev_read |-> r, Ev_write |-> Succ(w)]
           room == IF n >= MaxEvents THEN Pop(put) ELSE put
           rg == [Event |-> E, Events |-> n, Ev_read |-> r, Ev_write |-> w]
<1>1. Push(rg, e) = [room EXCEPT !.Events = @ + 1]
  <2> DEFINE stored == [rg EXCEPT !.Event = [@ EXCEPT ![rg.Ev_write] = e]]
             moved == [stored EXCEPT !.Ev_write = Succ(@)]
  <2>1. stored = [Event |-> F, Events |-> n, Ev_read |-> r, Ev_write |-> w]
    OBVIOUS
  <2>2. Push(rg, e) = [(IF moved.Events >= MaxEvents THEN Pop(moved) ELSE moved)
                         EXCEPT !.Events = @ + 1]
    BY DEF Push
  <2> HIDE DEF stored, F, rg
  <2>3. moved = put /\ put.Events = n
    BY <2>1
  <2> HIDE DEF moved, put
  <2> QED
    BY <2>2, <2>3
<1>2. CASE n = MaxEvents
  <2>1. n \in 1 .. MaxEvents /\ n >= MaxEvents /\ n - 1 + 1 = MaxEvents
    BY <1>2, SizeAssumption
  <2>2. room = [Event |-> F, Events |-> n - 1, Ev_read |-> Succ(r), Ev_write |-> Succ(w)]
    BY <2>1, PopFields
  <2> HIDE DEF F, room
  <2>3. [room EXCEPT !.Events = @ + 1] =
          [Event |-> F, Events |-> n - 1 + 1, Ev_read |-> Succ(r), Ev_write |-> Succ(w)]
    BY <2>2
  <2> QED
    BY <1>1, <1>2, <2>1, <2>3 DEF F
<1>3. CASE n # MaxEvents
  <2>1. ~(n >= MaxEvents)
    BY <1>3, SizeAssumption
  <2>2. room = put
    BY <2>1
  <2> HIDE DEF F, room
  <2>3. [room EXCEPT !.Events = @ + 1] =
          [Event |-> F, Events |-> n + 1, Ev_read |-> r, Ev_write |-> Succ(w)]
    BY <2>2
  <2> QED
    BY <1>1, <1>3, <2>3 DEF F
<1> QED
  BY <1>2, <1>3

\* event_push() puts the event at the end and, if the ring is full, loses the oldest.
LEMMA PushMeans ==
  ASSUME NEW rg, Sound(rg), NEW e \in Events
  PROVE  /\ Sound(Push(rg, e))
         /\ Stored(Push(rg, e)) =
              Append(IF Len(Stored(rg)) = MaxEvents THEN Tail(Stored(rg)) ELSE Stored(rg), e)
<1> DEFINE pg == Push(rg, e)  full == rg.Events = MaxEvents
           n == IF full THEN MaxEvents - 1 ELSE rg.Events  r == rg.Ev_read  w == rg.Ev_write
           nr == IF full THEN Succ(r) ELSE r
           kept == IF full THEN Tail(Stored(rg)) ELSE Stored(rg)
           F == [rg.Event EXCEPT ![w] = e]
           S == Events \union {NoEvent}
<1>1. /\ n \in 0 .. MaxEvents - 1 /\ MaxEvents \in Nat \ {0} /\ r \in 0 .. MaxEvents - 1
      /\ w \in 0 .. MaxEvents - 1 /\ 0 \in 0 .. MaxEvents - 1
  BY SoundFields
<1>2. pg = [Event |-> F, Events |-> n + 1, Ev_read |-> nr, Ev_write |-> Succ(w)]
  <2>1. Push([Event |-> rg.Event, Events |-> rg.Events, Ev_read |-> r, Ev_write |-> w], e) =
          [Event |-> F, Events |-> IF full THEN MaxEvents ELSE rg.Events + 1,
           Ev_read |-> nr, Ev_write |-> Succ(w)]
    BY PushFields, SoundFields
  <2>2. (IF full THEN MaxEvents ELSE rg.Events + 1) = n + 1
    BY <1>1
  <2> HIDE DEF F, n, nr
  <2> QED
    BY <2>1, <2>2, SoundFields
<1> HIDE DEF pg
<1>3. pg.Event = F /\ pg.Events = n + 1 /\ pg.Ev_read = nr /\ pg.Ev_write = Succ(w)
  BY <1>2
<1>4. /\ nr \in 0 .. MaxEvents - 1 /\ Slot(nr, n) = w /\ Slot(nr, n + 1) = Succ(w)
      /\ \A k \in 0 .. n - 1 : Slot(nr, k) = Slot(r, IF full THEN k + 1 ELSE k)
  <2>1. CASE full
    <3>1. n = MaxEvents - 1 /\ nr = Succ(r) /\ w = r
      BY <2>1, <1>1, SlotEnds, SoundFields
    <3>2. nr \in 0 .. MaxEvents - 1
      BY <1>1, <3>1, SlotNext
    <3>3. \A k \in 0 .. MaxEvents - 1 : Slot(Succ(r), k) = Slot(r, k + 1)
      BY <1>1, SlotNext
    <3>4. n \in 0 .. MaxEvents - 1 /\ n + 1 = MaxEvents
      BY <1>1, <3>1
    <3>5. Slot(nr, n) = w
      BY <1>1, <3>1, <3>3, <3>4, SlotEnds
    <3>6. Slot(nr, n + 1) = Succ(w)
      BY <3>1, <3>2, <3>4, SlotEnds
    <3>7. \A k \in 0 .. n - 1 : k \in 0 .. MaxEvents - 1
      BY <1>1
    <3> HIDE DEF n, nr, w, r
    <3>8. \A k \in 0 .. n - 1 : Slot(nr, k) = Slot(r, IF full THEN k + 1 ELSE k)
      BY <2>1, <3>1, <3>3, <3>7
    <3> QED
      BY <3>2, <3>5, <3>6, <3>8
  <2>2. CASE ~full
    <3>1. n = rg.Events /\ nr = r /\ w = Slot(r, n)
      BY <2>2, SoundFields
    <3>2. Slot(r, n + 1) = Succ(Slot(r, n))
      BY <1>1, SlotNext
    <3> HIDE DEF n, nr, w, r
    <3> QED
      BY <1>1, <2>2, <3>1, <3>2
  <2> QED
    BY <2>1, <2>2
<1>5. n + 1 \in 0 .. MaxEvents /\ Succ(w) \in 0 .. MaxEvents - 1
  <2>1. \A i \in 0 .. MaxEvents - 1 : Succ(i) \in 0 .. MaxEvents - 1
    BY <1>1, SlotNext
  <2> HIDE DEF n, w
  <2> QED
    BY <1>1, <2>1
<1>6. F \in [0 .. MaxEvents - 1 -> S] /\ F[w] = e /\ \A i \in 0 .. MaxEvents - 1 : i # w => F[i] = rg.Event[i]
  <2>1. rg.Event \in [0 .. MaxEvents - 1 -> S]
    BY SoundFields
  <2> QED
    BY <1>1, <2>1
<1> HIDE DEF F, nr, n
<1>7. Sound(pg)
  <2>1. pg \in Rings
    BY <1>2, <1>4, <1>5, <1>6 DEF Rings
  <2> QED
    BY <1>3, <1>4, <2>1 DEF Sound
<1>8. kept \in Seq(S) /\ Len(kept) = n /\ \A k \in 1 .. n : kept[k] = rg.Event[Slot(nr, k - 1)]
  <2>1. Stored(rg) \in Seq(S) /\ Len(Stored(rg)) = rg.Events
        /\ \A k \in 1 .. rg.Events : Stored(rg)[k] = rg.Event[Slot(r, k - 1)]
    BY StoredIs
  <2>2. CASE full
    <3>1. n = MaxEvents - 1 /\ kept = Tail(Stored(rg)) /\ rg.Events = MaxEvents
      BY <2>2 DEF n
    <3> HIDE DEF kept
    <3>2. Stored(rg) # <<>>
      BY <1>1, <2>1, <3>1, EmptySeq
    <3>3. /\ kept \in Seq(S) /\ Len(kept) = n
          /\ \A k \in 1 .. n : kept[k] = Stored(rg)[k + 1]
      BY <1>1, <2>1, <3>1, <3>2, HeadTailProperties
    <3>4. ASSUME NEW k \in 1 .. n PROVE kept[k] = rg.Event[Slot(nr, k - 1)]
      <4>1. k + 1 \in 1 .. rg.Events /\ k + 1 - 1 = k - 1 + 1 /\ k - 1 \in 0 .. n - 1
        BY <1>1, <3>1
      <4>2. Stored(rg)[k + 1] = rg.Event[Slot(r, k + 1 - 1)]
        BY <2>1, <4>1
      <4>3. Slot(nr, k - 1) = Slot(r, k - 1 + 1)
        BY <1>4, <2>2, <4>1
      <4> QED
        BY <3>3, <4>1, <4>2, <4>3
    <3> QED
      BY <3>3, <3>4
  <2>3. CASE ~full
    <3>1. n = rg.Events /\ kept = Stored(rg) /\ nr = r
      BY <2>3 DEF n, nr
    <3> QED
      BY <2>1, <3>1
  <2> QED
    BY <2>2, <2>3
<1>9. (IF Len(Stored(rg)) = MaxEvents THEN Tail(Stored(rg)) ELSE Stored(rg)) = kept
  BY StoredIs
<1> HIDE DEF kept
<1>10. \A k \in 1 .. n : Stored(pg)[k] = kept[k]
  <2> SUFFICES ASSUME NEW k \in 1 .. n PROVE Stored(pg)[k] = kept[k]
    OBVIOUS
  <2>1. k \in 1 .. n + 1 /\ k - 1 \in 0 .. MaxEvents - 1 /\ k - 1 # n
    BY <1>1
  <2>2. Stored(pg)[k] = F[Slot(nr, k - 1)]
    BY <1>3, <1>7, <2>1, StoredIs
  <2>3. Slot(nr, k - 1) \in 0 .. MaxEvents - 1
    BY <1>4, <2>1, SlotNext
  <2>4. Slot(nr, k - 1) # w
    BY <1>1, <1>4, <2>1, SlotsDiffer
  <2> QED
    BY <1>6, <1>8, <2>2, <2>3, <2>4
<1>11. Stored(pg)[n + 1] = e
  <2> SUFFICES ASSUME NEW k \in 1 .. n + 1, k = n + 1 PROVE Stored(pg)[k] = e
    <3>1. n + 1 \in 1 .. n + 1
      BY <1>1
    <3> QED
      BY <3>1
  <2>1. Stored(pg)[k] = F[Slot(nr, k - 1)]
    BY <1>3, <1>7, StoredIs
  <2>2. k - 1 = n
    BY <1>1
  <2> QED
    BY <1>4, <1>6, <2>1, <2>2
<1>12. /\ Append(kept, e) \in Seq(S) /\ Len(Append(kept, e)) = n + 1
       /\ \A k \in 1 .. n : Append(kept, e)[k] = kept[k]
       /\ Append(kept, e)[n + 1] = e
  BY <1>1, <1>8, AppendProperties
<1>13. \A k \in 1 .. n + 1 : Stored(pg)[k] = Append(kept, e)[k]
  <2>1. \A k \in 1 .. n + 1 : k \in 1 .. n \/ k = n + 1
    BY <1>1
  <2> QED
    BY <1>10, <1>11, <1>12, <2>1
<1>14. Stored(pg) \in Seq(S) /\ Len(Stored(pg)) = n + 1
  BY <1>3, <1>7, StoredIs
<1>15. Stored(pg) = Append(kept, e)
  BY <1>12, <1>13, <1>14, SeqEqual
<1> QED
  BY <1>7, <1>9, <1>15 DEF pg

\* A step of the program leaves the ring, or gets or puts an event, unless a window
\* is deleted.
LEMMA RingStep ==
  ASSUME Inv, [Next]_vars, Sound(ring), wins' = wins
  PROVE  /\ Sound(ring)'
         /\ \/ ring' = ring
            \/ Stored(ring) # <<>> /\ Stored(ring)' = Tail(Stored(ring))
            \/ \E e \in Events : Stored(ring)' =
                 Append(IF Len(Stored(ring)) = MaxEvents THEN Tail(Stored(ring)) ELSE Stored(ring), e)
<1>1. CASE ring' = ring
  BY <1>1 DEF Sound, Rings
<1>2. CASE ParseEvent
  <2>1. Head(ibuf) \in Packet /\ Head(ibuf).kind = "event"
    BY <1>2, HeadTailProperties DEF ParseEvent, Inv, Typed
  <2>2. Head(ibuf) \in Events
    BY <2>1, PacketKinds
  <2>3. ring' = Push(ring, Head(ibuf))
    BY <1>2 DEF ParseEvent
  <2>4. Sound(ring') /\ Stored(ring') =
          Append(IF Len(Stored(ring)) = MaxEvents THEN Tail(Stored(ring)) ELSE Stored(ring), Head(ibuf))
    BY <2>2, <2>3, PushMeans
  <2> QED
    BY <2>2, <2>4 DEF Sound, Rings, Stored
<1>3. CASE ParseReply /\ ring' # ring
  <2>1. goal = "reply" /\ pc = "parse" /\ call.kind = "delete" /\ wins' = wins \ {call.win}
    BY <1>3 DEF ParseReply
  <2>2. call.win \in wins
    BY <2>1 DEF Inv, DeletedLast, Awaiting
  <2> QED
    BY <2>1, <2>2
<1>4. CASE ParseEnd /\ ring' # ring
  <2>1. ring' = Pop(ring)
    BY <1>4 DEF ParseEnd
  <2>2. ring.Events # 0
    BY <1>4, <2>1 DEF Pop
  <2>3. Sound(ring') /\ Stored(ring) # <<>> /\ Stored(ring') = Tail(Stored(ring))
    BY <2>1, <2>2, PopMeans
  <2> QED
    BY <2>3 DEF Sound, Rings, Stored
<1>5. CASE UNCHANGED vars
  BY <1>1, <1>5 DEF vars, library
<1>6. CASE Application
  BY <1>1, <1>6 DEF Application, Request, Flush, Await, DeleteWindow, QueryEvent
<1>7. CASE Server \/ \E w \in Window : Input(w)
  BY <1>1, <1>7 DEF Server, Serve, WriteToClient, Input, library
<1>8. CASE Library
  BY <1>1, <1>2, <1>3, <1>4, <1>8 DEF Library, WriteOut, FlushDone, SelectRead, SelectTimeout
<1> QED
  BY <1>5, <1>6, <1>7, <1>8 DEF Next

\* The ring at the start.
LEMMA RingAtStart ==
  ASSUME Init
  PROVE  Sound(ring) /\ Stored(ring) = <<>>
<1>1. MaxEvents \in Nat \ {0}
  BY SizeAssumption
<1>2. 0 \in 0 .. MaxEvents /\ 0 \in 0 .. MaxEvents - 1 /\ Slot(0, 0) = 0
  BY <1>1 DEF Slot
<1>3. Sound(ring) /\ ring.Events = 0
  BY <1>2 DEF Init, Sound, Rings
<1>4. Stored(ring) \in Seq(Events \union {NoEvent}) /\ Len(Stored(ring)) = 0
  BY <1>3, StoredIs
<1> QED
  BY <1>3, <1>4, EmptySeq

\* Until a window is deleted, the count agrees with the indices of the ring.
THEOREM RingSound == Spec => [](wins = Window => RingOK)
<1> DEFINE J == wins = Window => Sound(ring)
<1>1. Init => J
  BY RingAtStart
<1>2. J /\ Inv /\ [Next]_vars => J'
  <2> SUFFICES ASSUME J, Inv, [Next]_vars, wins' = Window PROVE Sound(ring)'
    BY DEF Sound, Rings, Slot
  <2>1. wins \subseteq Window /\ (wins' = wins \/ wins' \subseteq wins)
    BY DEF Inv, Typed, Next, vars, library, Application, Request, Flush, Await, DeleteWindow,
           QueryEvent, Library, WriteOut, FlushDone, SelectRead, SelectTimeout, ParseEvent,
           ParseReply, ParseEnd, Server, Serve, WriteToClient, Input
  <2>2. wins = Window /\ wins' = wins
    BY <2>1
  <2> QED
    BY <2>2, RingStep
<1>3. J => (wins = Window => RingOK)
  BY DEF Sound, Rings, RingOK
<1> QED
  BY <1>1, <1>2, <1>3, InvCorrect, PTL DEF Spec

\* The ring of lib/socket.c implements the bounded queue that event_push() and
\* event_pop() promise, as long as the count agrees with the indices.
THEOREM QueueCorrect == Spec => IsQueue
<1>1. Init => RingQueue!Init
  BY RingAtStart DEF RingQueue!Init
<1>2. Inv /\ [Next]_vars => [RingOK /\ wins' = wins => [RingQueue!Next]_(Stored(ring))]_vars
  <2> SUFFICES ASSUME Inv, [Next]_vars, RingOK, wins' = wins
               PROVE  [RingQueue!Next]_(Stored(ring))
    OBVIOUS
  <2>1. Sound(ring)
    BY DEF RingOK, Sound, Rings
  <2>2. ring' = ring => Stored(ring)' = Stored(ring)
    BY DEF Stored
  <2> QED
    BY <2>1, <2>2, RingStep DEF RingQueue!Next, RingQueue!Get, RingQueue!Put
<1> QED
  BY <1>1, <1>2, InvCorrect, PTL DEF Spec, IsQueue
-----------------------------------------------------------------------------
(* _wremove_events(), for any ring.                                        *)

\* A set of natural numbers has a least one.
LEMMA LeastExists ==
  ASSUME NEW S \in SUBSET Nat, S # {}
  PROVE  \E x \in S : \A y \in S : x <= y
<1>1. \E x \in S : \A y \in S : ~(<<y, x>> \in OpToRel(<, Nat))
  BY WFMin, NatLessThanWellFounded
<1>2. \A x \in S, y \in S : y < x => <<y, x>> \in OpToRel(<, Nat)
  BY DEF OpToRel
<1>3. \A x \in S, y \in S : ~(y < x) => x <= y
  OBVIOUS
<1> QED
  BY <1>1, <1>2, <1>3

\* Whether the k-th slot after r is for win, the slots for win between r and the
\* last-th one, the others from the first of them on, and where those move to.
For(rg, win, r, k) == rg.Event[Slot(r, k)].win = win
Hits(rg, win, r, last) == {k \in 1 .. last - 1 : For(rg, win, r, k)}
Kept(rg, win, r, first, last) == (first .. last - 1) \ Hits(rg, win, r, last)
Place(r, first, kept, k) == Slot(r, first + Cardinality({h \in kept : h < k}))
Down(rg, r, first, kept) ==
  [i \in DOMAIN rg.Event |->
     IF \E k \in kept : Place(r, first, kept, k) = i
     THEN rg.Event[Slot(r, CHOOSE k \in kept : Place(r, first, kept, k) = i)] ELSE rg.Event[i]]

\* What _wremove_events() does after it has skipped s events, with Ev_write last slots on.
LEMMA RemoveIs ==
  ASSUME NEW rg, NEW win, NEW s \in 0 .. MaxEvents, NEW last \in 1 .. MaxEvents, rg.Events # 0,
         \A k \in 0 .. s - 1 : k # rg.Events /\ For(rg, win, rg.Ev_read, k),
         s = rg.Events \/ ~For(rg, win, rg.Ev_read, s),
         \A k \in 1 .. MaxEvents : Slot(Slot(rg.Ev_read, s), k) = rg.Ev_write <=> k = last
  PROVE  LET r == Slot(rg.Ev_read, s)
             hits == Hits(rg, win, r, last)
             skipped == [rg EXCEPT !.Ev_read = r, !.Events = Short(@ - s)]
         IN  /\ s = rg.Events \/ hits = {} => Remove(rg, win) = skipped
             /\ s # rg.Events /\ hits # {} =>
                  \E first \in hits :
                    /\ \A h \in hits : first <= h
                    /\ LET kept == Kept(rg, win, r, first, last)
                       IN  Remove(rg, win) =
                             [skipped EXCEPT !.Event = Down(rg, r, first, kept),
                                !.Ev_write = Slot(r, first + Cardinality(kept)),
                                !.Events = Short(@ - Cardinality(kept))]
<1> DEFINE F(r, k) == rg.Event[Slot(r, k)].win = win
           stop == {k \in 0 .. MaxEvents : k = rg.Events \/ ~F(rg.Ev_read, k)}
           s0 == CHOOSE k \in stop : \A h \in stop : k <= h
           r0 == Slot(rg.Ev_read, s0)
           last0 == CHOOSE k \in 1 .. MaxEvents : Slot(r0, k) = rg.Ev_write
           hits0 == {k \in 1 .. last0 - 1 : F(r0, k)}
           first0 == CHOOSE k \in hits0 : \A h \in hits0 : k <= h
           kept0 == (first0 .. last0 - 1) \ hits0
           To(k) == Slot(r0, first0 + Cardinality({h \in kept0 : h < k}))
           skipped0 == [rg EXCEPT !.Ev_read = r0, !.Events = Short(@ - s0)]
           moved0 == [skipped0 EXCEPT
              !.Event = [i \in DOMAIN @ |->
                 IF \E k \in kept0 : To(k) = i
                 THEN @[Slot(r0, CHOOSE k \in kept0 : To(k) = i)] ELSE @[i]],
              !.Ev_write = Slot(r0, first0 + Cardinality(kept0)),
              !.Events = Short(@ - Cardinality(kept0))]
<1>1. Remove(rg, win) =
        IF rg.Events = 0 THEN rg
        ELSE IF stop = {}
          THEN [rg EXCEPT !.Ev_read = (@ + (rg.Events % 65536)) % MaxEvents, !.Events = 0]
        ELSE IF s0 = rg.Events \/ hits0 = {} THEN skipped0
        ELSE moved0
  BY DEF Remove
<1>2. s \in stop /\ \A h \in stop : s <= h
  BY SizeAssumption DEF For
<1>3. s0 = s
  <2>1. \A k \in stop : (\A h \in stop : k <= h) => k = s
    BY <1>2
  <2> HIDE DEF stop
  <2>2. s0 \in stop /\ \A h \in stop : s0 <= h
    BY <1>2
  <2> QED
    BY <2>1, <2>2
<1> DEFINE r == Slot(rg.Ev_read, s)
<1>4. last0 = last
  <2>1. r0 = r
    BY <1>3
  <2>2. last \in 1 .. MaxEvents /\ Slot(r, last) = rg.Ev_write
    OBVIOUS
  <2>3. \A k \in 1 .. MaxEvents : Slot(r, k) = rg.Ev_write => k = last
    OBVIOUS
  <2> HIDE DEF r, r0
  <2> QED
    BY <2>1, <2>2, <2>3
<1>5. hits0 = Hits(rg, win, r, last)
  BY <1>3, <1>4 DEF Hits, For
<1>6. skipped0 = [rg EXCEPT !.Ev_read = r, !.Events = Short(@ - s)]
  BY <1>3
<1>7. stop # {}
  BY <1>2
<1>8. CASE s = rg.Events \/ Hits(rg, win, r, last) = {}
  <2>1. Remove(rg, win) = skipped0
    <3> HIDE DEF stop, s0, hits0, skipped0, moved0
    <3> QED
      BY <1>1, <1>3, <1>5, <1>7, <1>8
  <2> QED
    BY <1>6, <1>8, <2>1
<1>9. CASE ~(s = rg.Events \/ Hits(rg, win, r, last) = {})
  <2>1. Remove(rg, win) = moved0
    <3> HIDE DEF stop, s0, hits0, skipped0, moved0
    <3> QED
      BY <1>1, <1>3, <1>5, <1>7, <1>9
  <2>2. first0 \in hits0 /\ \A h \in hits0 : first0 <= h
    <3>1. hits0 \in SUBSET Nat /\ hits0 # {}
      <4>1. Hits(rg, win, r, last) \in SUBSET Nat
        BY DEF Hits
      <4> HIDE DEF hits0
      <4> QED
        BY <1>5, <1>9, <4>1
    <3> HIDE DEF hits0
    <3>2. \E k \in hits0 : \A h \in hits0 : k <= h
      BY <3>1, LeastExists
    <3> QED
      BY <3>2
  <2> DEFINE kept == Kept(rg, win, r, first0, last)
  <2>3. kept0 = kept
    BY <1>4, <1>5 DEF Kept
  <2>4. \A k : To(k) = Place(r, first0, kept, k)
    BY <1>3, <2>3 DEF Place
  <2>5. skipped0.Event = rg.Event
    OBVIOUS
  <2> DEFINE D == [i \in DOMAIN rg.Event |->
                 IF \E k \in kept0 : To(k) = i
                 THEN rg.Event[Slot(r0, CHOOSE k \in kept0 : To(k) = i)] ELSE rg.Event[i]]
  <2>6. moved0 = [skipped0 EXCEPT !.Event = D,
              !.Ev_write = Slot(r0, first0 + Cardinality(kept0)),
              !.Events = Short(@ - Cardinality(kept0))]
    <3> DEFINE M == [i \in DOMAIN skipped0.Event |->
                 IF \E k \in kept0 : To(k) = i
                 THEN skipped0.Event[Slot(r0, CHOOSE k \in kept0 : To(k) = i)] ELSE skipped0.Event[i]]
    <3>1. M = D
      <4> HIDE DEF skipped0, kept0, r0, To
      <4> QED
        BY <2>5
    <3>2. moved0 = [skipped0 EXCEPT !.Event = M,
              !.Ev_write = Slot(r0, first0 + Cardinality(kept0)),
              !.Events = Short(@ - Cardinality(kept0))]
      OBVIOUS
    <3> HIDE DEF M, D, skipped0, moved0
    <3> QED
      BY <3>1, <3>2
  <2>7. D = Down(rg, r, first0, kept)
    <3>1. r0 = r
      BY <1>3
    <3>2. Down(rg, r, first0, kept) =
            [i \in DOMAIN rg.Event |->
               IF \E k \in kept : Place(r, first0, kept, k) = i
               THEN rg.Event[Slot(r, CHOOSE k \in kept : Place(r, first0, kept, k) = i)]
               ELSE rg.Event[i]]
      BY DEF Down
    <3> HIDE DEF kept0, kept, r0, r, first0, To
    <3> QED
      BY <2>3, <2>4, <3>1, <3>2
  <2>8. first0 \in Hits(rg, win, r, last) /\ \A h \in Hits(rg, win, r, last) : first0 <= h
    <3> HIDE DEF hits0, first0
    <3> QED
      BY <1>5, <2>2
  <2>9. r0 = r
    BY <1>3
  <2> DEFINE skipped == [rg EXCEPT !.Ev_read = r, !.Events = Short(@ - s)]
             moved(first) == [skipped EXCEPT
                !.Event = Down(rg, r, first, Kept(rg, win, r, first, last)),
                !.Ev_write = Slot(r, first + Cardinality(Kept(rg, win, r, first, last))),
                !.Events = Short(@ - Cardinality(Kept(rg, win, r, first, last)))]
  <2>10. moved0 = moved(first0)
    <3>1. moved(first0) = [skipped EXCEPT !.Event = Down(rg, r, first0, kept),
              !.Ev_write = Slot(r, first0 + Cardinality(kept)),
              !.Events = Short(@ - Cardinality(kept))]
      OBVIOUS
    <3>2. skipped0 = skipped
      BY <1>6
    <3> HIDE DEF skipped0, skipped, moved0, moved, D, kept0, kept, r0, r, first0
    <3> QED
      BY <2>3, <2>6, <2>7, <2>9, <3>1, <3>2
  <2>11. \E first \in Hits(rg, win, r, last) :
           (\A h \in Hits(rg, win, r, last) : first <= h) /\ Remove(rg, win) = moved(first)
    <3> HIDE DEF first0, moved0, moved, r
    <3> QED
      BY <2>1, <2>8, <2>10
  <2> QED
    BY <1>9, <2>11
<1> QED
  BY <1>8, <1>9

\* The rings with a count and indices of the right type, whether or not they agree.
TypedRings == [Event : [0 .. MaxEvents - 1 -> Events \union {NoEvent}],
               Ev_read : 0 .. MaxEvents - 1, Ev_write : 0 .. MaxEvents - 1, Events : Shorts]

LEMMA RingUpdates ==
  ASSUME NEW rg \in TypedRings
  PROVE  /\ \A x \in Shorts : [rg EXCEPT !.Events = x] \in TypedRings
         /\ \A x \in 0 .. MaxEvents - 1 : [rg EXCEPT !.Ev_read = x] \in TypedRings
         /\ \A x \in 0 .. MaxEvents - 1 : [rg EXCEPT !.Ev_write = x] \in TypedRings
         /\ \A x \in [0 .. MaxEvents - 1 -> Events \union {NoEvent}] : [rg EXCEPT !.Event = x] \in TypedRings
         /\ rg.Event \in [0 .. MaxEvents - 1 -> Events \union {NoEvent}]
         /\ rg.Ev_read \in 0 .. MaxEvents - 1 /\ rg.Ev_write \in 0 .. MaxEvents - 1 /\ rg.Events \in Shorts
BY DEF TypedRings

\* Two fields changed are two changes of a field.
LEMMA ReadUpdated ==
  ASSUME NEW rg \in TypedRings, NEW r \in 0 .. MaxEvents - 1, NEW n \in Shorts
  PROVE  /\ [rg EXCEPT !.Ev_read = r, !.Events = n] \in TypedRings
         /\ [rg EXCEPT !.Ev_read = r, !.Events = n].Events = n
         /\ [rg EXCEPT !.Ev_read = r, !.Events = n].Event = rg.Event
<1>1. [rg EXCEPT !.Ev_read = r, !.Events = n] = [[rg EXCEPT !.Ev_read = r] EXCEPT !.Events = n]
  OBVIOUS
<1>2. [rg EXCEPT !.Ev_read = r] \in TypedRings /\ [rg EXCEPT !.Ev_read = r].Event = rg.Event
  BY RingUpdates DEF TypedRings
<1> DEFINE a == [rg EXCEPT !.Ev_read = r]
<1> HIDE DEF a
<1>3. \A x : x \in TypedRings => /\ [x EXCEPT !.Events = n] \in TypedRings
                               /\ [x EXCEPT !.Events = n].Events = n
                               /\ [x EXCEPT !.Events = n].Event = x.Event
  BY RingUpdates DEF TypedRings
<1> QED
  BY <1>1, <1>2, <1>3
LEMMA IndicesUpdated ==
  ASSUME NEW rg \in TypedRings, NEW r \in 0 .. MaxEvents - 1, NEW n \in Shorts
  PROVE  /\ [rg EXCEPT !.Ev_read = r, !.Events = n].Ev_read = r
         /\ [rg EXCEPT !.Ev_read = r, !.Events = n].Ev_write = rg.Ev_write
<1>1. [rg EXCEPT !.Ev_read = r, !.Events = n] = [[rg EXCEPT !.Ev_read = r] EXCEPT !.Events = n]
  OBVIOUS
<1>2. /\ [rg EXCEPT !.Ev_read = r] \in TypedRings
      /\ [rg EXCEPT !.Ev_read = r].Ev_read = r /\ [rg EXCEPT !.Ev_read = r].Ev_write = rg.Ev_write
  BY RingUpdates DEF TypedRings
<1> DEFINE a == [rg EXCEPT !.Ev_read = r]
<1> HIDE DEF a
<1>3. \A x : x \in TypedRings => /\ [x EXCEPT !.Events = n].Ev_read = x.Ev_read
                               /\ [x EXCEPT !.Events = n].Ev_write = x.Ev_write
  BY RingUpdates DEF TypedRings
<1> QED
  BY <1>1, <1>2, <1>3
Wrote(rg, E, w, n) == [rg EXCEPT !.Event = E, !.Ev_write = w, !.Events = n]
LEMMA WriteUpdated ==
  ASSUME NEW rg \in TypedRings, NEW E \in [0 .. MaxEvents - 1 -> Events \union {NoEvent}],
         NEW w \in 0 .. MaxEvents - 1, NEW n \in Shorts
  PROVE  LET x == Wrote(rg, E, w, n)
         IN  /\ x \in TypedRings /\ x.Event = E /\ x.Ev_write = w /\ x.Events = n
             /\ x.Ev_read = rg.Ev_read
<1>1. Wrote(rg, E, w, n) = [[[rg EXCEPT !.Event = E] EXCEPT !.Ev_write = w] EXCEPT !.Events = n]
  BY DEF Wrote
<1>2. \A x \in TypedRings : /\ [x EXCEPT !.Event = E] \in TypedRings /\ [x EXCEPT !.Event = E].Event = E
                            /\ [x EXCEPT !.Event = E].Ev_read = x.Ev_read
  BY RingUpdates DEF TypedRings
<1>3. \A x \in TypedRings : /\ [x EXCEPT !.Ev_write = w] \in TypedRings
                            /\ [x EXCEPT !.Ev_write = w].Event = x.Event
                            /\ [x EXCEPT !.Ev_write = w].Ev_read = x.Ev_read
                            /\ [x EXCEPT !.Ev_write = w].Ev_write = w
  BY RingUpdates DEF TypedRings
<1>4. \A x \in TypedRings : /\ [x EXCEPT !.Events = n] \in TypedRings /\ [x EXCEPT !.Events = n].Events = n
                            /\ [x EXCEPT !.Events = n].Event = x.Event
                            /\ [x EXCEPT !.Events = n].Ev_read = x.Ev_read
                            /\ [x EXCEPT !.Events = n].Ev_write = x.Ev_write
  BY RingUpdates DEF TypedRings
<1> DEFINE a == [rg EXCEPT !.Event = E]  b == [a EXCEPT !.Ev_write = w]
<1>5. a \in TypedRings /\ a.Event = E /\ a.Ev_read = rg.Ev_read
  BY <1>2
<1> HIDE DEF a
<1>6. b \in TypedRings /\ b.Event = E /\ b.Ev_read = rg.Ev_read /\ b.Ev_write = w
  BY <1>3, <1>5
<1> HIDE DEF b
<1> QED
  BY <1>1, <1>4, <1>6 DEF a, b

\* Every slot is some number of steps ahead of a slot, once around at most.
LEMMA LastExists ==
  ASSUME NEW r \in 0 .. MaxEvents - 1, NEW w \in 0 .. MaxEvents - 1
  PROVE  \E last \in 1 .. MaxEvents : \A k \in 1 .. MaxEvents : Slot(r, k) = w <=> k = last
<1>1. MaxEvents \in Nat \ {0}
  BY SizeAssumption
<1> DEFINE l == IF w > r THEN w - r ELSE w - r + MaxEvents
<1>2. l \in 1 .. MaxEvents
  BY <1>1
<1>3. \A k \in 1 .. MaxEvents : Slot(r, k) = w <=> k = l
  BY <1>1 DEF Slot
<1> QED
  BY <1>2, <1>3

\* When it walks through all slots, the ring is empty afterwards.
LEMMA RemoveAround ==
  ASSUME NEW rg \in TypedRings, NEW win, rg.Events # 0,
         \A k \in 0 .. MaxEvents : k # rg.Events /\ For(rg, win, rg.Ev_read, k)
  PROVE  Remove(rg, win) \in TypedRings /\ Remove(rg, win).Events = 0
<1> DEFINE stop == {k \in 0 .. MaxEvents : k = rg.Events \/ ~(rg.Event[Slot(rg.Ev_read, k)].win = win)}
           r == (rg.Ev_read + (rg.Events % 65536)) % MaxEvents
<1>1. stop = {}
  BY DEF For
<1>2. Remove(rg, win) = [rg EXCEPT !.Ev_read = r, !.Events = 0]
  <2> DEFINE F(q, k) == rg.Event[Slot(q, k)].win = win
             s == CHOOSE k \in stop : \A h \in stop : k <= h
             q == Slot(rg.Ev_read, s)
             last == CHOOSE k \in 1 .. MaxEvents : Slot(q, k) = rg.Ev_write
             hits == {k \in 1 .. last - 1 : F(q, k)}
             first == CHOOSE k \in hits : \A h \in hits : k <= h
             kept == (first .. last - 1) \ hits
             To(k) == Slot(q, first + Cardinality({h \in kept : h < k}))
             skipped == [rg EXCEPT !.Ev_read = q, !.Events = Short(@ - s)]
             moved == [skipped EXCEPT
               !.Event = [i \in DOMAIN @ |->
                  IF \E k \in kept : To(k) = i
                  THEN @[Slot(q, CHOOSE k \in kept : To(k) = i)] ELSE @[i]],
               !.Ev_write = Slot(q, first + Cardinality(kept)),
               !.Events = Short(@ - Cardinality(kept))]
             around == [rg EXCEPT !.Ev_read = (@ + (rg.Events % 65536)) % MaxEvents, !.Events = 0]
  <2>1. Remove(rg, win) =
          IF rg.Events = 0 THEN rg
          ELSE IF stop = {} THEN around
          ELSE IF s = rg.Events \/ hits = {} THEN skipped
          ELSE moved
    BY DEF Remove
  <2>2. around = [rg EXCEPT !.Ev_read = r, !.Events = 0]
    OBVIOUS
  <2> HIDE DEF stop, around, moved, skipped, s, hits
  <2> QED
    BY <1>1, <2>1, <2>2
<1>3. r \in 0 .. MaxEvents - 1
  <2>1. MaxEvents \in Nat \ {0} /\ rg.Ev_read \in Int /\ rg.Events \in Int
    BY SizeAssumption, RingUpdates, ShortsAre
  <2>2. rg.Events % 65536 \in Int
    BY <2>1
  <2>3. rg.Ev_read + (rg.Events % 65536) \in Int
    BY <2>1, <2>2
  <2>4. \A n \in Int : n % MaxEvents \in 0 .. MaxEvents - 1
    BY <2>1
  <2> QED
    BY <2>3, <2>4
<1>4. 0 \in Shorts
  BY ShortsAre
<1> HIDE DEF r
<1>5. /\ [rg EXCEPT !.Ev_read = r, !.Events = 0] \in TypedRings
      /\ [rg EXCEPT !.Ev_read = r, !.Events = 0].Events = 0
  BY <1>3, <1>4, ReadUpdated
<1> QED
  BY <1>2, <1>5

\* Otherwise the walk over the oldest events ends at a slot that is not for the window.
LEMMA WalkEnds ==
  ASSUME NEW rg, NEW win, ~\A k \in 0 .. MaxEvents : k # rg.Events /\ For(rg, win, rg.Ev_read, k)
  PROVE  \E s \in 0 .. MaxEvents :
           /\ \A k \in 0 .. s - 1 : k # rg.Events /\ For(rg, win, rg.Ev_read, k)
           /\ s = rg.Events \/ ~For(rg, win, rg.Ev_read, s)
<1> DEFINE P(k) == k # rg.Events /\ For(rg, win, rg.Ev_read, k)
           S == {k \in 0 .. MaxEvents : ~P(k)}
<1> HIDE DEF P
<1>1. S \in SUBSET Nat /\ S # {}
  BY DEF P
<1>2. PICK s \in S : \A h \in S : s <= h
  BY <1>1, LeastExists
<1>3. \A k \in 0 .. s - 1 : P(k)
  <2>1. \A k \in 0 .. s - 1 : k \in 0 .. MaxEvents /\ ~(s <= k)
    BY SizeAssumption
  <2> QED
    BY <1>2, <2>1
<1> QED
  BY <1>2, <1>3 DEF P

\* What is kept behind the first event that is dropped.
LEMMA KeptBound ==
  ASSUME NEW rg, NEW win, NEW r, NEW last \in 1 .. MaxEvents, NEW first \in Hits(rg, win, r, last)
  PROVE  LET kept == Kept(rg, win, r, first, last)
         IN  /\ first \in 1 .. last - 1 /\ kept \subseteq first + 1 .. last - 1
             /\ IsFiniteSet(kept) /\ Cardinality(kept) \in 0 .. last - 1 - first
<1> DEFINE kept == Kept(rg, win, r, first, last)
<1>1. first \in 1 .. last - 1 /\ last \in Int
  BY SizeAssumption DEF Hits
<1>2. kept \subseteq first + 1 .. last - 1
  BY <1>1 DEF Kept
<1> HIDE DEF kept
<1>3. /\ IsFiniteSet(first + 1 .. last - 1) /\ Cardinality(first + 1 .. last - 1) = last - 1 - first
  <2>1. first + 1 \in Int /\ last - 1 \in Int
    BY <1>1
  <2>2. (IF first + 1 > last - 1 THEN 0 ELSE last - 1 - (first + 1) + 1) = last - 1 - first
    BY <1>1
  <2> QED
    BY <2>1, <2>2, FS_Interval
<1>4. IsFiniteSet(kept) /\ Cardinality(kept) <= last - 1 - first
  <2> DEFINE I == first + 1 .. last - 1
  <2>1. kept \in SUBSET I /\ IsFiniteSet(I) /\ Cardinality(I) = last - 1 - first
    BY <1>2, <1>3
  <2> HIDE DEF I
  <2>2. IsFiniteSet(kept) /\ Cardinality(kept) <= Cardinality(I)
    BY <2>1, FS_Subset
  <2> QED
    BY <2>1, <2>2
<1>5. Cardinality(kept) \in Nat
  BY <1>4, FS_CardinalityType
<1>6. Cardinality(kept) \in 0 .. last - 1 - first
  BY <1>1, <1>4, <1>5
<1> QED
  BY <1>1, <1>2, <1>4, <1>6 DEF kept

\* What has moved are events, too.
LEMMA DownTyped ==
  ASSUME NEW rg \in TypedRings, NEW r \in 0 .. MaxEvents - 1, NEW first,
         NEW K \in SUBSET (1 .. MaxEvents - 1)
  PROVE  Down(rg, r, first, K) \in [0 .. MaxEvents - 1 -> Events \union {NoEvent}]
<1> DEFINE P(k) == Place(r, first, K, k)
<1>1. rg.Event \in [0 .. MaxEvents - 1 -> Events \union {NoEvent}]
  BY RingUpdates
<1>2. \A k \in K : Slot(r, k) \in 0 .. MaxEvents - 1
  <2>1. \A k \in 1 .. MaxEvents - 1 : k \in 0 .. MaxEvents - 1
    BY SizeAssumption
  <2>2. \A k \in 0 .. MaxEvents - 1 : Slot(r, k) \in 0 .. MaxEvents - 1
    BY SlotNext
  <2> QED
    BY <2>1, <2>2
<1> HIDE DEF P
<1>3. \A i : (\E k \in K : P(k) = i) => (CHOOSE k \in K : P(k) = i) \in K
  OBVIOUS
<1>4. Down(rg, r, first, K) =
        [i \in 0 .. MaxEvents - 1 |->
           IF \E k \in K : P(k) = i THEN rg.Event[Slot(r, CHOOSE k \in K : P(k) = i)] ELSE rg.Event[i]]
  BY <1>1 DEF Down, P
<1> QED
  BY <1>1, <1>2, <1>3, <1>4

\* Whatever the count was, _wremove_events() leaves it and the indices of their type.
LEMMA RemoveTyped ==
  ASSUME NEW rg \in TypedRings, NEW win
  PROVE  Remove(rg, win) \in TypedRings
<1>1. MaxEvents \in Nat \ {0}
  BY SizeAssumption
<1>2. CASE rg.Events = 0
  BY <1>2 DEF Remove
<1>3. CASE rg.Events # 0 /\ \A k \in 0 .. MaxEvents : k # rg.Events /\ For(rg, win, rg.Ev_read, k)
  BY <1>3, RemoveAround
<1>4. CASE rg.Events # 0 /\ ~\A k \in 0 .. MaxEvents : k # rg.Events /\ For(rg, win, rg.Ev_read, k)
  <2>1. PICK s \in 0 .. MaxEvents :
           /\ \A k \in 0 .. s - 1 : k # rg.Events /\ For(rg, win, rg.Ev_read, k)
           /\ s = rg.Events \/ ~For(rg, win, rg.Ev_read, s)
    BY <1>4, WalkEnds
  <2> DEFINE r == Slot(rg.Ev_read, s)
  <2>2. r \in 0 .. MaxEvents - 1 /\ rg.Ev_write \in 0 .. MaxEvents - 1 /\ rg.Events \in Int
    <3>1. rg.Ev_read \in 0 .. MaxEvents - 1 /\ rg.Ev_write \in 0 .. MaxEvents - 1 /\ rg.Events \in Int
      BY RingUpdates, ShortsAre
    <3> QED
      BY <1>1, <3>1 DEF Slot
  <2>3. PICK last \in 1 .. MaxEvents : \A k \in 1 .. MaxEvents : Slot(r, k) = rg.Ev_write <=> k = last
    BY <2>2, LastExists
  <2> DEFINE hits == Hits(rg, win, r, last)
             skipped == [rg EXCEPT !.Ev_read = r, !.Events = Short(@ - s)]
             n == Short(rg.Events - s)
  <2>4. skipped \in TypedRings /\ skipped.Events = n /\ skipped.Event = rg.Event /\ n \in Int
    <3>1. n \in Shorts /\ n \in Int
      BY <2>2, ShortKeeps
    <3>2. skipped = [rg EXCEPT !.Ev_read = r, !.Events = n]
      OBVIOUS
    <3> HIDE DEF n, r, skipped
    <3>3. /\ [rg EXCEPT !.Ev_read = r, !.Events = n] \in TypedRings
          /\ [rg EXCEPT !.Ev_read = r, !.Events = n].Events = n
          /\ [rg EXCEPT !.Ev_read = r, !.Events = n].Event = rg.Event
      <4>1. \A x \in 0 .. MaxEvents - 1, y \in Shorts :
              /\ [rg EXCEPT !.Ev_read = x, !.Events = y] \in TypedRings
              /\ [rg EXCEPT !.Ev_read = x, !.Events = y].Events = y
              /\ [rg EXCEPT !.Ev_read = x, !.Events = y].Event = rg.Event
        BY ReadUpdated
      <4> QED
        BY <2>2, <3>1, <4>1
    <3> QED
      BY <3>1, <3>2, <3>3
  <2>5. CASE s = rg.Events \/ hits = {}
    <3>1. Remove(rg, win) = skipped
      BY <1>4, <2>1, <2>3, <2>5, RemoveIs
    <3> QED
      BY <2>4, <3>1
  <2>6. CASE s # rg.Events /\ hits # {}
    <3> DEFINE kept(first) == Kept(rg, win, r, first, last)
               moved(first) == [skipped EXCEPT !.Event = Down(rg, r, first, kept(first)),
                                !.Ev_write = Slot(r, first + Cardinality(kept(first))),
                                !.Events = Short(@ - Cardinality(kept(first)))]
    <3>1. PICK first \in hits : Remove(rg, win) = moved(first)
      BY <1>4, <2>1, <2>3, <2>6, RemoveIs
    <3> DEFINE c == Cardinality(kept(first))
    <3>2. first \in 1 .. last - 1 /\ kept(first) \subseteq first + 1 .. last - 1 /\ c \in 0 .. last - 1 - first
      BY KeptBound
    <3>3. Down(rg, r, first, kept(first)) \in [0 .. MaxEvents - 1 -> Events \union {NoEvent}]
      <4>1. kept(first) \in SUBSET (1 .. MaxEvents - 1)
        BY <1>1, <3>2
      <4> HIDE DEF kept, r
      <4> QED
        BY <2>2, <4>1, DownTyped
    <3>4. Slot(r, first + c) \in 0 .. MaxEvents - 1
      <4>1. first + c \in 0 .. MaxEvents - 1
        BY <1>1, <3>2
      <4> QED
        BY <2>2, <4>1, SlotNext
    <3>5. Short(n - c) \in Shorts
      <4>1. n - c \in Int
        BY <2>4, <3>2
      <4> QED
        BY <4>1, ShortKeeps
    <3>6. moved(first) = [skipped EXCEPT !.Event = Down(rg, r, first, kept(first)),
                            !.Ev_write = Slot(r, first + c), !.Events = Short(n - c)]
      BY <2>4
    <3> DEFINE E == Down(rg, r, first, kept(first))  w == Slot(r, first + c)  m == Short(n - c)
    <3>7. moved(first) = [skipped EXCEPT !.Event = E, !.Ev_write = w, !.Events = m]
      BY <3>6
    <3>8. E \in [0 .. MaxEvents - 1 -> Events \union {NoEvent}] /\ w \in 0 .. MaxEvents - 1 /\ m \in Shorts
      BY <3>3, <3>4, <3>5
    <3> HIDE DEF skipped, moved, E, w, m
    <3>9. Wrote(skipped, E, w, m) \in TypedRings
      BY <2>4, <3>8, WriteUpdated
    <3> QED
      BY <3>1, <3>7, <3>9 DEF Wrote
  <2> QED
    BY <2>5, <2>6
<1> QED
  BY <1>2, <1>3, <1>4

LEMMA PopTyped ==
  ASSUME NEW rg \in TypedRings
  PROVE  Pop(rg) \in TypedRings /\ (rg.Events > 0 => Pop(rg).Events + 1 = rg.Events)
<1>1. CASE rg.Events = 0
  BY <1>1 DEF Pop
<1>2. CASE rg.Events # 0
  <2> DEFINE r == Succ(rg.Ev_read)  n == Short(rg.Events - 1)
  <2>1. rg.Events \in Int /\ -32768 <= rg.Events /\ rg.Events <= 32767
    BY RingUpdates, ShortsAre
  <2>2. r \in 0 .. MaxEvents - 1
    <3>1. rg.Ev_read \in 0 .. MaxEvents - 1 /\ 0 \in 0 .. MaxEvents - 1
      BY RingUpdates, SizeAssumption
    <3> QED
      BY <3>1, SlotNext
  <2>3. n \in Shorts /\ (rg.Events > 0 => n = rg.Events - 1)
    BY <2>1, ShortKeeps
  <2>4. Pop(rg) = [rg EXCEPT !.Ev_read = r, !.Events = n]
    BY <1>2 DEF Pop
  <2> HIDE DEF r, n
  <2>5. /\ [rg EXCEPT !.Ev_read = r, !.Events = n] \in TypedRings
        /\ [rg EXCEPT !.Ev_read = r, !.Events = n].Events = n
    BY <2>2, <2>3, ReadUpdated
  <2> QED
    BY <2>1, <2>3, <2>4, <2>5
<1> QED
  BY <1>1, <1>2

LEMMA PushTyped ==
  ASSUME NEW rg \in TypedRings, NEW e \in Events
  PROVE  Push(rg, e) \in TypedRings
<1> DEFINE stored == [rg EXCEPT !.Event = [@ EXCEPT ![rg.Ev_write] = e]]
           put == [stored EXCEPT !.Ev_write = Succ(@)]
           room == IF put.Events >= MaxEvents THEN Pop(put) ELSE put
<1>1. stored \in TypedRings /\ stored.Events = rg.Events
  BY RingUpdates DEF TypedRings
<1> HIDE DEF stored
<1>2. put \in TypedRings /\ put.Events = rg.Events
  <2>1. stored.Ev_write \in 0 .. MaxEvents - 1 /\ 0 \in 0 .. MaxEvents - 1
    BY <1>1, RingUpdates, SizeAssumption
  <2>2. Succ(stored.Ev_write) \in 0 .. MaxEvents - 1
    BY <2>1, SlotNext
  <2> QED
    BY <1>1, <2>2, RingUpdates DEF TypedRings
<1> HIDE DEF put
<1>3. MaxEvents \in Nat \ {0} /\ MaxEvents < 32768
  BY SizeAssumption
<1>4. rg.Events \in Int /\ -32768 <= rg.Events /\ rg.Events <= 32767
  BY RingUpdates, ShortsAre
<1>5. room \in TypedRings /\ room.Events + 1 \in Shorts
  <2>1. CASE put.Events >= MaxEvents
    <3>1. room = Pop(put) /\ put.Events > 0
      BY <1>2, <1>3, <1>4, <2>1
    <3>2. room \in TypedRings /\ room.Events + 1 = put.Events
      BY <1>2, <3>1, PopTyped
    <3> QED
      BY <1>2, <3>2, RingUpdates
  <2>2. CASE ~(put.Events >= MaxEvents)
    <3>1. room = put
      BY <2>2
    <3>2. rg.Events + 1 \in Int /\ -32768 <= rg.Events + 1 /\ rg.Events + 1 <= 32767
      BY <1>2, <1>3, <1>4, <2>2
    <3> QED
      BY <1>2, <3>1, <3>2, ShortsAre
  <2> QED
    BY <2>1, <2>2
<1> HIDE DEF room
<1>6. [room EXCEPT !.Events = @ + 1] \in TypedRings
  BY <1>5, RingUpdates
<1>7. Push(rg, e) = [room EXCEPT !.Events = @ + 1]
  BY DEF Push, room, put, stored
<1> QED
  BY <1>6, <1>7

-----------------------------------------------------------------------------
(* The types.                                                              *)

\* What TypeOK says beyond Typed.
Rest ==
  /\ pc \in {"app", "flush", "select", "parse", "aborted"}
  /\ goal \in {"none", "reply", "poll", "wait"}
  /\ Len(out) <= OutSize /\ Len(toServer) <= SocketSize /\ Len(toClient) <= SocketSize
  /\ ring \in TypedRings /\ got \in Events \union {NoEvent}

\* The lengths of a queue after one operation on it.
LEMMA Lengths ==
  ASSUME NEW S, NEW s \in Seq(S)
  PROVE  /\ Len(s) \in Nat /\ (s # <<>> => Len(Tail(s)) = Len(s) - 1)
         /\ \A e \in S : Len(Append(s, e)) = Len(s) + 1
         /\ \A k \in 1 .. Len(s) : Len(SubSeq(s, k + 1, Len(s))) = Len(s) - k
         /\ \A t \in Seq(S) : Len(s \o t) = Len(s) + Len(t)
BY LenProperties, EmptySeq, HeadTailProperties, AppendProperties, ConcatProperties, SubSeqProperties

LEMMA RestKept ==
  ASSUME Inv, Rest, [Next]_vars
  PROVE  Rest'
<1> USE DEF server
<1>1. Typed /\ {OutSize, SocketSize} \subseteq Nat \ {0}
  BY SizeAssumption DEF Inv
<1>2. CASE UNCHANGED vars
  BY <1>2 DEF vars, library, Rest, TypedRings
<1>3. ASSUME NEW c \in Call \union {Draw}, Len(out) < OutSize, out' = Append(out, c)
      PROVE  Len(out') <= OutSize
  <2>1. Len(out') = Len(out) + 1 /\ Len(out) \in Nat
    BY <1>1, <1>3, Lengths DEF Typed
  <2> QED
    BY <1>1, <1>3, <2>1
<1>4. CASE Request
  BY <1>3, <1>4 DEF Request, Rest, TypedRings
<1>5. CASE Flush
  BY <1>5 DEF Flush, Rest, TypedRings
<1>6. ASSUME NEW c \in Call, Await(c) PROVE Rest'
  BY <1>3, <1>6 DEF Await, Rest, TypedRings
<1>7. CASE Await(Query) \/ DeleteWindow
  BY <1>1, <1>6, <1>7 DEF DeleteWindow, Call, Typed
<1>8. ASSUME NEW t \in Timeouts, QueryEvent(t) PROVE Rest'
  BY <1>8, TimeoutAssumption DEF QueryEvent, Rest, TypedRings
<1>9. CASE WriteOut
  <2>1. /\ out # <<>> /\ Head(out) \in Call \union {Draw}
        /\ Len(out') = Len(out) - 1 /\ Len(toServer') = Len(toServer) + 1
        /\ Len(out) \in Nat /\ Len(toServer) \in Nat
    BY <1>1, <1>9, Lengths, HeadTailProperties DEF WriteOut, Typed
  <2>2. Len(out') <= OutSize /\ Len(toServer') <= SocketSize
    BY <1>1, <1>9, <2>1 DEF WriteOut, Rest
  <2> QED
    BY <1>9, <2>2 DEF WriteOut, Rest, TypedRings
<1>10. CASE FlushDone
  BY <1>10 DEF FlushDone, Rest, TypedRings
<1>11. CASE SelectRead
  <2>1. PICK k \in 1 .. Len(toClient) : toClient' = SubSeq(toClient, k + 1, Len(toClient))
    BY <1>11 DEF SelectRead
  <2>2. Len(toClient') = Len(toClient) - k /\ Len(toClient) \in Nat
    BY <1>1, <2>1, Lengths DEF Typed
  <2>3. Len(toClient') <= SocketSize
    BY <1>1, <2>2 DEF Rest
  <2> QED
    BY <1>11, <2>3 DEF SelectRead, Rest, TypedRings
<1>12. CASE SelectTimeout
  BY <1>12 DEF SelectTimeout, Rest, TypedRings
<1>13. CASE ParseEvent
  <2>1. Head(ibuf) \in Packet
    BY <1>1, <1>13, HeadTailProperties DEF ParseEvent, Typed
  <2>2. Head(ibuf) \in Events
    BY <1>13, <2>1, PacketKinds DEF ParseEvent
  <2>3. ring' \in TypedRings
    BY <1>13, <2>2, PushTyped DEF ParseEvent, Rest
  <2> QED
    BY <1>13, <2>3 DEF ParseEvent, Rest, TypedRings
<1>14. CASE ParseReply
  <2>1. ring' \in TypedRings
    BY <1>14, RemoveTyped DEF ParseReply, Rest
  <2>2. pc' \in {"app", "aborted"}
    BY <1>14 DEF ParseReply
  <2> QED
    BY <1>14, <2>1, <2>2 DEF ParseReply, Rest, TypedRings
<1>15. CASE ParseEnd
  <2>1. ring' \in TypedRings
    BY <1>15, PopTyped DEF ParseEnd, Rest
  <2>2. got' \in Events \union {NoEvent} /\ pc' \in {"app", "select"}
    BY <1>15, RingUpdates DEF ParseEnd, Rest
  <2> QED
    BY <1>15, <2>1, <2>2 DEF ParseEnd, Rest, TypedRings
<1>16. CASE Serve
  <2>1. Len(toServer') = Len(toServer) - 1 /\ Len(toServer) \in Nat
    BY <1>1, <1>16, Lengths DEF Serve, Typed
  <2>2. Len(toServer') <= SocketSize
    BY <1>1, <2>1 DEF Rest
  <2> QED
    BY <1>16, <2>2 DEF Serve, library, Rest, TypedRings
<1>17. CASE WriteToClient
  <2>1. /\ Len(toClient') = Len(toClient) + Len(writing) /\ Len(toClient) \in Nat
        /\ Len(writing) \in Nat /\ Len(writing) <= 1
    BY <1>1, <1>17, Lengths DEF WriteToClient, Typed
  <2>2. Len(toClient') <= SocketSize
    BY <1>1, <1>17, <2>1 DEF WriteToClient
  <2> QED
    BY <1>17, <2>2 DEF WriteToClient, library, Rest, TypedRings
<1>18. ASSUME NEW w \in Window, Input(w) PROVE Rest'
  BY <1>18 DEF Input, library, Rest, TypedRings
<1> QED
  BY <1>2, <1>4, <1>5, <1>7, <1>8, <1>9, <1>10, <1>11, <1>12, <1>13, <1>14, <1>15, <1>16, <1>17, <1>18
  DEF Next, Application, Library, Server

\* Count and indices of the ring stay what a short and a slot can be, however many
\* windows are deleted and however wrong _wremove_events() counts; the buffer for
\* requests and the sockets keep their sizes.
THEOREM TypeCorrect == Spec => []TypeOK
<1>1. Init => Rest
  <2> SUFFICES ASSUME Init PROVE Rest
    OBVIOUS
  <2>1. MaxEvents \in Nat \ {0} /\ OutSize \in Nat /\ SocketSize \in Nat
    BY SizeAssumption
  <2>2. 0 \in 0 .. MaxEvents - 1 /\ 0 \in Shorts
    BY <2>1, ShortsAre
  <2>3. ring \in TypedRings
    BY <2>2 DEF Init, TypedRings
  <2>4. Len(out) = 0 /\ Len(toServer) = 0 /\ Len(toClient) = 0
    BY DEF Init
  <2> QED
    BY <2>1, <2>3, <2>4 DEF Init, Rest
<1>2. Rest /\ Inv /\ [Next]_vars => Rest'
  BY RestKept
<1>3. Inv /\ Rest => TypeOK
  BY DEF Inv, Typed, Rest, TypedRings, TypeOK
<1> QED
  BY <1>1, <1>2, <1>3, InvCorrect, PTL DEF Spec

-----------------------------------------------------------------------------
(* What _wremove_events() does to a ring that is right.                    *)

\* In a queue of events: those for the window that are not among the oldest, which
\* are dropped, and the others behind the first of them, which move.
Dropped(q, win) == {k \in DOMAIN q : q[k].win = win /\ \E j \in 1 .. k - 1 : q[j].win # win}
Moved(q, win) == {k \in DOMAIN q : q[k].win # win /\ \E j \in 1 .. k - 1 : j \in Dropped(q, win)}

\* The loop counts the events it moves instead of those it drops: the count is right
\* if there are as many of them.
Balanced(q, win) == Cardinality(Dropped(q, win)) = Cardinality(Moved(q, win))

\* p is what is left of q without the events for the window, in the same order.
Left(p, q, win) ==
  \E f \in [DOMAIN p -> DOMAIN q] :
    /\ \A j, k \in DOMAIN p : j < k => f[j] < f[k]
    /\ \A k \in DOMAIN p : p[k] = q[f[k]]
    /\ {f[k] : k \in DOMAIN p} = {i \in DOMAIN q : q[i].win # win}

\* The places of the ring.
LEMMA SlotAdd ==
  ASSUME NEW r \in 0 .. MaxEvents - 1, NEW a \in 0 .. MaxEvents, NEW b \in 0 .. MaxEvents,
         a + b <= MaxEvents
  PROVE  Slot(r, a) \in 0 .. MaxEvents - 1 /\ Slot(Slot(r, a), b) = Slot(r, a + b)
<1>1. MaxEvents \in Nat \ {0}
  BY SizeAssumption
<1> QED
  BY <1>1 DEF Slot
LEMMA SlotSame ==
  ASSUME NEW r \in 0 .. MaxEvents - 1, NEW a \in 1 .. MaxEvents, NEW b \in 1 .. MaxEvents
  PROVE  Slot(r, a) = Slot(r, b) <=> a = b
<1>1. MaxEvents \in Nat \ {0}
  BY SizeAssumption
<1> QED
  BY <1>1 DEF Slot

\* Moving a set of numbers does not change how many they are.
LEMMA Shifted ==
  ASSUME NEW S \in SUBSET Int, IsFiniteSet(S), NEW c \in Int
  PROVE  Cardinality({k + c : k \in S}) = Cardinality(S)
<1> DEFINE T == {k + c : k \in S}  f == [k \in S |-> k + c]
<1>1. f \in [S -> T] /\ \A k \in S : f[k] = k + c
  OBVIOUS
<1>2. \A j, k \in S : j + c = k + c => j = k
  OBVIOUS
<1>3. \A t \in T : \E k \in S : f[k] = t
  BY <1>1
<1> HIDE DEF f, T
<1>4. f \in Bijection(S, T)
  BY <1>1, <1>2, <1>3 DEF Bijection, Injection, Surjection, IsInjective
<1>5. ExistsBijection(S, T)
  BY <1>4 DEF ExistsBijection
<1>6. Cardinality(T) = Cardinality(S)
  BY <1>5, FS_Bijection
<1> QED
  BY <1>6 DEF T

\* The oldest events that are skipped, and where the walk ends.
LEMMA SoundWalk ==
  ASSUME NEW rg, Sound(rg), NEW win, rg.Events # 0
  PROVE  \E s \in 0 .. rg.Events :
           /\ \A k \in 0 .. s - 1 : k # rg.Events /\ For(rg, win, rg.Ev_read, k)
           /\ s = rg.Events \/ ~For(rg, win, rg.Ev_read, s)
           /\ \E last \in 1 .. MaxEvents :
                /\ \A k \in 1 .. MaxEvents : Slot(Slot(rg.Ev_read, s), k) = rg.Ev_write <=> k = last
                /\ s # rg.Events => last = rg.Events - s
<1> DEFINE n == rg.Events  rd == rg.Ev_read
<1>1. /\ n \in 1 .. MaxEvents /\ rd \in 0 .. MaxEvents - 1 /\ MaxEvents \in Nat \ {0}
      /\ rg.Ev_write \in 0 .. MaxEvents - 1 /\ rg.Ev_write = Slot(rd, n)
  BY SoundFields
<1>2. PICK s \in 0 .. MaxEvents :
           /\ \A k \in 0 .. s - 1 : k # n /\ For(rg, win, rd, k)
           /\ s = n \/ ~For(rg, win, rd, s)
  <2>1. n \in 0 .. MaxEvents
    BY <1>1
  <2> QED
    BY <2>1, WalkEnds
<1>3. s \in 0 .. n
  <2>1. ~(n \in 0 .. s - 1)
    BY <1>2
  <2> QED
    BY <1>1, <2>1
<1> DEFINE r == Slot(rd, s)
<1>4. r \in 0 .. MaxEvents - 1
  BY <1>1 DEF Slot
<1>5. CASE s = n
  <2>1. \E last \in 1 .. MaxEvents : \A k \in 1 .. MaxEvents : Slot(r, k) = rg.Ev_write <=> k = last
    <3> HIDE DEF r
    <3> QED
      BY <1>1, <1>4, LastExists
  <2> QED
    BY <1>2, <1>3, <1>5, <2>1
<1>6. CASE s # n
  <2>1. n - s \in 1 .. MaxEvents /\ n - s \in 0 .. MaxEvents /\ s + (n - s) = n
    BY <1>1, <1>3, <1>6
  <2>2. Slot(r, n - s) = rg.Ev_write
    <3> DEFINE d == n - s
    <3>1. s + d <= MaxEvents /\ s \in 0 .. MaxEvents /\ d \in 0 .. MaxEvents /\ s + d = n
      BY <1>1, <2>1
    <3> HIDE DEF d
    <3>2. Slot(Slot(rd, s), d) = Slot(rd, s + d)
      BY <1>1, <3>1, SlotAdd
    <3> QED
      BY <1>1, <3>1, <3>2 DEF d
  <2>3. \A k \in 1 .. MaxEvents : Slot(r, k) = rg.Ev_write <=> k = n - s
    <3> HIDE DEF r
    <3> QED
      BY <1>4, <2>1, <2>2, SlotSame
  <2> QED
    BY <1>2, <1>3, <2>1, <2>3
<1> QED
  BY <1>5, <1>6

\* A ring of the right type whose count agrees with its indices is right.
LEMMA TypedSound ==
  ASSUME NEW rg
  PROVE  /\ Sound(rg) => rg \in TypedRings
         /\ rg \in TypedRings => (Sound(rg) <=> /\ rg.Events \in 0 .. MaxEvents
                                                /\ Slot(rg.Ev_read, rg.Events) = rg.Ev_write)
<1>1. \A n \in 0 .. MaxEvents : n \in Shorts
  BY SizeAssumption, ShortsAre
<1> QED
  BY <1>1 DEF Sound, Rings, TypedRings

\* The events of the queue: those that are skipped, and the others seen from behind them.
LEMMA Before ==
  ASSUME NEW rg, Sound(rg), NEW win, NEW s \in 0 .. rg.Events,
         \A k \in 0 .. s - 1 : For(rg, win, rg.Ev_read, k)
  PROVE  DOMAIN Stored(rg) = 1 .. rg.Events /\ \A i \in 1 .. s : Stored(rg)[i].win = win
<1>1. rg.Events \in Nat
  BY SoundFields
<1>2. DOMAIN Stored(rg) = 1 .. rg.Events
  BY DEF Stored
<1>3. \A i \in 1 .. rg.Events : Stored(rg)[i] = rg.Event[Slot(rg.Ev_read, i - 1)]
  BY StoredIs
<1>4. \A i \in 1 .. s : Stored(rg)[i].win = win
  <2> SUFFICES ASSUME NEW i \in 1 .. s PROVE Stored(rg)[i].win = win
    OBVIOUS
  <2>1. i \in 1 .. rg.Events /\ i - 1 \in 0 .. s - 1
    BY <1>1
  <2> QED
    BY <1>3, <2>1 DEF For
<1> QED
  BY <1>2, <1>4
LEMMA Behind ==
  ASSUME NEW rg, Sound(rg), NEW win, NEW s \in 0 .. rg.Events,
         \A k \in 0 .. s - 1 : For(rg, win, rg.Ev_read, k)
  PROVE  LET q == Stored(rg)
             r == Slot(rg.Ev_read, s)
         IN  \A k \in 0 .. rg.Events - s - 1 :
                  q[s + 1 + k] = rg.Event[Slot(r, k)] /\ (q[s + 1 + k].win = win <=> For(rg, win, r, k))
<1> DEFINE q == Stored(rg)  n == rg.Events  rd == rg.Ev_read  r == Slot(rd, s)
<1>1. n \in 0 .. MaxEvents /\ rd \in 0 .. MaxEvents - 1 /\ MaxEvents \in Nat \ {0}
  BY SoundFields
<1>2. /\ q \in Seq(Events \union {NoEvent}) /\ Len(q) = n
      /\ \A i \in 1 .. n : q[i] = rg.Event[Slot(rd, i - 1)]
  BY StoredIs
<1> HIDE DEF q
<1>3. ASSUME NEW k \in 0 .. n - s - 1
      PROVE  q[s + 1 + k] = rg.Event[Slot(r, k)] /\ (q[s + 1 + k].win = win <=> For(rg, win, r, k))
  <2>1. s + 1 + k \in 1 .. n /\ s + 1 + k - 1 = s + k /\ s \in 0 .. MaxEvents /\ k \in 0 .. MaxEvents
        /\ s + k <= MaxEvents
    BY <1>1
  <2>2. Slot(r, k) = Slot(rd, s + k)
    BY <1>1, <2>1, SlotAdd
  <2>3. q[s + 1 + k] = rg.Event[Slot(rd, s + 1 + k - 1)]
    BY <1>2, <2>1
  <2> HIDE DEF r
  <2> QED
    BY <2>1, <2>2, <2>3 DEF For
<1> QED
  BY <1>3 DEF q

\* What is dropped and what moves, in the ring and in the queue.
LEMMA DroppedMoved ==
  ASSUME NEW rg, Sound(rg), NEW win, NEW s \in 0 .. rg.Events,
         \A k \in 0 .. s - 1 : For(rg, win, rg.Ev_read, k),
         s = rg.Events \/ ~For(rg, win, rg.Ev_read, s)
  PROVE  LET q == Stored(rg)
             H == Hits(rg, win, Slot(rg.Ev_read, s), rg.Events - s)
         IN  /\ s = rg.Events \/ H = {} =>
                  /\ Dropped(q, win) = {} /\ Moved(q, win) = {}
                  /\ {i \in DOMAIN q : q[i].win # win} = s + 1 .. rg.Events
             /\ s # rg.Events => Dropped(q, win) = {k + (s + 1) : k \in H}
             /\ s # rg.Events =>
                  \A first \in H : (\A h \in H : first <= h) =>
                    Moved(q, win) =
                      {k + (s + 1) : k \in Kept(rg, win, Slot(rg.Ev_read, s), first, rg.Events - s)}
<1> DEFINE q == Stored(rg)  n == rg.Events  r == Slot(rg.Ev_read, s)  H == Hits(rg, win, r, n - s)
<1>1. /\ DOMAIN q = 1 .. n /\ \A i \in 1 .. s : q[i].win = win
      /\ \A k \in 0 .. n - s - 1 : q[s + 1 + k].win = win <=> For(rg, win, r, k)
  <2>0. DOMAIN Stored(rg) = 1 .. rg.Events /\ \A i \in 1 .. s : Stored(rg)[i].win = win
    BY Before, ZenonT(60)
  <2>1. DOMAIN q = 1 .. n
    BY <2>0
  <2>2. \A i \in 1 .. s : q[i].win = win
    BY <2>0, Zenon
  <2>3. \A k \in 0 .. n - s - 1 :
          q[s + 1 + k] = rg.Event[Slot(r, k)] /\ (q[s + 1 + k].win = win <=> For(rg, win, r, k))
    BY Behind
  <2> HIDE DEF q, n, r
  <2> QED
    BY <2>1, <2>2, <2>3
<1>2. n \in Nat /\ s \in Nat /\ s <= n
  BY SoundFields
<1>3. s # n => s + 1 \in 1 .. n /\ q[s + 1].win # win
  <2> SUFFICES ASSUME s # n PROVE s + 1 \in 1 .. n /\ q[s + 1].win # win
    OBVIOUS
  <2>1. ~For(rg, win, rg.Ev_read, s)
    OBVIOUS
  <2>2. q[s + 1] = rg.Event[Slot(rg.Ev_read, s + 1 - 1)] /\ s + 1 \in 1 .. n /\ s + 1 - 1 = s
    <3>1. s + 1 \in 1 .. n /\ s + 1 - 1 = s
      BY <1>2
    <3> QED
      BY <3>1, StoredIs
  <2> QED
    BY <2>1, <2>2 DEF For
<1> HIDE DEF q, r
<1>4. H = {k \in 1 .. n - s - 1 : For(rg, win, r, k)}
  BY DEF Hits
<1> HIDE DEF H, n
<1>5. Dropped(q, win) = {i \in s + 2 .. n : q[i].win = win}
  <2>1. ASSUME NEW i \in Dropped(q, win) PROVE i \in s + 2 .. n /\ q[i].win = win
    <3>1. i \in 1 .. n /\ q[i].win = win
      BY <1>1 DEF Dropped
    <3>2. PICK j \in 1 .. i - 1 : q[j].win # win
      BY DEF Dropped
    <3>3. ~(j \in 1 .. s)
      BY <1>1, <3>2
    <3> QED
      BY <1>2, <3>1, <3>2, <3>3
  <2>2. ASSUME NEW i \in s + 2 .. n, q[i].win = win PROVE i \in Dropped(q, win)
    <3>1. i \in 1 .. n /\ s # n /\ s + 1 \in 1 .. i - 1
      BY <1>2
    <3> QED
      BY <1>1, <1>3, <2>2, <3>1 DEF Dropped
  <2> QED
    BY <2>1, <2>2
<1>6. s # n => Dropped(q, win) = {k + (s + 1) : k \in H}
  <2> SUFFICES ASSUME s # n PROVE Dropped(q, win) = {k + (s + 1) : k \in H}
    OBVIOUS
  <2>1. ASSUME NEW i \in Dropped(q, win) PROVE i \in {k + (s + 1) : k \in H}
    <3> DEFINE k == i - (s + 1)
    <3>1. i \in s + 2 .. n /\ q[i].win = win
      BY <1>5
    <3>2. k \in 1 .. n - s - 1 /\ k \in 0 .. n - s - 1 /\ s + 1 + k = i /\ k + (s + 1) = i
      BY <1>2, <3>1
    <3> HIDE DEF k
    <3>3. k \in H
      BY <1>1, <1>4, <3>1, <3>2
    <3> QED
      BY <3>2, <3>3
  <2>2. ASSUME NEW k \in H PROVE k + (s + 1) \in Dropped(q, win)
    <3>1. k \in 1 .. n - s - 1 /\ For(rg, win, r, k)
      BY <1>4
    <3>2. k \in 0 .. n - s - 1 /\ k + (s + 1) \in s + 2 .. n /\ k + (s + 1) = s + 1 + k
      BY <1>2, <3>1
    <3> QED
      BY <1>1, <1>5, <3>1, <3>2
  <2> QED
    BY <2>1, <2>2
<1>7. s = n \/ H = {} => /\ Dropped(q, win) = {} /\ Moved(q, win) = {}
                         /\ {i \in DOMAIN q : q[i].win # win} = s + 1 .. n
  <2> SUFFICES ASSUME s = n \/ H = {}
               PROVE  /\ Dropped(q, win) = {} /\ Moved(q, win) = {}
                      /\ {i \in DOMAIN q : q[i].win # win} = s + 1 .. n
    OBVIOUS
  <2>1. Dropped(q, win) = {}
    BY <1>2, <1>5, <1>6
  <2>2. Moved(q, win) = {}
    BY <2>1 DEF Moved
  <2>3. ASSUME NEW i \in s + 1 .. n PROVE i \in 1 .. n /\ q[i].win # win
    <3>1. s # n /\ (i = s + 1 \/ i \in s + 2 .. n) /\ i \in 1 .. n
      BY <1>2
    <3> QED
      BY <1>3, <1>5, <2>1, <3>1
  <2>4. ASSUME NEW i \in 1 .. n, q[i].win # win PROVE i \in s + 1 .. n
    <3>1. ~(i \in 1 .. s)
      BY <1>1, <2>4
    <3> QED
      BY <1>2, <3>1
  <2> QED
    BY <1>1, <2>1, <2>2, <2>3, <2>4
<1>8. ASSUME s # n, NEW first \in H, \A h \in H : first <= h
      PROVE  Moved(q, win) = {k + (s + 1) : k \in Kept(rg, win, r, first, n - s)}
  <2> DEFINE K == Kept(rg, win, r, first, n - s)
  <2>1. K = (first .. n - s - 1) \ H /\ first \in 1 .. n - s - 1
    BY <1>4 DEF Kept, H
  <2> HIDE DEF K
  <2>2. ASSUME NEW i \in Moved(q, win) PROVE i \in {k + (s + 1) : k \in K}
    <3> DEFINE k == i - (s + 1)
    <3>1. i \in 1 .. n /\ q[i].win # win
      BY <1>1 DEF Moved
    <3>2. PICK j \in 1 .. i - 1 : j \in Dropped(q, win)
      BY DEF Moved
    <3>3. PICK h \in H : j = h + (s + 1)
      BY <1>6, <1>8, <3>2
    <3>4. first <= h /\ h \in Int /\ first \in Int
      BY <1>4, <1>8, <2>1
    <3>5. k \in first .. n - s - 1 /\ k \in 0 .. n - s - 1 /\ s + 1 + k = i /\ k + (s + 1) = i
      BY <1>2, <2>1, <3>1, <3>2, <3>3, <3>4
    <3> HIDE DEF k
    <3>6. k \notin H
      BY <1>1, <1>4, <3>1, <3>5
    <3> QED
      BY <2>1, <3>5, <3>6
  <2>3. ASSUME NEW k \in K PROVE k + (s + 1) \in Moved(q, win)
    <3>1. k \in first .. n - s - 1 /\ k \notin H
      BY <2>1
    <3>2. k # first /\ k \in 1 .. n - s - 1 /\ k \in 0 .. n - s - 1 /\ k + (s + 1) \in 1 .. n
          /\ k + (s + 1) = s + 1 + k /\ first + (s + 1) \in 1 .. k + (s + 1) - 1
      BY <1>2, <1>8, <2>1, <3>1
    <3>3. q[k + (s + 1)].win # win
      BY <1>1, <1>4, <3>1, <3>2
    <3>4. first + (s + 1) \in Dropped(q, win)
      BY <1>6, <1>8
    <3> QED
      BY <1>1, <3>2, <3>3, <3>4 DEF Moved
  <2> QED
    BY <2>2, <2>3 DEF K
<1> QED
  BY <1>6, <1>7, <1>8 DEF q, r, H, n

\* How many of a set of numbers are below one of them: that puts the set in order.
LEMMA Ranks ==
  ASSUME NEW K \in SUBSET Nat, IsFiniteSet(K)
  PROVE  LET Rank(k) == Cardinality({h \in K : h < k})
         IN  /\ \A k \in K : Rank(k) \in 0 .. Cardinality(K) - 1
             /\ \A j, k \in K : j < k => Rank(j) < Rank(k)
             /\ \A i \in 0 .. Cardinality(K) - 1 : \E k \in K : Rank(k) = i
<1> DEFINE B(k) == {h \in K : h < k}  Rank(k) == Cardinality(B(k))  c == Cardinality(K)
<1>1. c \in Nat /\ \A k \in K : IsFiniteSet(B(k)) /\ Rank(k) \in Nat
  <2>1. c \in Nat
    BY FS_CardinalityType
  <2>2. ASSUME NEW k \in K PROVE IsFiniteSet(B(k)) /\ Rank(k) \in Nat
    <3>1. B(k) \in SUBSET K
      OBVIOUS
    <3> HIDE DEF B
    <3>2. IsFiniteSet(B(k))
      BY <3>1, FS_Subset
    <3> QED
      BY <3>2, FS_CardinalityType
  <2> QED
    BY <2>1, <2>2
<1>2. ASSUME NEW k \in K, NEW T \in SUBSET K, B(k) \union {k} \subseteq T
      PROVE  IsFiniteSet(T) /\ Rank(k) + 1 <= Cardinality(T)
  <2>1. k \notin B(k) /\ B(k) \union {k} \in SUBSET T
    BY <1>2
  <2> HIDE DEF B
  <2>2. Cardinality(B(k) \union {k}) = Cardinality(B(k)) + 1
    BY <1>1, <2>1, FS_AddElement
  <2>3. IsFiniteSet(T)
    BY FS_Subset
  <2>4. Cardinality(B(k) \union {k}) <= Cardinality(T)
    BY <2>1, <2>3, FS_Subset
  <2> QED
    BY <2>2, <2>3, <2>4
<1>3. \A k \in K : Rank(k) \in 0 .. c - 1
  <2> SUFFICES ASSUME NEW k \in K PROVE Rank(k) \in 0 .. c - 1
    OBVIOUS
  <2>1. B(k) \union {k} \subseteq K
    OBVIOUS
  <2> HIDE DEF B
  <2>2. Rank(k) + 1 <= c
    BY <1>2, <2>1
  <2> HIDE DEF Rank, c
  <2> QED
    BY <1>1, <2>2
<1>4. \A j, k \in K : j < k => Rank(j) < Rank(k)
  <2> SUFFICES ASSUME NEW j \in K, NEW k \in K, j < k PROVE Rank(j) < Rank(k)
    OBVIOUS
  <2>1. B(j) \union {j} \subseteq B(k) /\ B(k) \in SUBSET K
    <3>1. \A h \in K : h < j => h < k
      <4>1. \A h \in Nat : h < j => h < k
        OBVIOUS
      <4> QED
        BY <4>1
    <3> QED
      BY <3>1
  <2> HIDE DEF B
  <2>2. Rank(j) + 1 <= Rank(k)
    BY <1>2, <2>1
  <2> HIDE DEF Rank
  <2> QED
    BY <1>1, <2>2
<1>5. \A i \in 0 .. c - 1 : \E k \in K : Rank(k) = i
  <2> DEFINE T == 0 .. c - 1  f == [k \in K |-> Rank(k)]
  <2> HIDE DEF Rank, c
  <2>1. f \in [K -> T] /\ \A k \in K : f[k] = Rank(k)
    BY <1>3
  <2>2. ASSUME NEW j \in K, NEW k \in K, f[j] = f[k] PROVE j = k
    <3>1. Rank(j) = Rank(k) /\ Rank(j) \in Int /\ Rank(k) \in Int
      BY <1>1, <2>1, <2>2
    <3>2. ~(j < k) /\ ~(k < j)
      BY <1>4, <3>1
    <3> QED
      BY <3>2
  <2>3. IsFiniteSet(T) /\ Cardinality(T) = c
    <3>1. c - 1 \in Int /\ (IF 0 > c - 1 THEN 0 ELSE c - 1 - 0 + 1) = c
      BY <1>1
    <3> QED
      BY <3>1, FS_Interval
  <2> HIDE DEF f, T
  <2>4. f \in Injection(K, T)
    BY <2>1, <2>2 DEF Injection, IsInjective
  <2>5. f \in Surjection(K, T)
    BY <2>3, <2>4, FS_Injection DEF c
  <2>6. \A i \in T : \E k \in K : f[k] = i
    BY <2>5 DEF Surjection
  <2> QED
    BY <2>1, <2>6 DEF T
<1> QED
  BY <1>3, <1>4, <1>5

\* The ring when the oldest events are skipped.
LEMMA Skipped ==
  ASSUME NEW rg, Sound(rg), NEW s \in 0 .. rg.Events
  PROVE  LET r == Slot(rg.Ev_read, s)
             skipped == [rg EXCEPT !.Ev_read = r, !.Events = Short(@ - s)]
         IN  /\ skipped \in TypedRings /\ r \in 0 .. MaxEvents - 1
             /\ skipped.Ev_read = r /\ skipped.Ev_write = rg.Ev_write
             /\ skipped.Events = rg.Events - s /\ skipped.Event = rg.Event
             /\ Slot(r, rg.Events - s) = rg.Ev_write
<1> DEFINE r == Slot(rg.Ev_read, s)  n == rg.Events - s
           skipped == [rg EXCEPT !.Ev_read = r, !.Events = Short(@ - s)]
<1>1. /\ rg.Events \in 0 .. MaxEvents /\ rg.Ev_read \in 0 .. MaxEvents - 1
      /\ rg.Ev_write = Slot(rg.Ev_read, rg.Events) /\ MaxEvents \in Nat \ {0} /\ MaxEvents < 32768
  BY SoundFields, SizeAssumption
<1>2. n \in Shorts /\ Short(n) = n
  <2>1. n \in Int /\ -32768 <= n /\ n <= 32767
    BY <1>1
  <2> HIDE DEF n
  <2> QED
    BY <2>1, ShortsAre, ShortKeeps
<1>3. r \in 0 .. MaxEvents - 1 /\ Slot(r, n) = rg.Ev_write
  <2>1. s \in 0 .. MaxEvents /\ n \in 0 .. MaxEvents /\ s + n <= MaxEvents /\ s + n = rg.Events
    BY <1>1
  <2> HIDE DEF n
  <2> QED
    BY <1>1, <2>1, SlotAdd
<1>4. skipped = [rg EXCEPT !.Ev_read = r, !.Events = n]
  BY <1>2
<1>5. rg \in TypedRings
  BY TypedSound
<1> HIDE DEF r, n, skipped
<1>6. [rg EXCEPT !.Ev_read = r, !.Events = n] \in TypedRings
  BY <1>2, <1>3, <1>5, ReadUpdated
<1>7. [rg EXCEPT !.Ev_read = r, !.Events = n].Events = n /\ [rg EXCEPT !.Ev_read = r, !.Events = n].Event = rg.Event
  BY <1>2, <1>3, <1>5, ReadUpdated
<1>8. /\ [rg EXCEPT !.Ev_read = r, !.Events = n].Ev_read = r
      /\ [rg EXCEPT !.Ev_read = r, !.Events = n].Ev_write = rg.Ev_write
  BY <1>2, <1>3, <1>5, IndicesUpdated
<1>9. /\ skipped \in TypedRings /\ r \in 0 .. MaxEvents - 1
      /\ skipped.Ev_read = r /\ skipped.Ev_write = rg.Ev_write
      /\ skipped.Events = n /\ skipped.Event = rg.Event
      /\ Slot(r, n) = rg.Ev_write
  BY <1>3, <1>4, <1>6, <1>7, <1>8, Zenon
<1> QED
  BY <1>9 DEF r, n, skipped

\* When all events for the window are among the oldest, nothing else changes.
LEMMA RemoveSkips ==
  ASSUME NEW rg, Sound(rg), NEW win, NEW s \in 0 .. rg.Events,
         \A k \in 0 .. s - 1 : For(rg, win, rg.Ev_read, k),
         s = rg.Events \/ ~For(rg, win, rg.Ev_read, s),
         s = rg.Events \/ Hits(rg, win, Slot(rg.Ev_read, s), rg.Events - s) = {}
  PROVE  LET skipped == [rg EXCEPT !.Ev_read = Slot(rg.Ev_read, s), !.Events = Short(@ - s)]
         IN  /\ Sound(skipped) /\ Left(Stored(skipped), Stored(rg), win)
             /\ Balanced(Stored(rg), win)
<1> DEFINE q == Stored(rg)  n == rg.Events - s  r == Slot(rg.Ev_read, s)
           skipped == [rg EXCEPT !.Ev_read = r, !.Events = Short(@ - s)]  p == Stored(skipped)
<1>1. /\ skipped \in TypedRings /\ r \in 0 .. MaxEvents - 1
      /\ skipped.Ev_read = r /\ skipped.Ev_write = rg.Ev_write
      /\ skipped.Events = n /\ skipped.Event = rg.Event /\ Slot(r, n) = rg.Ev_write
  BY Skipped
<1>2. rg.Events \in 0 .. MaxEvents /\ n \in 0 .. MaxEvents /\ s \in Nat /\ rg.Events = s + n
  BY SoundFields
<1>3. /\ Dropped(q, win) = {} /\ Moved(q, win) = {}
      /\ {i \in DOMAIN q : q[i].win # win} = s + 1 .. rg.Events
  BY DroppedMoved
<1>4. DOMAIN q = 1 .. rg.Events
  BY Before
<1>5. \A k \in 0 .. n - 1 : q[s + 1 + k] = rg.Event[Slot(r, k)]
  BY Behind
<1> HIDE DEF skipped, r, n, q
<1>6. Sound(skipped)
  BY <1>1, <1>2, TypedSound
<1>7. DOMAIN p = 1 .. n /\ \A k \in 1 .. n : p[k] = rg.Event[Slot(r, k - 1)]
  <2>1. DOMAIN p = 1 .. n
    BY <1>1 DEF Stored
  <2>2. \A k \in 1 .. skipped.Events : p[k] = skipped.Event[Slot(skipped.Ev_read, k - 1)]
    BY <1>6, StoredIs
  <2> QED
    BY <1>1, <2>1, <2>2
<1> HIDE DEF p
<1>8. \A k \in 1 .. n : p[k] = q[s + k] /\ s + k \in 1 .. rg.Events
  <2> SUFFICES ASSUME NEW k \in 1 .. n PROVE p[k] = q[s + k] /\ s + k \in 1 .. rg.Events
    OBVIOUS
  <2>1. k - 1 \in 0 .. n - 1 /\ s + 1 + (k - 1) = s + k /\ s + k \in 1 .. rg.Events
    BY <1>2
  <2> QED
    BY <1>5, <1>7, <2>1
<1>9. Left(p, q, win)
  <2> DEFINE f == [k \in 1 .. n |-> s + k]
  <2>1. f \in [DOMAIN p -> DOMAIN q] /\ \A k \in DOMAIN p : f[k] = s + k
    BY <1>4, <1>7, <1>8
  <2>2. \A j, k \in DOMAIN p : j < k => f[j] < f[k]
    <3>1. \A j, k \in 1 .. n : j < k => s + j < s + k
      BY <1>2
    <3> HIDE DEF f
    <3> QED
      BY <1>7, <2>1, <3>1
  <2>3. \A k \in DOMAIN p : p[k] = q[f[k]]
    BY <1>7, <1>8, <2>1
  <2>4. {f[k] : k \in DOMAIN p} = s + 1 .. rg.Events
    <3>1. \A i \in s + 1 .. rg.Events : i - s \in 1 .. n /\ s + (i - s) = i
      BY <1>2
    <3>2. \A k \in 1 .. n : s + k \in s + 1 .. rg.Events
      BY <1>2
    <3> HIDE DEF f
    <3>3. ASSUME NEW i \in s + 1 .. rg.Events PROVE i \in {f[k] : k \in DOMAIN p}
      <4>1. i - s \in DOMAIN p /\ f[i - s] = i
        BY <1>7, <2>1, <3>1
      <4> QED
        BY <4>1
    <3>4. ASSUME NEW k \in DOMAIN p PROVE f[k] \in s + 1 .. rg.Events
      BY <1>7, <2>1, <3>2
    <3> QED
      BY <3>3, <3>4
  <2> HIDE DEF f
  <2> QED
    BY <1>3, <2>1, <2>2, <2>3, <2>4 DEF Left
<1>10. Balanced(q, win)
  BY <1>3 DEF Balanced
<1> QED
  BY <1>6, <1>9, <1>10 DEF skipped, r, p, q

\* The ring when s events are skipped and others for the window, from first on, dropped.
Shrunk(rg, win, s, first) ==
  LET r == Slot(rg.Ev_read, s)
      K == Kept(rg, win, r, first, rg.Events - s)
  IN  [[rg EXCEPT !.Ev_read = r, !.Events = Short(@ - s)] EXCEPT
         !.Event = Down(rg, r, first, K), !.Ev_write = Slot(r, first + Cardinality(K)),
         !.Events = Short(@ - Cardinality(K))]

\* When others are dropped, the count is right if as many events move as are dropped.
Counted(rg, win, s, first) ==
  LET r == Slot(rg.Ev_read, s)
      K == Kept(rg, win, r, first, rg.Events - s)
      moved == Shrunk(rg, win, s, first)
      D == Cardinality(Hits(rg, win, r, rg.Events - s))
  IN  /\ moved.Ev_read = r /\ moved.Event = Down(rg, r, first, K)
      /\ moved.Events = first + D
      /\ Balanced(Stored(rg), win) <=> D = Cardinality(K)
      /\ Sound(moved) <=> D = Cardinality(K)
LEMMA RemoveCounts ==
  ASSUME NEW rg, Sound(rg), NEW win, NEW s \in 0 .. rg.Events, NEW first,
         s # rg.Events, ~For(rg, win, rg.Ev_read, s),
         \A k \in 0 .. s - 1 : For(rg, win, rg.Ev_read, k),
         first \in Hits(rg, win, Slot(rg.Ev_read, s), rg.Events - s),
         \A h \in Hits(rg, win, Slot(rg.Ev_read, s), rg.Events - s) : first <= h
  PROVE  Counted(rg, win, s, first)
<1> DEFINE q == Stored(rg)  n == rg.Events - s  r == Slot(rg.Ev_read, s)  H == Hits(rg, win, r, n)
           K == Kept(rg, win, r, first, n)  c == Cardinality(K)  D == Cardinality(H)
           skipped == [rg EXCEPT !.Ev_read = r, !.Events = Short(@ - s)]
           E == Down(rg, r, first, K)
           moved == [skipped EXCEPT !.Event = E, !.Ev_write = Slot(r, first + c), !.Events = Short(@ - c)]
<1>1. /\ skipped \in TypedRings /\ r \in 0 .. MaxEvents - 1
      /\ skipped.Ev_read = r /\ skipped.Ev_write = rg.Ev_write
      /\ skipped.Events = n /\ skipped.Event = rg.Event /\ Slot(r, n) = rg.Ev_write
  BY Skipped
<1>2. rg.Events \in 0 .. MaxEvents /\ n \in 1 .. MaxEvents /\ s \in Nat /\ MaxEvents \in Nat \ {0}
  BY SoundFields
<1>3. rg \in TypedRings
  BY TypedSound
<1>4. first \in H /\ \A h \in H : first <= h
  OBVIOUS
<1>5. Balanced(q, win) <=> Cardinality({k + (s + 1) : k \in H}) = Cardinality({k + (s + 1) : k \in K})
  <2>1. Dropped(q, win) = {k + (s + 1) : k \in H}
    BY DroppedMoved
  <2>2. Moved(q, win) = {k + (s + 1) : k \in K}
    BY DroppedMoved
  <2> HIDE DEF q, H, K
  <2> QED
    BY <2>1, <2>2 DEF Balanced
<1> HIDE DEF n, r, skipped
<1>6. /\ first \in 1 .. n - 1 /\ K \subseteq first + 1 .. n - 1
      /\ IsFiniteSet(K) /\ c \in 0 .. n - 1 - first
  BY <1>2, <1>4, KeptBound
<1>7. H \subseteq first .. n - 1 /\ K = (first .. n - 1) \ H
  <2>1. H \subseteq 1 .. n - 1 /\ n \in Int /\ first \in Int
    BY <1>2, <1>6 DEF Hits
  <2>2. K = (first .. n - 1) \ H
    BY DEF Kept
  <2> HIDE DEF H, K
  <2> QED
    BY <1>4, <2>1, <2>2
<1> HIDE DEF H, K, D, c
<1>8. IsFiniteSet(H) /\ D \in Nat /\ D + c = n - first
  <2> DEFINE I == first .. n - 1
  <2>1. IsFiniteSet(I) /\ Cardinality(I) = n - first
    <3>1. first \in Int /\ n - 1 \in Int /\ (IF first > n - 1 THEN 0 ELSE n - 1 - first + 1) = n - first
      BY <1>2, <1>6
    <3> QED
      BY <3>1, FS_Interval
  <2>2. H \in SUBSET I /\ I \intersect H = H /\ K = I \ H
    BY <1>7
  <2> HIDE DEF I
  <2>3. IsFiniteSet(H)
    BY <2>1, <2>2, FS_Subset
  <2>4. Cardinality(K) = Cardinality(I) - Cardinality(H)
    <3>1. Cardinality(I \ H) = Cardinality(I) - Cardinality(I \intersect H)
      BY <2>1, FS_Difference
    <3> QED
      BY <2>2, <3>1
  <2>5. D \in Nat
    BY <2>3, FS_CardinalityType DEF D
  <2> QED
    BY <1>2, <1>6, <2>1, <2>3, <2>4, <2>5 DEF D, c
<1>9. Balanced(q, win) <=> D = c
  <2>1. H \in SUBSET Int /\ K \in SUBSET Int /\ s + 1 \in Int
    BY <1>2, <1>6, <1>7
  <2>2. Cardinality({k + (s + 1) : k \in H}) = D
    BY <1>8, <2>1, Shifted DEF D
  <2>3. Cardinality({k + (s + 1) : k \in K}) = c
    BY <1>6, <2>1, Shifted DEF c
  <2> QED
    BY <1>5, <2>2, <2>3
<1>10. E \in [0 .. MaxEvents - 1 -> Events \union {NoEvent}]
  <2>1. K \in SUBSET (1 .. MaxEvents - 1)
    BY <1>2, <1>6
  <2> QED
    BY <1>1, <1>3, <2>1, DownTyped
<1> DEFINE w == Slot(r, first + c)  m == first + D
<1>11. first + c \in 1 .. MaxEvents /\ first + c \in 0 .. MaxEvents - 1 /\ m \in 1 .. MaxEvents /\ n - c = m
  BY <1>2, <1>6, <1>8
<1>12. m \in Shorts /\ Short(n - c) = m
  <2>1. m \in Int /\ -32768 <= m /\ m <= 32767
    BY <1>11, SizeAssumption
  <2> HIDE DEF m
  <2> QED
    BY <1>11, <2>1, ShortsAre, ShortKeeps
<1>13. w \in 0 .. MaxEvents - 1
  BY <1>1, <1>11, SlotNext
<1>14. moved = [skipped EXCEPT !.Event = E, !.Ev_write = w, !.Events = m]
  BY <1>1, <1>12
<1>15. Slot(r, m) = w <=> D = c
  <2>1. m = first + c <=> D = c
    BY <1>6, <1>8
  <2> HIDE DEF m
  <2>2. Slot(r, m) = Slot(r, first + c) <=> m = first + c
    BY <1>1, <1>11, SlotSame
  <2> QED
    BY <2>1, <2>2
<1> HIDE DEF w, m, E, moved
<1>16. moved \in TypedRings /\ moved.Event = E /\ moved.Ev_write = w /\ moved.Events = m /\ moved.Ev_read = r
  <2> DEFINE x == Wrote(skipped, E, w, m)
  <2>1. x \in TypedRings /\ x.Event = E /\ x.Ev_write = w /\ x.Events = m /\ x.Ev_read = skipped.Ev_read
    BY <1>1, <1>10, <1>12, <1>13, WriteUpdated
  <2>2. moved = x
    BY <1>14 DEF Wrote
  <2> HIDE DEF x
  <2> QED
    BY <1>1, <2>1, <2>2
<1>18. moved = Shrunk(rg, win, s, first)
  BY DEF Shrunk, moved, skipped, E, K, c, n, r
<1>17. Sound(moved) <=> D = c
  <2>1. Sound(moved) <=> Slot(r, m) = w
    <3>1. m \in 0 .. MaxEvents
      BY <1>11
    <3> QED
      BY <1>16, <3>1, TypedSound
  <2> QED
    BY <1>15, <2>1
<1> HIDE DEF moved
<1> QED
  BY <1>8, <1>9, <1>16, <1>17, <1>18 DEF Counted, m, E, D, c, H, K, r, n, q

\* What moves goes behind what stays, in the same order.
LEMMA Moves ==
  ASSUME NEW rg \in TypedRings, NEW r \in 0 .. MaxEvents - 1, NEW n \in 1 .. MaxEvents,
         NEW first \in 1 .. n - 1, NEW K \in SUBSET (first + 1 .. n - 1), IsFiniteSet(K)
  PROVE  /\ \A k \in 0 .. first - 1 : Down(rg, r, first, K)[Slot(r, k)] = rg.Event[Slot(r, k)]
         /\ \A k \in K : Down(rg, r, first, K)[Place(r, first, K, k)] = rg.Event[Slot(r, k)]
<1> DEFINE Rank(k) == Cardinality({h \in K : h < k})  c == Cardinality(K)  P(k) == Place(r, first, K, k)
           E == Down(rg, r, first, K)
<1>1. K \in SUBSET Nat /\ MaxEvents \in Nat \ {0}
  BY SizeAssumption
<1>2. \A k \in K : Rank(k) \in 0 .. c - 1
  BY <1>1, Ranks
<1>3. \A j, k \in K : j < k => Rank(j) < Rank(k)
  BY <1>1, Ranks
<1>4. c \in Nat /\ c <= n - 1 - first
  <2>1. first + 1 \in Int /\ n - 1 \in Int
        /\ (IF first + 1 > n - 1 THEN 0 ELSE n - 1 - (first + 1) + 1) = n - 1 - first
    BY <1>1
  <2>2. IsFiniteSet(first + 1 .. n - 1) /\ Cardinality(first + 1 .. n - 1) = n - 1 - first
    BY <2>1, FS_Interval
  <2> QED
    BY <2>2, FS_Subset, FS_CardinalityType
<1>5. \A k \in K : P(k) = Slot(r, first + Rank(k))
  BY DEF Place
<1> HIDE DEF Rank, c
<1>6. \A k \in K : first + Rank(k) \in 0 .. MaxEvents - 1 /\ Rank(k) \in Nat
  BY <1>1, <1>2, <1>4
<1>7. \A i \in 0 .. MaxEvents - 1 :
        E[i] = IF \E k \in K : P(k) = i THEN rg.Event[Slot(r, CHOOSE k \in K : P(k) = i)] ELSE rg.Event[i]
  <2>1. DOMAIN rg.Event = 0 .. MaxEvents - 1
    BY RingUpdates
  <2> QED
    BY <2>1 DEF Down
<1> HIDE DEF P, E
<1>8. ASSUME NEW k \in 0 .. first - 1 PROVE E[Slot(r, k)] = rg.Event[Slot(r, k)]
  <2>1. k \in 0 .. MaxEvents - 1
    BY <1>1
  <2>2. Slot(r, k) \in 0 .. MaxEvents - 1
    BY <2>1, SlotNext
  <2>3. ASSUME NEW j \in K PROVE P(j) # Slot(r, k)
    <3>1. first + Rank(j) # k
      BY <1>6
    <3> QED
      BY <1>5, <1>6, <2>1, <3>1, SlotsDiffer
  <2> QED
    BY <1>7, <2>2, <2>3
<1>9. ASSUME NEW k \in K PROVE E[Slot(r, first + Rank(k))] = rg.Event[Slot(r, k)]
  <2> DEFINE i == Slot(r, first + Rank(k))
  <2>1. i \in 0 .. MaxEvents - 1
    BY <1>6, SlotNext
  <2>2. P(k) = i
    BY <1>5
  <2>3. ASSUME NEW j \in K, P(j) = i PROVE j = k
    <3>1. first + Rank(j) = first + Rank(k)
      BY <1>5, <1>6, <2>3, SlotsDiffer
    <3>2. Rank(j) = Rank(k) /\ Rank(j) \in Nat
      BY <1>6, <3>1
    <3>3. ~(j < k) /\ ~(k < j)
      BY <1>3, <3>2
    <3> QED
      BY <1>1, <3>3
  <2> HIDE DEF i
  <2>4. (CHOOSE j \in K : P(j) = i) = k
    BY <2>2, <2>3
  <2>5. E[i] = rg.Event[Slot(r, k)]
    BY <1>7, <2>1, <2>2, <2>4
  <2> QED
    BY <2>5 DEF i
<1>10. \A k \in K : E[P(k)] = rg.Event[Slot(r, k)]
  BY <1>5, <1>9
<1> QED
  BY <1>8, <1>10 DEF P, E

\* When the count is right, what is left is what is not for the window.
LEMMA MovedLeft ==
  ASSUME NEW rg, Sound(rg), NEW win, NEW s \in 0 .. rg.Events,
         s # rg.Events, ~For(rg, win, rg.Ev_read, s),
         \A k \in 0 .. s - 1 : For(rg, win, rg.Ev_read, k),
         NEW first \in Hits(rg, win, Slot(rg.Ev_read, s), rg.Events - s),
         \A h \in Hits(rg, win, Slot(rg.Ev_read, s), rg.Events - s) : first <= h,
         NEW moved, Sound(moved), moved.Ev_read = Slot(rg.Ev_read, s),
         LET K == Kept(rg, win, Slot(rg.Ev_read, s), first, rg.Events - s)
         IN  /\ moved.Event = Down(rg, Slot(rg.Ev_read, s), first, K)
             /\ moved.Events = first + Cardinality(K)
  PROVE  Left(Stored(moved), Stored(rg), win)
<1> DEFINE q == Stored(rg)  p == Stored(moved)  n == rg.Events - s  r == Slot(rg.Ev_read, s)
           H == Hits(rg, win, r, n)  K == Kept(rg, win, r, first, n)  c == Cardinality(K)
           Rank(k) == Cardinality({h \in K : h < k})
<1>1. /\ rg.Events \in 0 .. MaxEvents /\ n \in 1 .. MaxEvents /\ s \in Nat /\ MaxEvents \in Nat \ {0}
      /\ rg.Events = s + n
  BY SoundFields
<1>2. rg \in TypedRings /\ r \in 0 .. MaxEvents - 1
  BY TypedSound, Skipped
<1>3. first \in H /\ \A h \in H : first <= h
  OBVIOUS
<1>4. DOMAIN q = 1 .. rg.Events /\ \A i \in 1 .. s : q[i].win = win
  BY Before
<1>5. \A k \in 0 .. n - 1 : q[s + 1 + k] = rg.Event[Slot(r, k)] /\ (q[s + 1 + k].win = win <=> For(rg, win, r, k))
  BY Behind
<1>6. /\ moved.Ev_read = r /\ moved.Event = Down(rg, r, first, K) /\ moved.Events = first + c
  OBVIOUS
<1>7. ~For(rg, win, r, 0)
  <2>1. Slot(r, 0) = r
    BY <1>1, <1>2 DEF Slot
  <2> QED
    BY <2>1 DEF For
<1> HIDE DEF n, r, q
<1>8. /\ first \in 1 .. n - 1 /\ K \subseteq first + 1 .. n - 1
      /\ IsFiniteSet(K) /\ c \in 0 .. n - 1 - first
  BY <1>1, <1>3, KeptBound
<1>9. H = {k \in 1 .. n - 1 : For(rg, win, r, k)} /\ K = (first .. n - 1) \ H
  BY DEF Hits, Kept
<1> HIDE DEF H, K
<1>10. /\ \A k \in K : Rank(k) \in 0 .. c - 1
       /\ \A j, k \in K : j < k => Rank(j) < Rank(k)
       /\ \A i \in 0 .. c - 1 : \E k \in K : Rank(k) = i
  <2>1. K \in SUBSET Nat
    BY <1>1, <1>8
  <2> QED
    BY <1>8, <2>1, Ranks
<1>11. /\ \A k \in 0 .. first - 1 : moved.Event[Slot(r, k)] = rg.Event[Slot(r, k)]
       /\ \A k \in K : moved.Event[Slot(r, first + Rank(k))] = rg.Event[Slot(r, k)]
  <2>1. K \in SUBSET (first + 1 .. n - 1) /\ IsFiniteSet(K)
    BY <1>8
  <2>2. \A k \in 0 .. first - 1 : Down(rg, r, first, K)[Slot(r, k)] = rg.Event[Slot(r, k)]
    BY <1>1, <1>2, <1>8, <2>1, Moves
  <2>3. \A k \in K : Down(rg, r, first, K)[Place(r, first, K, k)] = rg.Event[Slot(r, k)]
    BY <1>1, <1>2, <1>8, <2>1, Moves
  <2>4. \A k \in K : Place(r, first, K, k) = Slot(r, first + Rank(k))
    BY DEF Place
  <2> HIDE DEF Rank
  <2> QED
    BY <1>6, <2>2, <2>3, <2>4
<1> HIDE DEF c, Rank
<1>12. DOMAIN p = 1 .. first + c /\ \A k \in 1 .. first + c : p[k] = moved.Event[Slot(r, k - 1)]
  <2>1. DOMAIN p = 1 .. moved.Events
    BY DEF Stored
  <2>2. \A k \in 1 .. moved.Events : p[k] = moved.Event[Slot(moved.Ev_read, k - 1)]
    BY StoredIs
  <2> HIDE DEF p
  <2> QED
    BY <1>6, <2>1, <2>2
<1> HIDE DEF p
<1>kept. \A k \in K : k \in Int /\ first < k /\ k <= n - 1 /\ k \in 0 .. n - 1 /\ k \in 1 .. n - 1
  <2>1. \A k \in first + 1 .. n - 1 : k \in Int /\ first < k /\ k <= n - 1 /\ k \in 0 .. n - 1 /\ k \in 1 .. n - 1
    BY <1>1, <1>8
  <2> QED
    BY <1>8, <2>1
<1>13. PICK g \in [0 .. c - 1 -> K] : \A i \in 0 .. c - 1 : Rank(g[i]) = i
  <2> DEFINE g == [i \in 0 .. c - 1 |-> CHOOSE k \in K : Rank(k) = i]
  <2>1. \A i \in 0 .. c - 1 : g[i] \in K /\ Rank(g[i]) = i
    BY <1>10
  <2>2. g \in [0 .. c - 1 -> K]
    BY <2>1
  <2> HIDE DEF g
  <2> QED
    BY <2>1, <2>2
<1> DEFINE f == [k \in 1 .. first + c |-> IF k <= first THEN s + k ELSE s + 1 + g[k - first - 1]]
<1>14. \A k \in 1 .. first : k \in 1 .. first + c /\ f[k] = s + k /\ f[k] \in 1 .. rg.Events /\ p[k] = q[f[k]]
  <2> SUFFICES ASSUME NEW k \in 1 .. first
               PROVE  k \in 1 .. first + c /\ f[k] = s + k /\ f[k] \in 1 .. rg.Events /\ p[k] = q[f[k]]
    OBVIOUS
  <2>1. /\ k \in 1 .. first + c /\ k - 1 \in 0 .. first - 1 /\ k - 1 \in 0 .. n - 1
        /\ s + 1 + (k - 1) = s + k /\ s + k \in 1 .. rg.Events
    BY <1>1, <1>8
  <2>2. f[k] = s + k
    BY <2>1
  <2> HIDE DEF f
  <2>3. p[k] = rg.Event[Slot(r, k - 1)]
    BY <1>11, <1>12, <2>1
  <2>4. q[s + 1 + (k - 1)] = rg.Event[Slot(r, k - 1)]
    BY <1>5, <2>1
  <2> QED
    BY <2>1, <2>2, <2>3, <2>4
<1>15. \A i \in 0 .. c - 1 :
         /\ first + 1 + i \in 1 .. first + c /\ f[first + 1 + i] = s + 1 + g[i]
         /\ f[first + 1 + i] \in 1 .. rg.Events /\ p[first + 1 + i] = q[f[first + 1 + i]]
  <2> SUFFICES ASSUME NEW i \in 0 .. c - 1
               PROVE  /\ first + 1 + i \in 1 .. first + c /\ f[first + 1 + i] = s + 1 + g[i]
                      /\ f[first + 1 + i] \in 1 .. rg.Events /\ p[first + 1 + i] = q[f[first + 1 + i]]
    OBVIOUS
  <2> DEFINE k == first + 1 + i
  <2>1. k \in 1 .. first + c /\ ~(k <= first) /\ k - first - 1 = i /\ k - 1 = first + i
    BY <1>8
  <2>2. g[i] \in K /\ Rank(g[i]) = i
    BY <1>13
  <2>3. g[i] \in 0 .. n - 1 /\ s + 1 + g[i] \in 1 .. rg.Events
    <3>1. g[i] \in 0 .. n - 1
      BY <1>kept, <2>2
    <3> QED
      BY <1>1, <3>1
  <2> HIDE DEF k
  <2>4. f[k] = s + 1 + g[i]
    <3>1. f[k] = s + 1 + g[k - first - 1]
      BY <2>1
    <3> HIDE DEF f
    <3> QED
      BY <2>1, <3>1
  <2> HIDE DEF f
  <2>5. p[k] = moved.Event[Slot(r, first + i)]
    <3>1. p[k] = moved.Event[Slot(r, k - 1)]
      BY <1>12, <2>1
    <3> QED
      BY <2>1, <3>1
  <2>6. moved.Event[Slot(r, first + i)] = rg.Event[Slot(r, g[i])]
    BY <1>11, <2>2
  <2>7. q[s + 1 + g[i]] = rg.Event[Slot(r, g[i])]
    BY <1>5, <2>3
  <2>8. k \in 1 .. first + c /\ f[k] = s + 1 + g[i] /\ f[k] \in 1 .. rg.Events /\ p[k] = q[f[k]]
    BY <2>1, <2>3, <2>4, <2>5, <2>6, <2>7
  <2> QED
    BY <2>8 DEF k
<1> HIDE DEF f
<1>16. \A k \in 1 .. first + c : k \in 1 .. first \/ \E i \in 0 .. c - 1 : k = first + 1 + i
  <2>1. \A k \in 1 .. first + c : k \in 1 .. first \/ (k - first - 1 \in 0 .. c - 1 /\ k = first + 1 + (k - first - 1))
    BY <1>8
  <2> QED
    BY <2>1
<1>17. f \in [DOMAIN p -> DOMAIN q]
  <2>1. \A k \in 1 .. first + c : f[k] \in 1 .. rg.Events
    BY <1>14, <1>15, <1>16
  <2> QED
    BY <1>4, <1>12, <2>1 DEF f
<1>18. \A k \in DOMAIN p : p[k] = q[f[k]]
  BY <1>12, <1>14, <1>15, <1>16
<1>19. \A j, k \in DOMAIN p : j < k => f[j] < f[k]
  <2> SUFFICES ASSUME NEW j \in 1 .. first + c, NEW k \in 1 .. first + c, j < k PROVE f[j] < f[k]
    BY <1>12
  <2>1. CASE k \in 1 .. first
    <3>1. j \in 1 .. first /\ s + j < s + k
      BY <1>1, <1>8, <2>1
    <3> QED
      BY <1>14, <2>1, <3>1
  <2>2. CASE j \in 1 .. first /\ ~(k \in 1 .. first)
    <3>1. PICK i \in 0 .. c - 1 : k = first + 1 + i
      BY <1>16, <2>2
    <3>2. g[i] \in K
      BY <1>13
    <3>3. s + j < s + 1 + g[i]
      <4>1. g[i] \in Int /\ first < g[i]
        BY <1>kept, <3>2
      <4>2. j <= first /\ j \in Int /\ first \in Int /\ s \in Int
        BY <1>1, <1>8, <2>2
      <4> QED
        BY <4>1, <4>2
    <3> QED
      BY <1>14, <1>15, <2>2, <3>1, <3>3
  <2>3. CASE ~(j \in 1 .. first)
    <3>1. ~(k \in 1 .. first)
      BY <1>8, <2>3
    <3>2. PICK i \in 0 .. c - 1 : k = first + 1 + i
      BY <1>16, <3>1
    <3>3. PICK h \in 0 .. c - 1 : j = first + 1 + h
      BY <1>16, <2>3
    <3>4. g[i] \in K /\ g[h] \in K /\ Rank(g[i]) = i /\ Rank(g[h]) = h
      BY <1>13
    <3>5. h < i
      BY <1>8, <3>2, <3>3
    <3>6. ~(g[i] < g[h]) /\ g[i] # g[h]
      BY <1>10, <3>4, <3>5
    <3>7. s + 1 + g[h] < s + 1 + g[i]
      <4>1. g[i] \in Int /\ g[h] \in Int /\ s \in Int
        BY <1>1, <1>kept, <3>4
      <4> QED
        BY <3>6, <4>1
    <3> QED
      BY <1>15, <3>2, <3>3, <3>7
  <2> QED
    BY <2>1, <2>2, <2>3
<1>20. ASSUME NEW k \in DOMAIN p PROVE f[k] \in DOMAIN q /\ q[f[k]].win # win
  <2>1. CASE k \in 1 .. first
    <3>1. k - 1 \in 0 .. n - 1 /\ s + 1 + (k - 1) = s + k /\ k - 1 < first
      BY <1>1, <1>8, <2>1
    <3>2. ~For(rg, win, r, k - 1)
      <4>1. k - 1 = 0 \/ k - 1 \in 1 .. n - 1
        BY <1>1, <2>1, <3>1
      <4>2. ~(first <= k - 1)
        BY <1>8, <3>1
      <4> QED
        BY <1>3, <1>7, <1>9, <4>1, <4>2
    <3>3. q[s + 1 + (k - 1)].win # win
      BY <1>5, <3>1, <3>2
    <3> QED
      BY <1>4, <1>14, <2>1, <3>1, <3>3
  <2>2. CASE ~(k \in 1 .. first)
    <3>1. PICK i \in 0 .. c - 1 : k = first + 1 + i
      BY <1>12, <1>16, <2>2
    <3>2. g[i] \in K
      BY <1>13
    <3>3. g[i] \in 0 .. n - 1 /\ g[i] \in 1 .. n - 1 /\ ~For(rg, win, r, g[i])
      BY <1>9, <1>kept, <3>2
    <3>4. q[s + 1 + g[i]].win # win
      BY <1>5, <3>3
    <3> QED
      BY <1>4, <1>15, <3>1, <3>4
  <2> QED
    BY <2>1, <2>2
<1>21. ASSUME NEW i \in DOMAIN q, q[i].win # win PROVE \E k \in DOMAIN p : f[k] = i
  <2> DEFINE k == i - (s + 1)
  <2>1. k \in 0 .. n - 1 /\ s + 1 + k = i
    <3>1. i \in 1 .. rg.Events /\ ~(i \in 1 .. s)
      BY <1>4, <1>21
    <3> QED
      BY <1>1, <3>1
  <2> HIDE DEF k
  <2>2. ~For(rg, win, r, k)
    BY <1>5, <1>21, <2>1
  <2>3. CASE k < first
    <3>1. k + 1 \in 1 .. first /\ s + (k + 1) = i
      BY <1>1, <1>8, <2>1, <2>3
    <3> QED
      BY <1>12, <1>14, <3>1
  <2>4. CASE ~(k < first)
    <3>1. k \in K
      <4>1. k \in first .. n - 1
        BY <1>8, <2>1, <2>4
      <4> QED
        BY <1>9, <2>2, <4>1
    <3>2. Rank(k) \in 0 .. c - 1 /\ g[Rank(k)] \in K /\ Rank(g[Rank(k)]) = Rank(k)
      BY <1>10, <1>13, <3>1
    <3>3. g[Rank(k)] = k
      <4>1. \A a, b \in K : Rank(a) = Rank(b) => a = b
        <5> SUFFICES ASSUME NEW a \in K, NEW b \in K, Rank(a) = Rank(b) PROVE a = b
          OBVIOUS
        <5>1. Rank(a) \in Int
          BY <1>10
        <5>2. ~(a < b) /\ ~(b < a)
          BY <1>10, <5>1
        <5> QED
          BY <1>8, <5>2
      <4> QED
        BY <3>1, <3>2, <4>1
    <3>4. first + 1 + Rank(k) \in DOMAIN p /\ f[first + 1 + Rank(k)] = i
      BY <1>12, <1>15, <2>1, <3>2, <3>3
    <3> QED
      BY <3>4
  <2> QED
    BY <2>3, <2>4
<1>22. {f[k] : k \in DOMAIN p} = {i \in DOMAIN q : q[i].win # win}
  BY <1>20, <1>21
<1> QED
  BY <1>17, <1>18, <1>19, <1>22 DEF Left, p, q

\* _wremove_events() on a ring that is right: the ring is right afterwards exactly when
\* as many other events move as events of the window are dropped behind them, and then
\* it holds the events that are not for the window, in their order.
THEOREM RemoveExact ==
  ASSUME NEW rg, Sound(rg), NEW win
  PROVE  /\ Sound(Remove(rg, win)) <=> Balanced(Stored(rg), win)
         /\ Balanced(Stored(rg), win) => Left(Stored(Remove(rg, win)), Stored(rg), win)
<1>1. CASE rg.Events = 0
  <2>1. Remove(rg, win) = rg
    BY <1>1 DEF Remove
  <2> DEFINE q == Stored(rg)  f == [k \in {} |-> k]
  <2>2. DOMAIN q = {}
    BY <1>1 DEF Stored
  <2> HIDE DEF q
  <2>3. Balanced(q, win)
    <3>1. Dropped(q, win) = {} /\ Moved(q, win) = {}
      BY <2>2 DEF Dropped, Moved
    <3> QED
      BY <3>1 DEF Balanced
  <2>4. Left(q, q, win)
    <3>1. f \in [DOMAIN q -> DOMAIN q]
      BY <2>2
    <3> QED
      BY <2>2, <3>1 DEF Left
  <2> QED
    BY <2>1, <2>3, <2>4 DEF q
<1>2. CASE rg.Events # 0
  <2>1. PICK s \in 0 .. rg.Events :
           /\ \A k \in 0 .. s - 1 : k # rg.Events /\ For(rg, win, rg.Ev_read, k)
           /\ s = rg.Events \/ ~For(rg, win, rg.Ev_read, s)
           /\ \E last \in 1 .. MaxEvents :
                /\ \A k \in 1 .. MaxEvents : Slot(Slot(rg.Ev_read, s), k) = rg.Ev_write <=> k = last
                /\ s # rg.Events => last = rg.Events - s
    BY <1>2, SoundWalk
  <2>2. PICK last \in 1 .. MaxEvents :
           /\ \A k \in 1 .. MaxEvents : Slot(Slot(rg.Ev_read, s), k) = rg.Ev_write <=> k = last
           /\ s # rg.Events => last = rg.Events - s
    BY <2>1
  <2>3. s \in 0 .. MaxEvents
    BY SoundFields
  <2> DEFINE r == Slot(rg.Ev_read, s)
             skipped == [rg EXCEPT !.Ev_read = r, !.Events = Short(@ - s)]
  <2>4. CASE s = rg.Events \/ Hits(rg, win, r, last) = {}
    <3>1. s = rg.Events \/ Hits(rg, win, r, rg.Events - s) = {}
      BY <2>2, <2>4
    <3>2. Remove(rg, win) = skipped
      BY <1>2, <2>1, <2>2, <2>3, <2>4, RemoveIs
    <3>3. Sound(skipped) /\ Left(Stored(skipped), Stored(rg), win) /\ Balanced(Stored(rg), win)
      BY <2>1, <3>1, RemoveSkips
    <3> QED
      BY <3>2, <3>3
  <2>5. CASE ~(s = rg.Events \/ Hits(rg, win, r, last) = {})
    <3> DEFINE n == rg.Events - s
               K(first) == Kept(rg, win, r, first, n)
               D == Cardinality(Hits(rg, win, r, n))
               moved(first) == Shrunk(rg, win, s, first)
    <3>2. /\ n \in 1 .. MaxEvents /\ s # rg.Events /\ Hits(rg, win, r, n) # {}
          /\ \A k \in 1 .. MaxEvents : Slot(Slot(rg.Ev_read, s), k) = rg.Ev_write <=> k = n
      <4>1. n = last
        BY <2>2, <2>5
      <4> HIDE DEF n
      <4> QED
        BY <2>2, <2>5, <4>1
    <3>1. PICK first \in Hits(rg, win, r, n) :
             (\A h \in Hits(rg, win, r, n) : first <= h) /\ Remove(rg, win) = moved(first)
      <4> DEFINE shrunk(first) == [skipped EXCEPT !.Event = Down(rg, r, first, K(first)),
                                     !.Ev_write = Slot(r, first + Cardinality(K(first))),
                                     !.Events = Short(@ - Cardinality(K(first)))]
      <4>1. \A first : shrunk(first) = Shrunk(rg, win, s, first)
        BY DEF Shrunk
      <4>2. \E first \in Hits(rg, win, r, n) :
               (\A h \in Hits(rg, win, r, n) : first <= h) /\ Remove(rg, win) = shrunk(first)
        <5> HIDE DEF n
        <5> QED
          BY <1>2, <2>1, <2>3, <3>2, RemoveIs
      <4> HIDE DEF shrunk
      <4> QED
        BY <4>1, <4>2
    <3>3. /\ moved(first).Ev_read = r /\ moved(first).Event = Down(rg, r, first, K(first))
          /\ moved(first).Events = first + D
          /\ Balanced(Stored(rg), win) <=> D = Cardinality(K(first))
          /\ Sound(moved(first)) <=> D = Cardinality(K(first))
      <4>1. ~For(rg, win, rg.Ev_read, s) /\ \A k \in 0 .. s - 1 : For(rg, win, rg.Ev_read, k)
        BY <2>1, <3>2
      <4>2. first \in Hits(rg, win, r, n) /\ \A h \in Hits(rg, win, r, n) : first <= h
        BY <3>1
      <4>3. s # rg.Events
        BY <3>2
      <4>4. Counted(rg, win, s, first)
        <5> HIDE DEF moved, K, D
        <5> QED
          BY <4>1, <4>2, <4>3, RemoveCounts
      <4> QED
        BY <4>4 DEF Counted
    <3>4. Sound(moved(first)) => Left(Stored(moved(first)), Stored(rg), win)
      <4> SUFFICES ASSUME Sound(moved(first)) PROVE Left(Stored(moved(first)), Stored(rg), win)
        OBVIOUS
      <4>1. D = Cardinality(K(first))
        BY <3>3
      <4> HIDE DEF moved
      <4> QED
        BY <2>1, <3>1, <3>2, <3>3, <4>1, MovedLeft
    <3> QED
      BY <3>1, <3>3, <3>4
  <2> QED
    BY <2>4, <2>5
<1> QED
  BY <1>1, <1>2

-----------------------------------------------------------------------------
(* What w_delete() does to the events, when _wremove_events() counts right. *)

\* A window is deleted only by the reply to w_delete(), and it is one that exists.
LEMMA Deleting ==
  ASSUME Inv, [Next]_vars, wins' # wins
  PROVE  /\ ParseReply /\ call.kind = "delete" /\ call.win \in wins /\ wins' = wins \ {call.win}
         /\ ring' = Remove(ring, call.win) /\ Awaiting /\ got' = got /\ ~Awaiting'
<1>1. ParseReply
  BY DEF Next, vars, library, Application, Request, Flush, Await, DeleteWindow,
         QueryEvent, Library, WriteOut, FlushDone, SelectRead, SelectTimeout, ParseEvent,
         ParseEnd, Server, Serve, WriteToClient, Input
<1>2. goal = "reply" /\ pc = "parse" /\ wins' = wins \ {call.win} /\ got' = got /\ pc' = "app"
  BY <1>1 DEF ParseReply
<1>3. call.win \in wins /\ call.win \in Window
  BY <1>2 DEF Inv, Typed
<1>4. call.kind = "delete"
  BY <1>3, CallKinds, WindowAssumption DEF Inv, Typed
<1>5. ring' = Remove(ring, call.win)
  BY <1>1, <1>2, <1>4 DEF ParseReply
<1> QED
  BY <1>1, <1>2, <1>3, <1>4, <1>5 DEF Awaiting

\* w_delete() leaves the count right exactly when as many other events move in the ring as
\* events of the window are dropped behind them, and then the events of the other windows
\* are left, in their order.
DeletionExact ==
  [][RingOK /\ wins' # wins =>
       /\ RingOK' <=> Balanced(Stored(ring), call.win)
       /\ Balanced(Stored(ring), call.win) => Left(Stored(ring)', Stored(ring), call.win)]_vars
THEOREM DeletionCorrect == Spec => DeletionExact
<1>1. Inv /\ [Next]_vars =>
        [RingOK /\ wins' # wins =>
           /\ RingOK' <=> Balanced(Stored(ring), call.win)
           /\ Balanced(Stored(ring), call.win) => Left(Stored(ring)', Stored(ring), call.win)]_vars
  <2> SUFFICES ASSUME Inv, [Next]_vars, RingOK, wins' # wins
               PROVE  /\ RingOK' <=> Balanced(Stored(ring), call.win)
                      /\ Balanced(Stored(ring), call.win) =>
                           Left(Stored(ring)', Stored(ring), call.win)
    OBVIOUS
  <2>1. Sound(ring)
    BY DEF RingOK, Sound, Rings
  <2>2. ring' = Remove(ring, call.win)
    BY Deleting
  <2>3. /\ Sound(ring') <=> Balanced(Stored(ring), call.win)
        /\ Balanced(Stored(ring), call.win) => Left(Stored(ring'), Stored(ring), call.win)
    BY <2>1, <2>2, RemoveExact
  <2>4. RingOK' <=> Sound(ring')
    BY DEF RingOK, Sound, Rings, Slot
  <2>5. Stored(ring)' = Stored(ring')
    BY DEF Stored, Slot
  <2> QED
    BY <2>3, <2>4, <2>5
<1> QED
  BY <1>1, InvCorrect, PTL DEF Spec, DeletionExact

\* The events in the ring are for windows that exist, and so is the one handed out.
Known ==
  /\ Sound(ring)
  /\ \A k \in DOMAIN Stored(ring) : Stored(ring)[k] \in Events /\ Stored(ring)[k].win \in wins
  /\ Awaiting => got = NoEvent
  /\ NoDeadEvent

LEMMA KnownKept ==
  ASSUME Inv, Known, [Next]_vars, wins' # wins => Balanced(Stored(ring), call.win)
  PROVE  Known'
<1> DEFINE q == Stored(ring)
<1>1. ASSUME ring' = ring, wins' = wins, Awaiting' => Awaiting, got' = NoEvent \/ got' = got
      PROVE  Known'
  BY <1>1 DEF Known, Sound, Rings, Stored, Slot, NoDeadEvent
<1>2. /\ Sound(ring) /\ q \in Seq(Events \union {NoEvent}) /\ DOMAIN q = 1 .. Len(q)
      /\ \A k \in 1 .. Len(q) : q[k] \in Events /\ q[k].win \in wins
  <2>1. q \in Seq(Events \union {NoEvent})
    BY StoredIs DEF Known
  <2> HIDE DEF q
  <2>2. DOMAIN q = 1 .. Len(q)
    BY <2>1
  <2> QED
    BY <2>1, <2>2 DEF Known, q
<1>3. ASSUME NEW p \in Seq(Events \union {NoEvent}), Sound(ring'), Stored(ring') = p,
             \A k \in 1 .. Len(p) : p[k] \in Events /\ p[k].win \in wins',
             Awaiting' => got' = NoEvent, got' # NoEvent => got'.win \in wins'
      PROVE  Known'
  <2>1. DOMAIN p = 1 .. Len(p)
    OBVIOUS
  <2>2. Stored(ring)' = p /\ Sound(ring)'
    BY <1>3 DEF Stored, Slot, Sound, Rings
  <2> QED
    BY <1>3, <2>1, <2>2 DEF Known, NoDeadEvent
<1>4. CASE UNCHANGED vars
  BY <1>1, <1>4 DEF vars, library, Awaiting
<1>5. CASE Application
  <2>1. ring' = ring /\ wins' = wins
    BY <1>5 DEF Application, Request, Flush, Await, DeleteWindow, QueryEvent
  <2>2. got' = NoEvent \/ (got' = got /\ (Awaiting' => Awaiting))
    BY <1>5 DEF Application, Request, Flush, Await, DeleteWindow, QueryEvent, Awaiting
  <2> QED
    BY <2>1, <2>2 DEF Known, Sound, Rings, Stored, Slot, NoDeadEvent
<1>6. CASE Server \/ \E w \in Window : Input(w)
  BY <1>1, <1>6 DEF Server, Serve, WriteToClient, Input, library, Awaiting
<1>7. CASE WriteOut \/ FlushDone \/ SelectRead \/ SelectTimeout
  BY <1>1, <1>7 DEF WriteOut, FlushDone, SelectRead, SelectTimeout, Awaiting
<1>8. CASE ParseEvent
  <2> DEFINE e == Head(ibuf)  x == IF Len(q) = MaxEvents THEN Tail(q) ELSE q
  <2>1. e \in Events /\ e.win \in wins
    <3>1. e \in Packet /\ e.kind = "event" /\ e \in Events
      BY <1>8, HeadTailProperties, PacketKinds DEF ParseEvent, Inv, Typed
    <3>2. Stream \in Seq(Packet) /\ 1 \in DOMAIN Stream /\ Stream[1] = e
      <4>0. ibuf \in Seq(Packet) /\ ibuf # <<>> /\ toClient \in Seq(Packet) /\ writing \in Seq(Packet)
        BY <1>8 DEF ParseEvent, Inv, Typed
      <4>1. toClient \o writing \in Seq(Packet) /\ Stream = ibuf \o (toClient \o writing)
        BY <4>0, ConcatProperties, ConcatAssociative DEF Stream
      <4> QED
        BY <4>0, <4>1, ConcatProperties, HeadTailProperties, EmptySeq
    <3> QED
      BY <3>1, <3>2 DEF Inv, EventsKnown
  <2>2. Sound(ring') /\ Stored(ring') = Append(x, e)
    <3>1. ring' = Push(ring, e)
      BY <1>8 DEF ParseEvent
    <3> QED
      BY <1>2, <2>1, <3>1, PushMeans
  <2>3. x \in Seq(Events \union {NoEvent}) /\ \A k \in 1 .. Len(x) : x[k] \in Events /\ x[k].win \in wins
    <3>1. CASE Len(q) = MaxEvents
      <4>1. x = Tail(q)
        BY <3>1
      <4> HIDE DEF q, x
      <4>2. q # <<>> /\ Len(q) \in Nat
        BY <1>2, <3>1, SizeAssumption, EmptySeq, LenProperties
      <4>3. Tail(q) \in Seq(Events \union {NoEvent}) /\ Len(Tail(q)) = Len(q) - 1
            /\ \A k \in 1 .. Len(Tail(q)) : Tail(q)[k] = q[k + 1]
        BY <1>2, <4>2, HeadTailProperties
      <4>4. \A k \in 1 .. Len(q) - 1 : k + 1 \in 1 .. Len(q)
        BY <4>2
      <4> QED
        BY <1>2, <4>1, <4>3, <4>4
    <3>2. CASE Len(q) # MaxEvents
      BY <1>2, <3>2
    <3> QED
      BY <3>1, <3>2
  <2> HIDE DEF x, e
  <2>4. /\ Append(x, e) \in Seq(Events \union {NoEvent})
        /\ \A k \in 1 .. Len(Append(x, e)) : Append(x, e)[k] \in Events /\ Append(x, e)[k].win \in wins
    <3>1. /\ Append(x, e) \in Seq(Events \union {NoEvent}) /\ Len(Append(x, e)) = Len(x) + 1
          /\ \A k \in 1 .. Len(x) : Append(x, e)[k] = x[k]
          /\ Append(x, e)[Len(x) + 1] = e /\ Len(x) \in Nat
      BY <2>1, <2>3, AppendProperties, LenProperties
    <3>2. \A k \in 1 .. Len(x) + 1 : k \in 1 .. Len(x) \/ k = Len(x) + 1
      BY <3>1
    <3> QED
      BY <2>1, <2>3, <3>1, <3>2
  <2>5. wins' = wins /\ got' = got /\ (Awaiting' => Awaiting)
    BY <1>8 DEF ParseEvent, Awaiting
  <2> QED
    BY <1>3, <2>2, <2>4, <2>5 DEF Known, NoDeadEvent
<1>9. CASE ParseReply
  <2>1. got' = got /\ ~Awaiting'
    BY <1>9 DEF ParseReply, Awaiting
  <2>2. CASE wins' = wins
    <3>1. ring' = ring
      <4> SUFFICES ASSUME ring' # ring PROVE FALSE
        OBVIOUS
      <4>1. goal = "reply" /\ pc = "parse" /\ call.kind = "delete" /\ wins' = wins \ {call.win}
        BY <1>9 DEF ParseReply
      <4>2. call.win \in wins
        BY <4>1 DEF Inv, DeletedLast, Awaiting
      <4> QED
        BY <2>2, <4>1, <4>2
    <3> QED
      BY <1>1, <2>1, <2>2, <3>1
  <2>3. CASE wins' # wins
    <3> DEFINE p == Stored(ring')
    <3>1. /\ wins' = wins \ {call.win} /\ ring' = Remove(ring, call.win)
          /\ Awaiting /\ got' = got /\ ~Awaiting'
      BY <2>3, Deleting
    <3>2. got' = NoEvent
      BY <3>1 DEF Known
    <3>3. Sound(ring') /\ Left(p, q, call.win)
      BY <1>2, <2>3, <3>1, RemoveExact
    <3>4. p \in Seq(Events \union {NoEvent})
      BY <3>3, StoredIs
    <3>5. PICK f \in [DOMAIN p -> DOMAIN q] :
             /\ \A k \in DOMAIN p : p[k] = q[f[k]]
             /\ {f[k] : k \in DOMAIN p} = {i \in DOMAIN q : q[i].win # call.win}
      BY <3>3 DEF Left
    <3> HIDE DEF p, q
    <3>6. \A k \in DOMAIN p : f[k] \in DOMAIN q /\ q[f[k]].win # call.win
      BY <3>5
    <3>7. \A k \in 1 .. Len(p) : p[k] \in Events /\ p[k].win \in wins'
      <4>1. DOMAIN p = 1 .. Len(p)
        BY <3>4
      <4> QED
        BY <1>2, <3>1, <3>5, <3>6, <4>1
    <3> QED
      BY <1>3, <3>1, <3>2, <3>3, <3>4, <3>7 DEF p
  <2> QED
    BY <2>2, <2>3
<1>10. CASE ParseEnd
  <2>1. wins' = wins
    BY <1>10 DEF ParseEnd
  <2>2. CASE ring.Events = 0
    <3>1. Pop(ring) = ring
      BY <2>2 DEF Pop
    <3>2. ring' = ring /\ (got' = NoEvent \/ got' = got) /\ (Awaiting' => Awaiting)
      BY <1>10, <2>2, <3>1 DEF ParseEnd, Awaiting
    <3> QED
      BY <1>1, <2>1, <3>2
  <2>3. CASE ring.Events # 0 /\ ring' = ring /\ got' = got
    <3>1. Awaiting' => Awaiting
      BY <1>10 DEF ParseEnd, Awaiting
    <3> QED
      BY <1>1, <2>1, <2>3, <3>1
  <2>4. CASE ring.Events # 0 /\ ~(ring' = ring /\ got' = got)
    <3>1. ring' = Pop(ring) /\ got' = ring.Event[ring.Ev_read] /\ pc' = "app"
      BY <1>10, <2>4 DEF ParseEnd
    <3>2. Sound(ring') /\ q # <<>> /\ Stored(ring') = Tail(q)
      BY <1>2, <2>4, <3>1, PopMeans
    <3>3. got' = q[1]
      <4>1. q[1] = ring.Event[Slot(ring.Ev_read, 1 - 1)]
        <5>1. 1 \in 1 .. ring.Events
          BY <1>2, <2>4, SoundFields
        <5> QED
          BY <1>2, <5>1, StoredIs
      <4>2. Slot(ring.Ev_read, 1 - 1) = ring.Ev_read
        BY <1>2, SoundFields DEF Slot
      <4> QED
        BY <3>1, <4>1, <4>2
    <3> HIDE DEF q
    <3>4. Tail(q) \in Seq(Events \union {NoEvent}) /\ Len(Tail(q)) = Len(q) - 1 /\ Len(q) \in Nat \ {0}
          /\ \A k \in 1 .. Len(Tail(q)) : Tail(q)[k] = q[k + 1]
      BY <1>2, <3>2, HeadTailProperties, EmptySeq, LenProperties
    <3>5. 1 \in 1 .. Len(q) /\ \A k \in 1 .. Len(q) - 1 : k + 1 \in 1 .. Len(q)
      BY <3>4
    <3>6. \A k \in 1 .. Len(Tail(q)) : Tail(q)[k] \in Events /\ Tail(q)[k].win \in wins'
      BY <1>2, <2>1, <3>4, <3>5
    <3>7. got'.win \in wins'
      BY <1>2, <2>1, <3>3, <3>5
    <3>8. ~Awaiting'
      BY <3>1 DEF Awaiting
    <3> QED
      BY <1>3, <3>2, <3>4, <3>6, <3>7, <3>8
  <2> QED
    BY <2>2, <2>3, <2>4
<1> QED
  BY <1>4, <1>5, <1>6, <1>7, <1>8, <1>9, <1>10 DEF Next, Library

\* Every deletion of a window drops as many events behind others as it moves.
BalancedDeletions == [][wins' # wins => Balanced(Stored(ring), call.win)]_vars

\* What w_delete() promises holds as long as _wremove_events() counts right: when every
\* deletion is balanced, the count always agrees with the indices of the ring, and the
\* application is never handed an event of a deleted window.
THEOREM NoDeadEventIfBalanced == Spec /\ BalancedDeletions => [](RingOK /\ NoDeadEvent)
<1>1. Init => Known
  <2> SUFFICES ASSUME Init PROVE Known
    OBVIOUS
  <2>1. ring.Events = 0 /\ got = NoEvent
    BY DEF Init
  <2>2. DOMAIN Stored(ring) = {}
    BY <2>1 DEF Stored
  <2> QED
    BY <2>1, <2>2, RingAtStart DEF Known, NoDeadEvent
<1>2. Known /\ Inv /\ [Next]_vars /\ [wins' # wins => Balanced(Stored(ring), call.win)]_vars => Known'
  <2> SUFFICES ASSUME Known, Inv, [Next]_vars,
                      [wins' # wins => Balanced(Stored(ring), call.win)]_vars
               PROVE  Known'
    OBVIOUS
  <2>1. wins' # wins => Balanced(Stored(ring), call.win)
    BY DEF vars, library
  <2> QED
    BY <2>1, KnownKept
<1>3. Known => RingOK /\ NoDeadEvent
  BY DEF Known, RingOK, Sound, Rings
<1> QED
  BY <1>1, <1>2, <1>3, InvCorrect, PTL DEF Spec, BalancedDeletions

\* And only then: nothing but a deletion that is not balanced makes the count of the ring
\* and its indices disagree, and each such deletion does.
THEOREM RingRight == Spec => ([]RingOK <=> BalancedDeletions)
<1>1. RingOK /\ RingOK' /\
      [RingOK /\ wins' # wins =>
         /\ RingOK' <=> Balanced(Stored(ring), call.win)
         /\ Balanced(Stored(ring), call.win) => Left(Stored(ring)', Stored(ring), call.win)]_vars
      => [wins' # wins => Balanced(Stored(ring), call.win)]_vars
  OBVIOUS
<1>2. Spec => DeletionExact
  BY DeletionCorrect
<1>3. Spec /\ BalancedDeletions => []RingOK
  BY NoDeadEventIfBalanced, PTL
<1>4. []RingOK /\ DeletionExact => BalancedDeletions
  BY <1>1, PTL DEF DeletionExact, BalancedDeletions
<1> QED
  BY <1>2, <1>3, <1>4, PTL
=============================================================================
