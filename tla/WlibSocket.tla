----------------------------- MODULE WlibSocket -----------------------------
(***************************************************************************)
(* One client and the server, seen from the client's library: the buffer   *)
(* of outgoing packets, the two directions of the socket, the input buffer *)
(* and the ring of events of lib/socket.c, and w_delete() of lib/window.c. *)
(*                                                                         *)
(* A packet is a record and travels as a whole; the sockets hold a bounded *)
(* number of packets.  Applications pass no descriptors of their own to    *)
(* w_queryevent().                                                         *)
(***************************************************************************)
EXTENDS Integers, Sequences, FiniteSets

CONSTANTS Window,       \* the windows of the client (WWIN pointers)
          Deletable,    \* those it may delete
          Timeouts,     \* how it calls w_queryevent(): "poll", "wait" or both
          MaxEvents,    \* MAXWEVENTS, the size of the ring
          OutSize,      \* how many packets the buffer for requests holds
          SocketSize,   \* how many packets each direction of the socket holds
          MaxInput,     \* bound: how many events the user causes
          NoWin         \* the NULL pointer

ASSUME WindowAssumption == NoWin \notin Window /\ Deletable \subseteq Window
\* The count and the indices of the ring are of type short.
ASSUME SizeAssumption ==
  {MaxEvents, OutSize, SocketSize} \subseteq Nat \ {0} /\ MaxInput \in Nat /\ MaxEvents < 32768
ASSUME TimeoutAssumption == Timeouts \subseteq {"poll", "wait"}

VARIABLES
  \* the library
  wins,      \* the WWIN structures that are allocated
  pc,        \* where the library is
  goal,      \* what scanSocket() is called for: "reply", "poll" or "wait"
  call,      \* the request whose reply is awaited
  out,       \* Buffer, the requests that are not yet sent
  ibuf,      \* ibuf, the packets that are read and not yet analyzed
  ring,      \* Event, Ev_read, Ev_write and Events
  got,       \* what w_queryevent() returned last
  \* the socket and the server
  toServer, toClient,
  writing,   \* the packet that the server is writing to the client
  srvwins,   \* the client's windows in the server
  inputs     \* how many events the user caused

library == <<wins, pc, goal, call, out, ibuf, ring, got>>
server == <<writing, srvwins, inputs>>
vars == <<library, toServer, toClient, server>>

NoEvent == [kind |-> "event", win |-> NoWin, n |-> 0]
Draw == [kind |-> "draw", win |-> NoWin]
Query == [kind |-> "query", win |-> NoWin]
Delete(w) == [kind |-> "delete", win |-> w]
Call == {Query} \union {Delete(w) : w \in Window}
Reply(c) == [kind |-> "reply", to |-> c]
Events == {[kind |-> "event", win |-> w, n |-> n] : w \in Window, n \in 1 .. MaxInput}

-----------------------------------------------------------------------------
(* The ring of events.                                                     *)

\* Mutant: the index runs past the end of the ring.
Succ_noWrap(i) == i + 1

Succ(i) == IF i + 1 = MaxEvents THEN 0 ELSE i + 1

\* The place that is k after r, for k up to MaxEvents.
Slot(r, k) == IF r + k < MaxEvents THEN r + k ELSE r + k - MaxEvents

\* The numbers of type short, and n as Events, a short, keeps it.
Shorts == -32768 .. 32767
Short(n) == ((n + 32768) % 65536) - 32768

\* event_pop()
Pop(rg) ==
  IF rg.Events = 0 THEN rg ELSE [rg EXCEPT !.Ev_read = Succ(@), !.Events = Short(@ - 1)]

\* Mutant: the oldest event is overwritten but Ev_read is not moved.
Push_keepRead(rg, e) ==
  [rg EXCEPT !.Event[rg.Ev_write] = e, !.Ev_write = Succ(@),
             !.Events = IF @ >= MaxEvents THEN @ ELSE @ + 1]

\* event_push()
Push(rg, e) ==
  LET stored == [rg EXCEPT !.Event = [@ EXCEPT ![rg.Ev_write] = e]]
      put == [stored EXCEPT !.Ev_write = Succ(@)]
      room == IF put.Events >= MaxEvents THEN Pop(put) ELSE put
  IN  [room EXCEPT !.Events = @ + 1]

\* _wremove_events().  First the oldest events are skipped while they are for
\* win; then, from the first other event for win up to Ev_write, the events to
\* keep move down.  Events is decreased for each event that is moved.  When every
\* slot is for win and Events is wrong, the first loop walks until Events is 0.
Remove(rg, win) ==
  LET For(r, k) == rg.Event[Slot(r, k)].win = win
      stop == {k \in 0 .. MaxEvents : k = rg.Events \/ ~For(rg.Ev_read, k)}
      s == CHOOSE k \in stop : \A h \in stop : k <= h
      r == Slot(rg.Ev_read, s)
      last == CHOOSE k \in 1 .. MaxEvents : Slot(r, k) = rg.Ev_write
      hits == {k \in 1 .. last - 1 : For(r, k)}
      first == CHOOSE k \in hits : \A h \in hits : k <= h
      kept == (first .. last - 1) \ hits
      To(k) == Slot(r, first + Cardinality({h \in kept : h < k}))
      skipped == [rg EXCEPT !.Ev_read = r, !.Events = Short(@ - s)]
  IN  IF rg.Events = 0 THEN rg
      ELSE IF stop = {}
        THEN [rg EXCEPT !.Ev_read = (@ + (rg.Events % 65536)) % MaxEvents, !.Events = 0]
      ELSE IF s = rg.Events \/ hits = {} THEN skipped
      ELSE [skipped EXCEPT
              !.Event = [i \in DOMAIN @ |->
                 IF \E k \in kept : To(k) = i
                 THEN @[Slot(r, CHOOSE k \in kept : To(k) = i)] ELSE @[i]],
              !.Ev_write = Slot(r, first + Cardinality(kept)),
              !.Events = Short(@ - Cardinality(kept))]

\* The events in the ring, the oldest first.
Stored(rg) == [k \in 1 .. rg.Events |-> rg.Event[Slot(rg.Ev_read, k - 1)]]

-----------------------------------------------------------------------------
Init ==
  /\ wins = Window
  /\ pc = "app"
  /\ goal = "poll"
  /\ call = Query
  /\ out = <<>>
  /\ ibuf = <<>>
  /\ ring = [Event |-> [i \in 0 .. MaxEvents - 1 |-> NoEvent],
             Ev_read |-> 0, Ev_write |-> 0, Events |-> 0]
  /\ got = NoEvent
  /\ toServer = <<>>
  /\ toClient = <<>>
  /\ writing = <<>>
  /\ srvwins = Window
  /\ inputs = 0

-----------------------------------------------------------------------------
(* Calls of the application.                                               *)

\* A request without a reply: _wreservep() while there is room in the buffer.
Request ==
  /\ pc = "app"
  /\ Len(out) < OutSize
  /\ out' = Append(out, Draw)
  /\ UNCHANGED <<wins, pc, goal, call, ibuf, ring, got, toServer, toClient, server>>

\* w_flush(), called by the application or by _wreservep() for room.
Flush ==
  /\ pc = "app"
  /\ pc' = "flush" /\ goal' = "none"
  /\ UNCHANGED <<wins, call, out, ibuf, ring, got, toServer, toClient, server>>

\* Mutant: _wait4paket() waits without w_flush().
Await_noFlush(c) ==
  /\ pc = "app"
  /\ Len(out) < OutSize
  /\ out' = Append(out, c)
  /\ pc' = "select" /\ goal' = "reply" /\ call' = c /\ got' = NoEvent
  /\ UNCHANGED <<wins, ibuf, ring, toServer, toClient, server>>

\* A request with a reply: _wreservep() and _wait4paket().
Await(c) ==
  /\ pc = "app"
  /\ Len(out) < OutSize
  /\ out' = Append(out, c)
  /\ pc' = "flush" /\ goal' = "reply" /\ call' = c /\ got' = NoEvent
  /\ UNCHANGED <<wins, ibuf, ring, toServer, toClient, server>>

\* w_delete() of a window that exists.
DeleteWindow == \E w \in wins \intersect Deletable : Await(Delete(w))

\* w_queryevent()
QueryEvent(timeout) ==
  /\ pc = "app"
  /\ pc' = "flush" /\ goal' = timeout /\ got' = NoEvent
  /\ UNCHANGED <<wins, call, out, ibuf, ring, toServer, toClient, server>>

-----------------------------------------------------------------------------
(* w_flush()                                                               *)

WriteOut ==
  /\ pc = "flush"
  /\ out # <<>> /\ Len(toServer) < SocketSize
  /\ toServer' = Append(toServer, Head(out))
  /\ out' = Tail(out)
  /\ UNCHANGED <<wins, pc, goal, call, ibuf, ring, got, toClient, server>>

FlushDone ==
  /\ pc = "flush"
  /\ out = <<>>
  /\ pc' = IF goal = "none" THEN "app" ELSE "select"
  /\ UNCHANGED <<wins, goal, call, out, ibuf, ring, got, toServer, toClient, server>>

-----------------------------------------------------------------------------
(* scanSocket()                                                            *)

\* select() and read(): some packets move to the input buffer.  The socket is
\* not watched while there are events to hand out.
SelectRead ==
  /\ pc = "select"
  /\ goal = "reply" \/ ring.Events = 0
  /\ \E k \in 1 .. Len(toClient) :
       /\ ibuf' = ibuf \o SubSeq(toClient, 1, k)
       /\ toClient' = SubSeq(toClient, k + 1, Len(toClient))
  /\ pc' = "parse"
  /\ UNCHANGED <<wins, goal, call, out, ring, got, toServer, server>>

\* select() times out, at once if there are events to hand out: timeout is 0 then.
SelectTimeout ==
  /\ pc = "select"
  /\ goal # "reply"
  /\ ring.Events # 0 \/ (goal = "poll" /\ toClient = <<>>)
  /\ pc' = "parse" /\ goal' = "poll"
  /\ UNCHANGED <<wins, call, out, ibuf, ring, got, toServer, toClient, server>>

\* An event in the input buffer goes to the ring.
ParseEvent ==
  /\ pc = "parse"
  /\ ibuf # <<>> /\ Head(ibuf).kind = "event"
  /\ ring' = Push(ring, Head(ibuf))
  /\ ibuf' = Tail(ibuf)
  /\ UNCHANGED <<wins, pc, goal, call, out, got, toServer, toClient, server>>

\* Another packet ends the scan.  It is the reply that is awaited, and w_delete()
\* removes the events of the window and frees it; or else the client aborts.
ParseReply ==
  /\ pc = "parse"
  /\ ibuf # <<>> /\ Head(ibuf).kind = "reply"
  /\ ibuf' = Tail(ibuf)
  /\ IF goal = "reply" /\ Head(ibuf).to = call
     THEN /\ pc' = "app"
          /\ wins' = wins \ {call.win}
          /\ ring' = IF call.kind = "delete" THEN Remove(ring, call.win) ELSE ring
     ELSE pc' = "aborted" /\ UNCHANGED <<wins, ring>>
  /\ UNCHANGED <<goal, call, out, got, toServer, toClient, server>>

\* The input buffer is empty: w_queryevent() returns the oldest event, or none
\* at its timeout; otherwise select() is called again.
ParseEnd ==
  /\ pc = "parse"
  /\ ibuf = <<>>
  /\ IF goal # "reply" /\ (ring.Events > 0 \/ goal = "poll")
     THEN /\ pc' = "app"
          /\ ring' = Pop(ring)
          /\ got' = IF ring.Events = 0 THEN NoEvent ELSE ring.Event[ring.Ev_read]
     ELSE pc' = "select" /\ UNCHANGED <<ring, got>>
  /\ UNCHANGED <<wins, goal, call, out, ibuf, toServer, toClient, server>>

(* The server.                                                             *)

\* Mutant: the window is kept after the reply to its deletion.
Serve_keepWindow ==
  /\ writing = <<>>
  /\ toServer # <<>>
  /\ toServer' = Tail(toServer)
  /\ writing' = IF Head(toServer) = Draw THEN <<>> ELSE <<Reply(Head(toServer))>>
  /\ UNCHANGED <<library, toClient, srvwins, inputs>>

\* Mutant: a request without a reply is answered, too.
Serve_answerAll ==
  /\ writing = <<>>
  /\ toServer # <<>>
  /\ toServer' = Tail(toServer)
  /\ writing' = <<Reply(Head(toServer))>>
  /\ srvwins' = srvwins \ {Head(toServer).win}
  /\ UNCHANGED <<library, toClient, inputs>>

\* process_paket(): one request is handled and, if it has a reply, answered.
Serve ==
  /\ writing = <<>>
  /\ toServer # <<>>
  /\ toServer' = Tail(toServer)
  /\ writing' = IF Head(toServer) = Draw THEN <<>> ELSE <<Reply(Head(toServer))>>
  /\ srvwins' = srvwins \ {Head(toServer).win}
  /\ UNCHANGED <<library, toClient, inputs>>

\* The user causes an event for window w; w_changeActiveWindow(),
\* event_mousebutton() and the like write it to the client of the window.
Input(w) ==
  /\ writing = <<>>
  /\ w \in srvwins
  /\ inputs < MaxInput
  /\ inputs' = inputs + 1
  /\ writing' = <<[kind |-> "event", win |-> w, n |-> inputs']>>
  /\ UNCHANGED <<library, toServer, toClient, srvwins>>

\* write() blocks while the socket is full, and the whole server with it.
WriteToClient ==
  /\ writing # <<>>
  /\ Len(toClient) < SocketSize
  /\ toClient' = toClient \o writing
  /\ writing' = <<>>
  /\ UNCHANGED <<library, toServer, srvwins, inputs>>

-----------------------------------------------------------------------------
Application == Request \/ Flush \/ Await(Query) \/ DeleteWindow
               \/ \E t \in Timeouts : QueryEvent(t)
Library == WriteOut \/ FlushDone \/ SelectRead \/ SelectTimeout
           \/ ParseEvent \/ ParseReply \/ ParseEnd

Server == Serve \/ WriteToClient

Next == Application \/ Library \/ Server \/ \E w \in Window : Input(w)

Spec == Init /\ [][Next]_vars

\* The library runs when it can, and the server works off the packets it finds: its
\* handlers end (Session has the waits for the user and for other clients).  The
\* application may stop making calls, the user to move the mouse.
FairSpec == Spec /\ WF_vars(Library) /\ WF_vars(Server)

-----------------------------------------------------------------------------
(* Properties.                                                             *)

Packet == Events \union {Reply(c) : c \in Call}

TypeOK ==
  /\ wins \subseteq Window
  /\ pc \in {"app", "flush", "select", "parse", "aborted"}
  /\ goal \in {"none", "reply", "poll", "wait"}
  /\ call \in Call
  /\ out \in Seq(Call \union {Draw}) /\ Len(out) <= OutSize
  /\ toServer \in Seq(Call \union {Draw}) /\ Len(toServer) <= SocketSize
  /\ toClient \in Seq(Packet) /\ Len(toClient) <= SocketSize
  /\ ibuf \in Seq(Packet)
  /\ ring \in [Event : [0 .. MaxEvents - 1 -> Events \union {NoEvent}],
               Ev_read : 0 .. MaxEvents - 1, Ev_write : 0 .. MaxEvents - 1, Events : Shorts]
  /\ got \in Events \union {NoEvent}
  /\ writing \in Seq(Packet) /\ Len(writing) <= 1
  /\ srvwins \subseteq Window
  /\ inputs \in 0 .. MaxInput

\* The two directions of the connection, from the oldest packet to the latest.
Requests == toServer \o out
Stream == ibuf \o toClient \o writing

\* scanSocket() is called, or about to be, for a reply.
Awaiting == goal = "reply" /\ pc \in {"flush", "select", "parse"}

\* Calls and replies are paired: while scanSocket() is called for a reply, the
\* call or its reply is under way exactly once, and otherwise no call is.  So
\* the client never aborts with "socket communication garbled", whatever events
\* come between and wherever a read() cuts the stream.
RepliesPaired ==
  LET calls == {k \in DOMAIN Requests : Requests[k] # Draw}
      replies == {k \in DOMAIN Stream : Stream[k].kind = "reply"}
  IN  /\ pc # "aborted"
      /\ IF Awaiting
         THEN \/ replies = {} /\ \E k \in calls : calls = {k} /\ Requests[k] = call
              \/ calls = {} /\ \E k \in replies : replies = {k} /\ Stream[k].to = call
         ELSE calls = {} /\ replies = {}

\* The reply to w_delete() overtakes no event: what is read from the socket is
\* for a window whose WWIN structure is still allocated.
EventsKnown ==
  /\ srvwins \subseteq wins
  /\ \A k \in DOMAIN Stream : Stream[k].kind = "event" => Stream[k].win \in wins

\* What Events, Ev_read and Ev_write must be to each other.
RingOK ==
  /\ ring \in [Event : [0 .. MaxEvents - 1 -> Events \union {NoEvent}], Events : 0 .. MaxEvents,
               Ev_read : 0 .. MaxEvents - 1, Ev_write : 0 .. MaxEvents - 1]
  /\ Slot(ring.Ev_read, ring.Events) = ring.Ev_write

\* The ring is a bounded first-in first-out queue that loses the oldest event, while
\* the count agrees with the indices and no window is deleted: a call of
\* _wremove_events() that drops an event from the middle leaves it otherwise.
RingQueue == INSTANCE EventQueue WITH Item <- Events, Capacity <- MaxEvents,
                                      queue <- Stored(ring)
IsQueue ==
  RingQueue!Init /\ [][RingOK /\ wins' = wins => [RingQueue!Next]_(Stored(ring))]_vars

\* w_flush() in the library and write() in the server wait for each other: both
\* directions of the socket are full, and neither side reads while it writes.
Jammed ==
  /\ pc = "flush" /\ out # <<>> /\ Len(toServer) = SocketSize
  /\ writing # <<>> /\ Len(toClient) = SocketSize

\* A call that expects a reply returns, whatever events come before the reply, unless
\* client and server write to each other over full sockets.  This is the one way to
\* get stuck.  That w_queryevent() returns is not said.
Answered == Awaiting ~> (pc = "app" \/ Jammed)

\* "Called by w_delete() to remove buffered events for window in question"
\* (lib/socket.c): the application is never handed an event of a deleted window.
NoDeadEvent == got # NoEvent => got.win \in wins
=============================================================================
