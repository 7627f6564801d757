--------------------------- MODULE BlockTransfer ---------------------------
(***************************************************************************)
(* The transfer of a block of pixels from and to a window: w_getblock()    *)
(* and w_putblock() of the library (lib/block.c), the handlers of the      *)
(* server (server/client_block.c) and the packets between them.  Other     *)
(* clients may delete the window at any time, and the client may die; the  *)
(* next one takes its place here.  The pixels are abstracted to their      *)
(* number of bytes; the library's write buffer and the socket are one      *)
(* queue.                                                                  *)
(***************************************************************************)
EXTENDS Integers, Sequences

CONSTANTS Window, Container,  \* the windows, and those with W_CONTAINER
          Shapes,             \* the blocks asked for: number of lines, bytes in a line
          Space,              \* bytes that fit into PAKET.data
          LittleEndian,       \* whether htons() swaps the bytes
          NoWin

ASSUME ShapeAssumption == Shapes \subseteq Nat \X (Nat \ {0})
ASSUME WindowAssumption == Container \subseteq Window /\ NoWin \notin Window
ASSUME SpaceAssumption == Space \in Nat \ {0} /\ LittleEndian \in BOOLEAN

VARIABLES
  live,      \* the windows that exist
  call,      \* the library: the call it is in, the window and the block, and todo:
             \* the bytes to come, or the lines to be sent
  returned,  \* what the last call returned
  toServer, toClient,  \* packets under way
  connected, \* whether the client's process lives
  client,    \* the server's CLIENT: btype, bsize and bwin
  allocated  \* how many blocks of memory createbm() has given out for transfers

vars == <<live, call, returned, toServer, toClient, connected, client, allocated>>
server == <<live, connected, client, allocated>>

Bytes(shape) == shape[1] * shape[2]
Idle == [pc |-> "idle", win |-> NoWin, shape |-> <<0, 1>>, todo |-> 0]
NoTransfer == [btype |-> "none", bsize |-> 0, bwin |-> NoWin]
Least(a, b) == IF a < b THEN a ELSE b

Init ==
  /\ live = Window
  /\ call = Idle /\ returned = "nothing"
  /\ toServer = <<>> /\ toClient = <<>>
  /\ connected = TRUE /\ client = NoTransfer /\ allocated = 0

-----------------------------------------------------------------------------
(* The library.                                                            *)

Send(p) == toServer' = Append(toServer, p)
Return(value) == call' = Idle /\ returned' = value

\* w_putblock() up to the reply: a line that does not fit into a packet is refused.
PutBlock(w, shape) ==
  /\ connected /\ call.pc = "idle"
  /\ shape[2] <= Space
  /\ Send([type |-> "putreq", win |-> w, shape |-> shape])
  /\ call' = [pc |-> "putreq", win |-> w, shape |-> shape, todo |-> 0]
  /\ UNCHANGED <<returned, toClient, server>>

\* w_getblock() up to the reply: w_allocbm() refuses an empty bitmap.
GetBlock(w, shape) ==
  /\ connected /\ call.pc = "idle"
  /\ shape[1] >= 1
  /\ Send([type |-> "getreq", win |-> w, shape |-> shape])
  /\ call' = [pc |-> "getreq", win |-> w, shape |-> shape, todo |-> 0]
  /\ UNCHANGED <<returned, toClient, server>>

\* The reply to the request: the server's size must be the library's.
PutAnswer ==
  /\ call.pc = "putreq" /\ toClient # <<>> /\ toClient' = Tail(toClient)
  /\ IF Head(toClient) # Bytes(call.shape)
     THEN Return("error")
     ELSE call' = [call EXCEPT !.pc = "put", !.todo = call.shape[1]] /\ UNCHANGED returned
  /\ UNCHANGED <<toServer, server>>

\* As many lines as fit into a packet.
PutLines ==
  /\ call.pc = "put"
  /\ IF call.todo > 0
     THEN LET lines == Least(Space \div call.shape[2], call.todo)
          IN  /\ Send([type |-> "raw", bytes |-> lines * call.shape[2]])
              /\ call' = [call EXCEPT !.todo = @ - lines] /\ UNCHANGED returned
     ELSE Return("done") /\ UNCHANGED toServer
  /\ UNCHANGED <<toClient, server>>

\* The reply to the request, and the request for the first data.
GetAnswer ==
  /\ call.pc = "getreq" /\ toClient # <<>> /\ toClient' = Tail(toClient)
  /\ IF Head(toClient) # Bytes(call.shape)
     THEN Return("error") /\ UNCHANGED toServer
     ELSE /\ call' = [call EXCEPT !.pc = "get", !.todo = Bytes(call.shape)]
          /\ Send([type |-> "getdata"]) /\ UNCHANGED returned
  /\ UNCHANGED server

\* Mutant: data is asked for once more when all is there.
GetData_more ==
  /\ call.pc = "get" /\ toClient # <<>> /\ toClient' = Tail(toClient)
  /\ LET todo == call.todo - Head(toClient)
     IN  IF todo < 0 THEN Return("error") /\ UNCHANGED toServer
         ELSE /\ call' = [call EXCEPT !.todo = todo]
              /\ Send([type |-> "getdata"]) /\ UNCHANGED returned
  /\ UNCHANGED server

\* Data: more than is missing is an error, and the next is asked for until all is there.
GetData ==
  /\ call.pc = "get" /\ toClient # <<>> /\ toClient' = Tail(toClient)
  /\ LET todo == call.todo - Head(toClient)
     IN  IF todo < 0 THEN Return("error") /\ UNCHANGED toServer
         ELSE IF todo = 0 THEN Return("block") /\ UNCHANGED toServer
         ELSE /\ call' = [call EXCEPT !.todo = todo]
              /\ Send([type |-> "getdata"]) /\ UNCHANGED returned
  /\ UNCHANGED server

Library == PutAnswer \/ PutLines \/ GetAnswer \/ GetData

-----------------------------------------------------------------------------
(* The server.                                                             *)

Reply(n) == toClient' = Append(toClient, n)

\* The transfer begins, and the server answers with the size of the block.  It is the size
\* the library expects: w_bmheader() and createbm() of the graphics drivers compute the
\* same number of bytes, so a call fails at lib/block.c:90 for an error only.
Start(type, p, w) ==
  /\ Reply(Bytes(p.shape))
  /\ client' = [btype |-> type, bsize |-> Bytes(p.shape), bwin |-> w]
  /\ allocated' = allocated + 1
Refuse(error) == Reply(error) /\ UNCHANGED allocated

\* client_putblockreq(): bwin is set before the checks.  The memory may run out.
PutReq(p) ==
  LET looked == [client EXCEPT !.bwin = IF p.win \in live THEN p.win ELSE NoWin]
  IN  \/ p.win \notin live /\ Refuse(-1) /\ client' = looked
      \/ p.win \in live \intersect Container /\ Refuse(-2) /\ client' = looked
      \/ /\ p.win \in live \ Container
         /\ IF client.btype # "none" \/ Bytes(p.shape) < 1
            THEN Refuse(-3) /\ client' = looked
            ELSE \/ Refuse(-4) /\ client' = [looked EXCEPT !.btype = "none"]
                 \/ Start("put", p, p.win)

\* client_getblockreq(): the pixels are copied at once.  A rectangle that is not
\* inside of the window is refused, and the memory may run out.
GetReq(p) ==
  \/ client.btype # "none" /\ Refuse(-1) /\ UNCHANGED client
  \/ client.btype = "none" /\ p.win \notin live /\ Refuse(-2) /\ UNCHANGED client
  \/ /\ client.btype = "none" /\ p.win \in live \intersect Container
     /\ Refuse(-3) /\ UNCHANGED client
  \/ /\ client.btype = "none" /\ p.win \in live \ Container
     /\ \/ \E error \in {-4, -5} : Refuse(error) /\ UNCHANGED client
        \/ Start("get", p, client.bwin)

\* Mutant: the transfer ends only with a packet that brings more than is missing.
Progress_late(count) ==
  IF client.bsize - count < 0
  THEN client' = [client EXCEPT !.btype = "none", !.bsize = 0] /\ allocated' = allocated - 1
  ELSE client' = [client EXCEPT !.bsize = @ - count] /\ UNCHANGED allocated

\* The memory is freed with the last byte.
Progress(count) ==
  IF client.bsize - count < 1
  THEN client' = [client EXCEPT !.btype = "none", !.bsize = 0] /\ allocated' = allocated - 1
  ELSE client' = [client EXCEPT !.bsize = @ - count] /\ UNCHANGED allocated

\* client_putblockdata(): with the last byte the block is drawn.
RawData(p) ==
  /\ UNCHANGED toClient
  /\ IF client.btype # "put" THEN UNCHANGED <<client, allocated>>
                             ELSE Progress(Least(client.bsize, p.bytes))

\* A short as it is read with its bytes swapped.
Swapped(n) ==
  LET s == (n % 256) * 256 + n \div 256 IN IF s >= 32768 THEN s - 65536 ELSE s

\* process_paket() has applied htons() to the length, header and data, when it takes
\* it for the number of bytes to be written; write() refuses a negative one.
Written(n) == IF LittleEndian THEN Swapped(n + 4) - 4 ELSE n
ReplyData(n) == IF Written(n) + 4 < 0 THEN UNCHANGED toClient ELSE Reply(Written(n))

\* client_getblockdata()
GetDataReq ==
  IF client.btype # "get" THEN ReplyData(0) /\ UNCHANGED <<client, allocated>>
  ELSE LET count == Least(client.bsize, Space)
       IN  ReplyData(count) /\ Progress(count)

Serve ==
  /\ toServer # <<>> /\ toServer' = Tail(toServer)
  /\ LET p == Head(toServer)
     IN  \/ p.type = "putreq" /\ PutReq(p)
         \/ p.type = "raw" /\ RawData(p)
         \/ p.type = "getreq" /\ GetReq(p)
         \/ p.type = "getdata" /\ GetDataReq
  /\ UNCHANGED <<live, call, returned, connected>>

\* Another client deletes a window.
Delete(w) ==
  /\ w \in live /\ live' = live \ {w}
  /\ UNCHANGED <<call, returned, toServer, toClient, connected, client, allocated>>

\* The client dies; what its library has not written yet is lost.
Die ==
  /\ connected /\ connected' = FALSE
  /\ call' = Idle
  /\ \E n \in 0 .. Len(toServer) : toServer' = SubSeq(toServer, 1, n)
  /\ UNCHANGED <<live, returned, toClient, client, allocated>>

\* Mutant: the block of a dead client is kept.
KillClient_keep ==
  /\ ~connected /\ connected' = TRUE
  /\ toServer = <<>> /\ toClient' = <<>>
  /\ client' = NoTransfer
  /\ UNCHANGED <<live, call, returned, toServer, allocated>>

\* killClient(), when read() fails; the next client starts from nothing.
KillClient ==
  /\ ~connected /\ connected' = TRUE
  /\ toServer = <<>> /\ toClient' = <<>>
  /\ client' = NoTransfer
  /\ allocated' = allocated - IF client.btype = "none" THEN 0 ELSE 1
  /\ UNCHANGED <<live, call, returned, toServer>>

Next ==
  \/ \E w \in Window, shape \in Shapes : PutBlock(w, shape) \/ GetBlock(w, shape)
  \/ Library \/ Serve
  \/ (\E w \in Window : Delete(w)) \/ Die \/ KillClient

Spec == Init /\ [][Next]_vars

\* The server comes to every packet, and the library goes on when it can.
FairSpec == Spec /\ WF_vars(Serve) /\ WF_vars(Library)

-----------------------------------------------------------------------------
(* Properties.                                                             *)

\* The bytes of the data packets among the first k packets of q, and of those that
\* are under way to the server.
Raw(p) == IF p.type = "raw" THEN p.bytes ELSE 0
RawBytes(q) == LET sum[k \in 0 .. Len(q)] == IF k = 0 THEN 0 ELSE sum[k - 1] + Raw(q[k]) IN sum
RawUnderWay == RawBytes(toServer)[Len(toServer)]

\* The library and the server, which each count for themselves, agree on how much
\* of a block is missing, whatever is still under way: no call ends too early, and
\* no transfer of the server outlives its call.
SidesAgree ==
  connected =>
    /\ client.btype = "put" =>
         client.bsize = RawUnderWay + CASE call.pc = "put" -> call.todo * call.shape[2]
                                        [] call.pc = "putreq" /\ toClient # <<>> -> client.bsize
                                        [] OTHER -> 0
    /\ client.btype = "get" =>
         \/ call.pc = "getreq" /\ toClient = <<Bytes(call.shape)>>
         \/ call.pc = "get" /\ call.todo = client.bsize + IF toClient = <<>> THEN 0 ELSE Head(toClient)
    /\ call.pc = "idle" /\ toServer = <<>> => client.btype = "none"

\* The server holds memory for one block during a transfer and for none otherwise,
\* also when clients die in the middle.
MemoryExact == allocated = IF client.btype = "none" THEN 0 ELSE 1

\* Every call returns, also when the window is deleted while it goes on or when a
\* former call has failed.  The handlers of the server end, and htons() does nothing:
\* with LittleEndian the property does not hold.
CallReturns == call.pc # "idle" ~> call.pc = "idle"
=============================================================================
