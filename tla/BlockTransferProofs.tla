------------------------ MODULE BlockTransferProofs ------------------------
(***************************************************************************)
(* Proofs about BlockTransfer, for any windows, any shapes of blocks and   *)
(* any size of packets: the server's memory for blocks, and the agreement  *)
(* of library and server on what is missing of a block.                    *)
(***************************************************************************)
EXTENDS BlockTransfer, SequenceTheorems, WellFoundedInduction, TLAPS

\* The server knows what it is transferring.
Transferring ==
  client = [btype |-> client.btype, bsize |-> client.bsize, bwin |-> client.bwin]

MInv == Transferring /\ MemoryExact

\* A packet with data is taken during a transfer only.
LEMMA ProgressKeeps ==
  ASSUME MInv, client.btype # "none", NEW count, Progress(count)
  PROVE  MInv'
<1>1. allocated = 1
  BY DEF MInv, MemoryExact
<1>2. CASE client.bsize - count < 1
  <2>1. client' = [client EXCEPT !.btype = "none", !.bsize = 0] /\ allocated' = 0
    BY <1>1, <1>2 DEF Progress
  <2>2. Transferring' /\ client'.btype = "none"
    BY <2>1 DEF MInv, Transferring
  <2> QED
    BY <2>1, <2>2 DEF MInv, MemoryExact
<1>3. CASE ~(client.bsize - count < 1)
  <2>1. client' = [client EXCEPT !.bsize = @ - count] /\ allocated' = 1
    BY <1>1, <1>3 DEF Progress
  <2>2. Transferring' /\ client'.btype = client.btype
    BY <2>1 DEF MInv, Transferring
  <2> QED
    BY <2>1, <2>2 DEF MInv, MemoryExact
<1> QED
  BY <1>2, <1>3

\* A transfer starts when none is going on.
LEMMA StartKeeps ==
  ASSUME MInv, client.btype = "none", NEW type, type # "none", NEW p, NEW w, Start(type, p, w)
  PROVE  MInv'
<1>1. allocated' = 1 /\ client' = [btype |-> type, bsize |-> Bytes(p.shape), bwin |-> w]
  BY DEF MInv, MemoryExact, Start
<1>2. Transferring' /\ client'.btype = type
  BY <1>1 DEF Transferring
<1> QED
  BY <1>1, <1>2 DEF MInv, MemoryExact

\* A record of the client with another value in a field.
LEMMA OtherField ==
  ASSUME NEW r, r = [btype |-> r.btype, bsize |-> r.bsize, bwin |-> r.bwin], NEW d, NEW q,
         q = [r EXCEPT !.bwin = d] \/ q = [r EXCEPT !.btype = d]
  PROVE  /\ q = [btype |-> q.btype, bsize |-> q.bsize, bwin |-> q.bwin]
         /\ q.btype = r.btype \/ q.btype = d
         /\ q = [r EXCEPT !.bwin = d] => q.btype = r.btype
OBVIOUS

\* What else a handler changes of the client does not end or start a transfer.
LEMMA LookedKeeps ==
  ASSUME MInv, allocated' = allocated,
         \/ client' = client
         \/ \E w : client' = [client EXCEPT !.bwin = w]
         \/ client.btype = "none" /\ \E w : client' = [[client EXCEPT !.bwin = w] EXCEPT !.btype = "none"]
  PROVE  MInv'
<1>1. CASE client' = client
  BY <1>1 DEF MInv, Transferring, MemoryExact
<1>2. ASSUME NEW w, client' = [client EXCEPT !.bwin = w] PROVE MInv'
  <2>1. Transferring' /\ client'.btype = client.btype
    BY <1>2 DEF MInv, Transferring
  <2> QED
    BY <2>1 DEF MInv, MemoryExact
<1>3. ASSUME client.btype = "none",
             NEW w, client' = [[client EXCEPT !.bwin = w] EXCEPT !.btype = "none"]
      PROVE  MInv'
  <2>1. PICK looked : looked = [client EXCEPT !.bwin = w]
    OBVIOUS
  <2>2. /\ looked = [btype |-> looked.btype, bsize |-> looked.bsize, bwin |-> looked.bwin]
        /\ looked.btype = client.btype
    BY <2>1, OtherField DEF MInv, Transferring
  <2>3. client' = [looked EXCEPT !.btype = "none"]
    BY <1>3, <2>1
  <2>4. Transferring' /\ client'.btype = client.btype
    BY <1>3, <2>2, <2>3, OtherField DEF Transferring
  <2> QED
    BY <2>4 DEF MInv, MemoryExact
<1> QED
  BY <1>1, <1>2, <1>3

\* Every packet that the server serves keeps it.
LEMMA ServeKeeps ==
  ASSUME MInv, Serve
  PROVE  MInv'
<1> DEFINE p == Head(toServer)
<1>1. CASE PutReq(p)
  <2> DEFINE looked(w) == [client EXCEPT !.bwin = w]
  <2>1. PICK w : \/ allocated' = allocated /\ client' = [client EXCEPT !.bwin = w]
                 \/ /\ client.btype = "none" /\ allocated' = allocated
                    /\ client' = [[client EXCEPT !.bwin = w] EXCEPT !.btype = "none"]
                 \/ client.btype = "none" /\ Start("put", p, p.win)
    <3>1. PICK w : w = IF p.win \in live THEN p.win ELSE NoWin
      OBVIOUS
    <3> QED
      BY <1>1, <3>1 DEF PutReq, Refuse
  <2> QED
    BY <2>1, LookedKeeps, StartKeeps
<1>2. CASE GetReq(p)
  <2>1. \/ allocated' = allocated /\ client' = client
        \/ client.btype = "none" /\ Start("get", p, client.bwin)
    BY <1>2 DEF GetReq, Refuse
  <2> QED
    BY <2>1, LookedKeeps, StartKeeps
<1>3. CASE RawData(p)
  BY <1>3, ProgressKeeps, LookedKeeps DEF RawData
<1>4. CASE GetDataReq
  BY <1>4, ProgressKeeps, LookedKeeps DEF GetDataReq
<1> QED
  BY <1>1, <1>2, <1>3, <1>4 DEF Serve

\* killClient() gives the block back.
LEMMA KillKeeps ==
  ASSUME MInv, KillClient
  PROVE  MInv'
<1>1. client' = NoTransfer /\ allocated' = 0
  BY DEF MInv, MemoryExact, KillClient
<1> QED
  BY <1>1 DEF MInv, Transferring, MemoryExact, NoTransfer

\* The server holds memory for one block during a transfer and for none otherwise,
\* whatever is asked for, refused, deleted and whoever dies in the middle.
THEOREM MemoryCorrect == Spec => []MemoryExact
<1>1. Init => MInv
  BY DEF Init, MInv, Transferring, MemoryExact, NoTransfer
<1>2. MInv /\ [Next]_vars => MInv'
  <2> SUFFICES ASSUME MInv, [Next]_vars PROVE MInv'
    OBVIOUS
  <2>1. CASE UNCHANGED <<client, allocated>>
    BY <2>1, LookedKeeps
  <2>2. CASE Serve
    BY <2>2, ServeKeeps
  <2>3. CASE KillClient
    BY <2>3, KillKeeps
  <2> QED
    BY <2>1, <2>2, <2>3 DEF Next, vars, server, PutBlock, GetBlock, Library, PutAnswer, PutLines,
                           GetAnswer, GetData, Delete, Die
<1>3. MInv => MemoryExact
  BY DEF MInv
<1> QED
  BY <1>1, <1>2, <1>3, PTL DEF Spec

-----------------------------------------------------------------------------
(* The bytes under way.                                                    *)

\* The packets that the library sends.
Packet == [type : {"raw"}, bytes : Nat \ {0}]
          \union [type : {"putreq"}, win : Window, shape : Shapes]
          \union [type : {"getreq"}, win : Window, shape : {s \in Shapes : s[1] >= 1}]
          \union [type : {"getdata"}]

\* The kinds of packets.
LEMMA PacketKinds ==
  ASSUME NEW p \in Packet
  PROVE  /\ Raw(p) \in Nat
         /\ p.type = "raw" => p.bytes \in Nat \ {0} /\ Raw(p) = p.bytes
         /\ p.type # "raw" => Raw(p) = 0
         /\ p.type \in {"putreq", "getreq"} => p.win \in Window /\ p.shape \in Shapes
         /\ p.type = "getreq" => p.shape[1] >= 1
BY DEF Packet, Raw

\* A set of natural numbers has a least one.
LEMMA LeastExists ==
  ASSUME NEW S \in SUBSET Nat, S # {}
  PROVE  \E x \in S : \A y \in S : x <= y
<1>1. \E x \in S : \A y \in S : ~(<<y, x>> \in OpToRel(<, Nat))
  BY WFMin, NatLessThanWellFounded
<1>2. \A x \in S, y \in S : y < x => <<y, x>> \in OpToRel(<, Nat)
  BY DEF OpToRel
<1>3. \A x \in S, y \in S : ~(y < x) => x <= y
  OBVIOUS
<1> QED
  BY <1>1, <1>2, <1>3

\* The recursion of RawBytes defines something: an initial part of every length exists.
LEMMA RawBytesMeans ==
  ASSUME NEW q \in Seq(Packet)
  PROVE  /\ RawBytes(q)[0] = 0
         /\ \A k \in 1 .. Len(q) : RawBytes(q)[k] = RawBytes(q)[k - 1] + Raw(q[k])
         /\ \A k \in 0 .. Len(q) : RawBytes(q)[k] \in Nat
<1> DEFINE N == Len(q)
           Begun(f, n) == f[0] = 0 /\ \A k \in 1 .. n : f[k] = f[k - 1] + Raw(q[k])
           Missing == {n \in 0 .. N : ~\E f \in [0 .. n -> Nat] : Begun(f, n)}
<1>1. N \in Nat /\ \A k \in 1 .. N : Raw(q[k]) \in Nat
  BY LenProperties, PacketKinds
<1>2. ASSUME NEW n \in 0 .. N PROVE \E f \in [0 .. n -> Nat] : Begun(f, n)
  <2>1. SUFFICES ASSUME Missing # {} PROVE FALSE
    OBVIOUS
  <2>2. PICK m \in Missing : \A k \in Missing : m <= k
    <3> HIDE DEF Missing
    <3>1. Missing \in SUBSET Nat
      BY <1>1 DEF Missing
    <3> QED
      BY <2>1, <3>1, LeastExists
  <2>3. m \in 0 .. N
    OBVIOUS
  <2>4. CASE m = 0
    <3> DEFINE f == [k \in 0 .. 0 |-> 0]
    <3>1. f \in [0 .. 0 -> Nat] /\ Begun(f, 0)
      OBVIOUS
    <3> QED
      BY <2>4, <3>1
  <2>5. CASE m # 0
    <3>1. m \in 1 .. N /\ m - 1 \in 0 .. N /\ m - 1 \notin Missing
      <4>1. m \in 1 .. N /\ m - 1 \in 0 .. N /\ ~(m <= m - 1)
        BY <1>1, <2>3, <2>5
      <4> HIDE DEF Missing
      <4> QED
        BY <2>2, <4>1
    <3>2. PICK f \in [0 .. m - 1 -> Nat] : Begun(f, m - 1)
      BY <3>1
    <3> DEFINE g == [k \in 0 .. m |-> IF k = m THEN f[m - 1] + Raw(q[m]) ELSE f[k]]
    <3>3. m - 1 \in 0 .. m - 1 /\ m \in Nat /\ f[m - 1] \in Nat /\ Raw(q[m]) \in Nat
      BY <1>1, <3>1
    <3>4. g \in [0 .. m -> Nat]
      BY <3>3
    <3>5. g[m] = f[m - 1] + Raw(q[m]) /\ \A k \in 0 .. m - 1 : g[k] = f[k]
      BY <3>3
    <3> HIDE DEF g
    <3>6. g[0] = 0
      BY <3>2, <3>3, <3>5
    <3>7. ASSUME NEW k \in 1 .. m PROVE g[k] = g[k - 1] + Raw(q[k])
      <4>1. k - 1 \in 0 .. m - 1 /\ g[k - 1] = f[k - 1]
        BY <3>3, <3>5
      <4>2. k # m => k \in 1 .. m - 1 /\ k \in 0 .. m - 1
        BY <3>3
      <4> QED
        BY <3>2, <3>5, <4>1, <4>2
    <3> QED
      BY <3>4, <3>6, <3>7
  <2> QED
    BY <2>4, <2>5
<1>3. PICK f \in [0 .. N -> Nat] : Begun(f, N)
  <2>1. N \in 0 .. N
    BY <1>1
  <2> HIDE DEF Begun
  <2> QED
    BY <1>2, <2>1
<1> DEFINE Rec(sum) == sum = [k \in 0 .. N |-> IF k = 0 THEN 0 ELSE sum[k - 1] + Raw(q[k])]
<1>4. Rec(f)
  <2>1. \A k \in 0 .. N : f[k] = IF k = 0 THEN 0 ELSE f[k - 1] + Raw(q[k])
    BY <1>1, <1>3
  <2>2. f = [k \in 0 .. N |-> f[k]]
    OBVIOUS
  <2> QED
    BY <2>1, <2>2
<1> DEFINE sum == RawBytes(q)
<1>5. sum = CHOOSE g : Rec(g)
  BY DEF RawBytes
<1>6. Rec(sum)
  <2> HIDE DEF Rec, sum
  <2> QED
    BY <1>4, <1>5
<1>7. \A k \in 0 .. N : sum[k] = IF k = 0 THEN 0 ELSE sum[k - 1] + Raw(q[k])
  <2> HIDE DEF sum
  <2> QED
    BY <1>6
<1> HIDE DEF sum
<1>8. sum[0] = 0 /\ \A k \in 1 .. N : sum[k] = sum[k - 1] + Raw(q[k])
  BY <1>1, <1>7
<1> DEFINE Bad == {k \in 0 .. N : sum[k] \notin Nat}
<1>9. Bad = {}
  <2>1. SUFFICES ASSUME Bad # {} PROVE FALSE
    OBVIOUS
  <2>2. PICK m \in Bad : \A k \in Bad : m <= k
    <3> HIDE DEF Bad
    <3>1. Bad \in SUBSET Nat
      BY <1>1 DEF Bad
    <3> QED
      BY <2>1, <3>1, LeastExists
  <2>3. m # 0
    BY <1>8
  <2>4. m \in 1 .. N /\ m - 1 \in 0 .. N /\ m - 1 \notin Bad
    BY <1>1, <2>2, <2>3
  <2> QED
    BY <1>1, <1>8, <2>4
<1> QED
  BY <1>8, <1>9 DEF sum

Total(q) == RawBytes(q)[Len(q)]

\* Two queues whose packets agree have the same sums.
LEMMA SumsAgree ==
  ASSUME NEW q \in Seq(Packet), NEW r \in Seq(Packet), NEW n \in Nat, NEW d \in Nat,
         n <= Len(q), n + d <= Len(r), \A k \in 1 .. n : q[k] = r[k + d]
  PROVE  RawBytes(r)[n + d] = RawBytes(r)[d] + RawBytes(q)[n]
<1> DEFINE a == RawBytes(q)  b == RawBytes(r)
           Bad == {k \in 0 .. n : b[k + d] # b[d] + a[k]}
<1>1. Len(q) \in Nat /\ Len(r) \in Nat
  BY LenProperties
<1>2. /\ a[0] = 0 /\ \A k \in 1 .. n : a[k] = a[k - 1] + Raw(q[k])
      /\ \A k \in 0 .. n : a[k] \in Nat
  BY <1>1, RawBytesMeans
<1>3. /\ \A k \in 1 .. n + d : b[k] = b[k - 1] + Raw(r[k])
      /\ \A k \in 0 .. n + d : b[k] \in Nat
  BY <1>1, RawBytesMeans
<1>4. \A k \in 1 .. n : Raw(q[k]) \in Nat
  BY <1>1, PacketKinds
<1> HIDE DEF a, b
<1>5. Bad = {}
  <2>1. SUFFICES ASSUME Bad # {} PROVE FALSE
    OBVIOUS
  <2>2. PICK m \in Bad : \A k \in Bad : m <= k
    <3> HIDE DEF Bad
    <3>1. Bad \in SUBSET Nat
      BY DEF Bad
    <3> QED
      BY <2>1, <3>1, LeastExists
  <2>3. m # 0
    <3>1. d \in 0 .. n + d /\ 0 + d = d
      OBVIOUS
    <3> QED
      BY <1>2, <1>3, <3>1
  <2>4. m \in 1 .. n /\ m - 1 \in 0 .. n /\ m - 1 \notin Bad
    BY <2>2, <2>3
  <2>5. b[(m - 1) + d] = b[d] + a[m - 1]
    BY <2>4
  <2>6. m + d \in 1 .. n + d /\ (m + d) - 1 = (m - 1) + d /\ q[m] = r[m + d]
    BY <2>4
  <2>7. b[m + d] = b[(m - 1) + d] + Raw(q[m]) /\ a[m] = a[m - 1] + Raw(q[m])
    BY <1>2, <1>3, <2>4, <2>6
  <2>8. b[d] \in Nat /\ a[m - 1] \in Nat /\ Raw(q[m]) \in Nat
    <3>1. d \in 0 .. n + d
      OBVIOUS
    <3> QED
      BY <1>2, <1>3, <1>4, <2>4, <3>1
  <2>9. b[m + d] = b[d] + a[m]
    BY <2>5, <2>7, <2>8
  <2> QED
    BY <2>9
<1> QED
  <2>1. n \in 0 .. n
    OBVIOUS
  <2> QED
    BY <1>5, <2>1 DEF a, b

\* A packet more, and one less.
LEMMA TotalSent ==
  ASSUME NEW q \in Seq(Packet), NEW p \in Packet
  PROVE  /\ Append(q, p) \in Seq(Packet) /\ Total(q) \in Nat
         /\ Total(Append(q, p)) = Total(q) + Raw(p)
<1> DEFINE r == Append(q, p)
           n == Len(q)
<1>1. r \in Seq(Packet) /\ n \in Nat /\ Len(r) = n + 1 /\ r[n + 1] = p
      /\ \A k \in 1 .. n : r[k] = q[k]
  BY AppendProperties, LenProperties
<1> HIDE DEF r
<1>2. RawBytes(r)[n + 1] = RawBytes(r)[(n + 1) - 1] + Raw(r[n + 1])
  BY <1>1, RawBytesMeans
<1>3. RawBytes(r)[n + 0] = RawBytes(r)[0] + RawBytes(q)[n]
  <2>1. \A k \in 1 .. n : q[k] = r[k + 0]
    BY <1>1
  <2>2. 0 \in Nat /\ n <= Len(q) /\ n + 0 <= Len(r)
    BY <1>1
  <2> HIDE DEF n
  <2> QED
    BY <1>1, <2>1, <2>2, SumsAgree
<1>4. RawBytes(r)[0] = 0 /\ RawBytes(q)[n] \in Nat
  BY <1>1, RawBytesMeans
<1>5. (n + 1) - 1 = n /\ n + 0 = n
  BY <1>1
<1>6. RawBytes(r)[n + 1] = RawBytes(q)[n] + Raw(p)
  BY <1>1, <1>2, <1>3, <1>4, <1>5
<1> QED
  BY <1>1, <1>4, <1>6 DEF r, Total

LEMMA TotalTaken ==
  ASSUME NEW q \in Seq(Packet), q # <<>>
  PROVE  /\ Tail(q) \in Seq(Packet) /\ Head(q) \in Packet /\ Total(Tail(q)) \in Nat
         /\ Total(q) = Raw(Head(q)) + Total(Tail(q))
<1> DEFINE r == Tail(q)
           n == Len(q)
<1>1. /\ r \in Seq(Packet) /\ n \in Nat \ {0} /\ Len(r) = n - 1 /\ Head(q) = q[1]
      /\ Head(q) \in Packet /\ \A k \in 1 .. n - 1 : r[k] = q[k + 1]
  BY HeadTailProperties, LenProperties, EmptySeq
<1> HIDE DEF r
<1>2. RawBytes(q)[(n - 1) + 1] = RawBytes(q)[1] + RawBytes(r)[n - 1]
  <2>1. n - 1 \in Nat /\ 1 \in Nat /\ n - 1 <= Len(r) /\ (n - 1) + 1 <= Len(q)
    BY <1>1
  <2>2. r \in Seq(Packet) /\ \A k \in 1 .. n - 1 : r[k] = q[k + 1]
    BY <1>1
  <2> HIDE DEF n
  <2> QED
    BY <2>1, <2>2, SumsAgree
<1>3. RawBytes(q)[1] = RawBytes(q)[1 - 1] + Raw(q[1]) /\ RawBytes(q)[0] = 0
  BY <1>1, RawBytesMeans
<1>4. RawBytes(r)[n - 1] \in Nat /\ Raw(q[1]) \in Nat
  BY <1>1, RawBytesMeans, PacketKinds
<1>5. (n - 1) + 1 = n /\ 1 - 1 = 0
  BY <1>1
<1>6. RawBytes(q)[n] = Raw(q[1]) + RawBytes(r)[n - 1]
  BY <1>2, <1>3, <1>4, <1>5
<1> QED
  BY <1>1, <1>4, <1>6 DEF r, Total

-----------------------------------------------------------------------------
(* The agreement of both sides.                                            *)

Block == Nat \X (Nat \ {0})

Known ==
  /\ live \subseteq Window
  /\ call \in [pc : {"idle", "putreq", "put", "getreq", "get"}, win : Window \union {NoWin},
               shape : Block, todo : Nat]
  /\ client \in [btype : {"none", "put", "get"}, bsize : Nat, bwin : Window \union {NoWin}]
  /\ client.btype = "none" <=> client.bsize = 0
  /\ toServer \in Seq(Packet) /\ toClient \in Seq(Int)
  /\ call.pc \in {"putreq", "put"} => call.shape[2] <= Space
  /\ ~connected => call.pc = "idle"

\* Only data is under way; or a request behind it.
OnlyData == \A k \in DOMAIN toServer : toServer[k].type = "raw"
Asking ==
  LET n == Len(toServer)
  IN  /\ n >= 1 /\ toServer[n].type = call.pc /\ toServer[n].shape = call.shape
      /\ \A k \in 1 .. n - 1 : toServer[k].type = "raw"

\* The server expects n bytes of the library.
Owes(n) == client.btype # "get" /\ client.bsize = n

\* The answer to a request is under way, and the transfer of the given type has begun
\* if it is not an error.
Answered(type) ==
  /\ toServer = <<>> /\ Len(toClient) = 1
  /\ IF toClient[1] = Bytes(call.shape)
     THEN client.btype = type /\ client.bsize = Bytes(call.shape)
     ELSE client.btype = "none"

\* Where both sides are in the course of a call.
Sides ==
  \/ call.pc = "idle" /\ toClient = <<>> /\ OnlyData /\ Owes(Total(toServer))
  \/ call.pc \in {"putreq", "getreq"} /\ toClient = <<>> /\ Asking /\ Owes(Total(toServer))
  \/ call.pc = "putreq" /\ Answered("put")
  \/ call.pc = "getreq" /\ Answered("get")
  \/ /\ call.pc = "put" /\ toClient = <<>> /\ OnlyData
     /\ Owes(Total(toServer) + call.todo * call.shape[2])
  \/ /\ call.pc = "get" /\ client.btype = "get"
     /\ Len(toServer) = 1 /\ toServer[1].type = "getdata"
     /\ toClient = <<>> /\ call.todo = client.bsize
  \/ /\ call.pc = "get" /\ client.btype # "put"
     /\ toServer = <<>>
     /\ Len(toClient) = 1 /\ toClient[1] >= 1 /\ call.todo = client.bsize + toClient[1]

AInv == Known /\ (connected => Sides)

\* What is known of the fields.
LEMMA KnownFields ==
  ASSUME Known
  PROVE  /\ call.pc \in {"idle", "putreq", "put", "getreq", "get"} /\ call.todo \in Nat
         /\ call.win \in Window \union {NoWin}
         /\ call.shape \in Block /\ call.shape[1] \in Nat /\ call.shape[2] \in Nat \ {0}
         /\ Bytes(call.shape) \in Nat
         /\ client.btype \in {"none", "put", "get"} /\ client.bsize \in Nat
         /\ client.bwin \in Window \union {NoWin}
         /\ toServer \in Seq(Packet) /\ Len(toServer) \in Nat /\ DOMAIN toServer = 1 .. Len(toServer)
         /\ \A k \in 1 .. Len(toServer) : toServer[k] \in Packet
         /\ toClient \in Seq(Int) /\ Total(toServer) \in Nat
<1>1. toServer \in Seq(Packet) /\ toClient \in Seq(Int)
  BY DEF Known
<1>2. /\ call.pc \in {"idle", "putreq", "put", "getreq", "get"} /\ call.todo \in Nat
      /\ call.win \in Window \union {NoWin} /\ call.shape \in Block
  BY DEF Known
<1>3. /\ client.btype \in {"none", "put", "get"} /\ client.bsize \in Nat
      /\ client.bwin \in Window \union {NoWin}
  BY DEF Known
<1>4. call.shape[1] \in Nat /\ call.shape[2] \in Nat \ {0}
  BY <1>2 DEF Block
<1>5. Bytes(call.shape) \in Nat
  BY <1>4 DEF Bytes
<1>6. /\ Len(toServer) \in Nat /\ DOMAIN toServer = 1 .. Len(toServer)
      /\ \A k \in 1 .. Len(toServer) : toServer[k] \in Packet
  BY <1>1, LenProperties
<1>7. Total(toServer) \in Nat
  <2>1. Len(toServer) \in 0 .. Len(toServer)
    BY <1>6
  <2> QED
    BY <1>1, <2>1, RawBytesMeans DEF Total
<1> QED
  BY <1>1, <1>2, <1>3, <1>4, <1>5, <1>6, <1>7

\* A block that is not empty.
LEMMA BytesPositive ==
  ASSUME NEW s \in Block
  PROVE  /\ Bytes(s) \in Nat
         /\ s[1] >= 1 => Bytes(s) >= 1
         /\ s[1] = 0 => Bytes(s) = 0
<1>1. s[1] \in Nat /\ s[2] \in Nat \ {0}
  BY DEF Block
<1>2. \A a \in Nat, b \in Nat \ {0} : a * b \in Nat /\ (a >= 1 => a * b >= 1) /\ 0 * b = 0
  OBVIOUS
<1> QED
  BY <1>1, <1>2 DEF Bytes

\* The shapes that are asked for.
LEMMA ShapesAreBlocks == Shapes \subseteq Block
BY ShapeAssumption DEF Block

\* The library asks for a transfer.
LEMMA AskKeeps ==
  ASSUME AInv, connected, call.pc = "idle", UNCHANGED <<toClient, server>>,
         NEW type \in {"putreq", "getreq"}, NEW w \in Window, NEW shape \in Shapes,
         type = "putreq" => shape[2] <= Space, type = "getreq" => shape[1] >= 1,
         toServer' = Append(toServer, [type |-> type, win |-> w, shape |-> shape]),
         call' = [pc |-> type, win |-> w, shape |-> shape, todo |-> 0]
  PROVE  AInv'
<1> DEFINE p == [type |-> type, win |-> w, shape |-> shape]
<1> USE DEF server
<1>1. p \in Packet /\ p.type = type /\ p.shape = shape
  BY DEF Packet
<1>2. Raw(p) = 0
  BY <1>1, PacketKinds
<1>3. Known /\ toClient = <<>> /\ OnlyData /\ Owes(Total(toServer))
  BY DEF AInv, Sides
<1>4. /\ toServer' \in Seq(Packet) /\ Len(toServer') = Len(toServer) + 1
      /\ toServer'[Len(toServer) + 1] = p
      /\ \A k \in 1 .. Len(toServer) : toServer'[k] = toServer[k]
      /\ Total(toServer') = Total(toServer)
  <2>1. toServer \in Seq(Packet) /\ Total(toServer) \in Nat
    BY <1>3, KnownFields
  <2>2. Total(toServer') = Total(toServer) + Raw(p)
    BY <1>1, <2>1, TotalSent
  <2> HIDE DEF p
  <2>3. toServer' = Append(toServer, p)
    BY DEF p
  <2> QED
    BY <1>1, <1>2, <2>1, <2>2, <2>3, AppendProperties
<1>5. Known'
  <2>1. shape \in Block
    BY ShapesAreBlocks
  <2>2. /\ call' \in [pc : {"idle", "putreq", "put", "getreq", "get"}, win : Window \union {NoWin},
                      shape : Block, todo : Nat]
        /\ call'.pc = type /\ call'.shape = shape
    BY <2>1
  <2> QED
    BY <1>3, <1>4, <2>2 DEF Known
<1>6. Asking'
  <2>1. Len(toServer) \in Nat
    BY <1>3, KnownFields
  <2>2. \A k \in 1 .. Len(toServer) : toServer[k].type = "raw"
    BY <1>3, KnownFields DEF OnlyData
  <2>3. call'.pc = type /\ call'.shape = shape
    OBVIOUS
  <2> HIDE DEF p
  <2> QED
    BY <1>1, <1>4, <2>1, <2>2, <2>3 DEF Asking
<1>7. Owes(Total(toServer))'
  BY <1>3, <1>4 DEF Owes
<1>8. Sides'
  BY <1>3, <1>6, <1>7 DEF Sides
<1> QED
  BY <1>5, <1>8 DEF AInv

\* The library gets the answer to its request.
LEMMA AnswerTaken ==
  ASSUME AInv, connected, call.pc \in {"putreq", "getreq"}, toClient # <<>>
  PROVE  /\ Known /\ toServer = <<>> /\ Total(toServer) = 0 /\ Len(toClient) = 1
         /\ Head(toClient) = toClient[1] /\ Tail(toClient) = <<>>
         /\ Answered(IF call.pc = "putreq" THEN "put" ELSE "get")
<1>1. Known /\ Answered(IF call.pc = "putreq" THEN "put" ELSE "get")
  BY DEF AInv, Sides
<1>2. toServer = <<>> /\ Len(toClient) = 1
  BY <1>1 DEF Answered
<1>3. toClient \in Seq(Int)
  BY <1>1, KnownFields
<1>4. Head(toClient) = toClient[1] /\ Tail(toClient) = <<>>
  <2>1. toClient # <<>> /\ Head(toClient) = toClient[1]
    BY <1>2, <1>3
  <2>2. Tail(toClient) \in Seq(Int) /\ Len(Tail(toClient)) = 0
    BY <1>2, <1>3, <2>1, HeadTailProperties
  <2> QED
    BY <2>1, <2>2, EmptySeq
<1>5. Total(toServer) = 0
  <2>1. toServer \in Seq(Packet) /\ Len(toServer) = 0
    BY <1>1, <1>2, KnownFields
  <2> QED
    BY <2>1, RawBytesMeans DEF Total
<1> QED
  BY <1>1, <1>2, <1>4, <1>5

\* A call that returns while nothing is under way that anybody waits for.
LEMMA ReturnKeeps ==
  ASSUME Known, UNCHANGED <<toServer, server>>, toClient' = <<>>, call' = Idle,
         OnlyData, Owes(Total(toServer))
  PROVE  AInv'
<1> USE DEF server
<1>1. Idle \in [pc : {"idle", "putreq", "put", "getreq", "get"}, win : Window \union {NoWin},
                shape : Block, todo : Nat]
      /\ Idle.pc = "idle"
  BY DEF Idle, Block
<1>2. Known'
  BY <1>1 DEF Known
<1>3. OnlyData' /\ Owes(Total(toServer))'
  BY DEF OnlyData, Owes
<1>4. Sides'
  BY <1>1, <1>3 DEF Sides
<1> QED
  BY <1>2, <1>4 DEF AInv

\* The call with other values in two fields.
LEMMA CallChanges ==
  ASSUME Known, NEW pc \in {"putreq", "put", "getreq", "get"}, NEW n \in Nat
  PROVE  /\ [call EXCEPT !.pc = pc, !.todo = n] \in
              [pc : {"idle", "putreq", "put", "getreq", "get"}, win : Window \union {NoWin},
               shape : Block, todo : Nat]
         /\ [call EXCEPT !.pc = pc, !.todo = n].pc = pc
         /\ [call EXCEPT !.pc = pc, !.todo = n].todo = n
         /\ [call EXCEPT !.pc = pc, !.todo = n].shape = call.shape
         /\ [call EXCEPT !.todo = n] = [call EXCEPT !.pc = call.pc, !.todo = n]
BY DEF Known

LEMMA PutAnswerKeeps ==
  ASSUME AInv, connected, PutAnswer
  PROVE  AInv'
<1> USE DEF server
<1>1. /\ Known /\ toServer = <<>> /\ Total(toServer) = 0 /\ Len(toClient) = 1 /\ call.pc = "putreq"
      /\ Head(toClient) = toClient[1] /\ toClient' = <<>> /\ Answered("put")
      /\ toServer' = toServer /\ UNCHANGED server
  BY AnswerTaken DEF PutAnswer
<1>2. OnlyData
  BY <1>1 DEF OnlyData
<1>3. CASE toClient[1] # Bytes(call.shape)
  <2>1. call' = Idle
    BY <1>1, <1>3 DEF PutAnswer, Return
  <2>2. Owes(Total(toServer))
    BY <1>1, <1>3 DEF Answered, Owes, Known
  <2> QED
    BY <1>1, <1>2, <2>1, <2>2, ReturnKeeps
<1>4. CASE toClient[1] = Bytes(call.shape)
  <2>1. call' = [call EXCEPT !.pc = "put", !.todo = call.shape[1]]
    BY <1>1, <1>4 DEF PutAnswer
  <2>2. /\ call.shape[1] \in Nat /\ call.shape[2] <= Space
        /\ client.btype = "put" /\ client.bsize = call.shape[1] * call.shape[2]
    BY <1>1, <1>4, KnownFields DEF Answered, Known, Bytes
  <2>3. /\ call' \in [pc : {"idle", "putreq", "put", "getreq", "get"}, win : Window \union {NoWin},
                      shape : Block, todo : Nat]
        /\ call'.pc = "put" /\ call'.todo = call.shape[1] /\ call'.shape = call.shape
    BY <1>1, <2>1, <2>2, CallChanges
  <2>4. Known'
    BY <1>1, <2>2, <2>3, EmptySeq DEF Known
  <2>5. Owes(Total(toServer) + call.todo * call.shape[2])'
    <3>1. call.shape[1] * call.shape[2] \in Nat
      BY <1>1, KnownFields
    <3> QED
      BY <1>1, <2>2, <2>3, <3>1 DEF Owes
  <2>6. Sides'
    BY <1>1, <1>2, <2>3, <2>5 DEF Sides, OnlyData
  <2> QED
    BY <2>4, <2>6 DEF AInv
<1> QED
  BY <1>3, <1>4

\* As many lines as fit: at least one, and no more than there are.
LEMMA LinesMeans ==
  ASSUME NEW todo \in Nat \ {0}, NEW b \in Nat \ {0}, b <= Space
  PROVE  LET n == Least(Space \div b, todo)
         IN  /\ n \in Nat \ {0} /\ n <= todo /\ todo - n \in Nat /\ n * b \in Nat \ {0}
             /\ (todo - n) * b \in Nat
             /\ (todo - n) * b + n * b = todo * b
<1> DEFINE n == Least(Space \div b, todo)
<1>1. Space \in Nat \ {0}
  BY SpaceAssumption
<1>2. Space \div b \in Nat \ {0}
  BY <1>1
<1>3. n \in Nat \ {0} /\ n <= todo
  BY <1>2 DEF Least
<1> HIDE DEF n
<1>4. \A i \in Nat, j \in Nat \ {0} : i * j \in Nat /\ (i # 0 => i * j # 0)
  OBVIOUS
<1>5. \A i \in Nat, j \in Nat : (i - j) * b + j * b = i * b
  OBVIOUS
<1>6. todo - n \in Nat
  BY <1>3
<1> QED
  BY <1>3, <1>4, <1>5, <1>6 DEF n

LEMMA PutLinesKeeps ==
  ASSUME AInv, connected, PutLines
  PROVE  AInv'
<1> USE DEF server
<1>1. /\ Known /\ call.pc = "put" /\ toClient = <<>> /\ toClient' = <<>> /\ UNCHANGED server
      /\ OnlyData /\ Owes(Total(toServer) + call.todo * call.shape[2]) /\ call.shape[2] <= Space
  BY DEF AInv, Sides, PutLines, Known
<1>2. /\ call.todo \in Nat /\ call.shape[2] \in Nat \ {0} /\ Total(toServer) \in Nat
      /\ toServer \in Seq(Packet) /\ Len(toServer) \in Nat /\ DOMAIN toServer = 1 .. Len(toServer)
  BY <1>1, KnownFields
<1>3. CASE call.todo = 0
  <2>1. call' = Idle /\ toServer' = toServer
    BY <1>1, <1>3 DEF PutLines, Return
  <2>2. 0 * call.shape[2] = 0
    BY <1>2
  <2>3. Owes(Total(toServer))
    BY <1>1, <1>2, <1>3, <2>2 DEF Owes
  <2> QED
    BY <1>1, <2>1, <2>3, ReturnKeeps
<1>4. CASE call.todo # 0
  <2> DEFINE b == call.shape[2]
             n == Least(Space \div b, call.todo)
             p == [type |-> "raw", bytes |-> n * b]
  <2>1. call.todo > 0 /\ call.todo \in Nat \ {0}
    BY <1>2, <1>4
  <2>2. /\ n \in Nat \ {0} /\ n <= call.todo /\ call.todo - n \in Nat /\ n * b \in Nat \ {0}
        /\ (call.todo - n) * b + n * b = call.todo * b
    BY <1>1, <1>2, <2>1, LinesMeans
  <2>3. toServer' = Append(toServer, p) /\ call' = [call EXCEPT !.todo = call.todo - n]
    BY <1>1, <2>1 DEF PutLines, Send
  <2> HIDE DEF n
  <2>4. p \in Packet /\ p.type = "raw" /\ Raw(p) = n * b
    BY <2>2 DEF Packet, Raw
  <2> HIDE DEF p
  <2>5. /\ toServer' \in Seq(Packet) /\ Len(toServer') = Len(toServer) + 1
        /\ toServer'[Len(toServer) + 1] = p
        /\ \A k \in 1 .. Len(toServer) : toServer'[k] = toServer[k]
        /\ Total(toServer') = Total(toServer) + n * b
    BY <1>2, <2>3, <2>4, TotalSent, AppendProperties
  <2>6. /\ call' \in [pc : {"idle", "putreq", "put", "getreq", "get"}, win : Window \union {NoWin},
                      shape : Block, todo : Nat]
        /\ call'.pc = "put" /\ call'.todo = call.todo - n /\ call'.shape = call.shape
    BY <1>1, <2>2, <2>3, CallChanges
  <2>7. Known'
    BY <1>1, <2>5, <2>6 DEF Known
  <2>8. OnlyData'
    <3>1. DOMAIN toServer' = 1 .. Len(toServer) + 1
      BY <2>5, LenProperties
    <3>2. \A k \in 1 .. Len(toServer) + 1 : k \in 1 .. Len(toServer) \/ k = Len(toServer) + 1
      BY <1>2
    <3> QED
      BY <1>1, <1>2, <2>4, <2>5, <3>1, <3>2 DEF OnlyData
  <2>9. Owes(Total(toServer) + call.todo * call.shape[2])'
    <3>1. Total(toServer) + call.todo * b = (Total(toServer) + n * b) + (call.todo - n) * b
      <4> DEFINE x == (call.todo - n) * b
                 y == n * b
                 z == call.todo * b
      <4>1. x \in Nat /\ y \in Nat /\ x + y = z /\ Total(toServer) \in Nat
        BY <1>2, <2>2
      <4> HIDE DEF x, y, z
      <4>2. Total(toServer) + z = (Total(toServer) + y) + x
        BY <4>1
      <4> QED
        BY <4>2 DEF x, y, z
    <3> QED
      BY <1>1, <2>5, <2>6, <3>1 DEF Owes
  <2> QED
    BY <1>1, <2>6, <2>7, <2>8, <2>9 DEF AInv, Sides
<1> QED
  BY <1>3, <1>4

\* A list of one packet.
LEMMA OneData ==
  LET q == Append(<<>>, [type |-> "getdata"])
  IN  q \in Seq(Packet) /\ Len(q) = 1 /\ q[1].type = "getdata"
<1>1. [type |-> "getdata"] \in Packet
  BY DEF Packet
<1> QED
  BY <1>1

LEMMA GetAnswerKeeps ==
  ASSUME AInv, connected, GetAnswer
  PROVE  AInv'
<1> USE DEF server
<1>1. /\ Known /\ toServer = <<>> /\ Total(toServer) = 0 /\ Len(toClient) = 1 /\ call.pc = "getreq"
      /\ Head(toClient) = toClient[1] /\ toClient' = <<>> /\ Answered("get")
      /\ UNCHANGED server
  BY AnswerTaken DEF GetAnswer
<1>2. OnlyData
  BY <1>1 DEF OnlyData
<1>3. CASE toClient[1] # Bytes(call.shape)
  <2>1. call' = Idle /\ toServer' = toServer
    BY <1>1, <1>3 DEF GetAnswer, Return
  <2>2. Owes(Total(toServer))
    BY <1>1, <1>3 DEF Answered, Owes, Known
  <2> QED
    BY <1>1, <1>2, <2>1, <2>2, ReturnKeeps
<1>4. CASE toClient[1] = Bytes(call.shape)
  <2>1. /\ call' = [call EXCEPT !.pc = "get", !.todo = Bytes(call.shape)]
        /\ toServer' = Append(<<>>, [type |-> "getdata"])
    BY <1>1, <1>4 DEF GetAnswer, Send
  <2>2. Bytes(call.shape) \in Nat /\ client.btype = "get" /\ client.bsize = Bytes(call.shape)
    BY <1>1, <1>4, KnownFields DEF Answered
  <2>3. /\ call' \in [pc : {"idle", "putreq", "put", "getreq", "get"}, win : Window \union {NoWin},
                      shape : Block, todo : Nat]
        /\ call'.pc = "get" /\ call'.todo = Bytes(call.shape)
    BY <1>1, <2>1, <2>2, CallChanges
  <2>4. toServer' \in Seq(Packet) /\ Len(toServer') = 1 /\ toServer'[1].type = "getdata"
    BY <2>1, OneData
  <2>5. Known'
    BY <1>1, <2>3, <2>4, EmptySeq DEF Known
  <2> QED
    BY <1>1, <2>2, <2>3, <2>4, <2>5 DEF AInv, Sides
<1> QED
  BY <1>3, <1>4

LEMMA GetDataKeeps ==
  ASSUME AInv, connected, GetData
  PROVE  AInv'
<1> USE DEF server
<1>1. /\ Known /\ call.pc = "get" /\ client.btype # "put" /\ toServer = <<>>
      /\ Len(toClient) = 1 /\ toClient[1] >= 1 /\ call.todo = client.bsize + toClient[1]
      /\ UNCHANGED server
  BY DEF AInv, Sides, GetData
<1>2. /\ toClient \in Seq(Int) /\ client.bsize \in Nat /\ call.todo \in Nat
      /\ toServer \in Seq(Packet)
  BY <1>1, KnownFields
<1>3. toClient[1] \in Int /\ Head(toClient) = toClient[1] /\ Tail(toClient) = <<>>
  <2>0. toClient # <<>>
    BY <1>1
  <2>1. toClient # <<>> /\ Head(toClient) = toClient[1] /\ toClient[1] \in Int
    BY <1>2, <2>0, HeadTailProperties
  <2>2. Tail(toClient) \in Seq(Int) /\ Len(Tail(toClient)) = 0
    BY <1>1, <1>2, <2>1, HeadTailProperties
  <2> QED
    BY <2>1, <2>2, EmptySeq
<1>4. toClient' = <<>> /\ call.todo - Head(toClient) = client.bsize
  BY <1>1, <1>2, <1>3 DEF GetData
<1>5. CASE client.bsize = 0
  <2>1. call' = Idle /\ toServer' = toServer
    BY <1>4, <1>5 DEF GetData, Return
  <2>2. OnlyData /\ Total(toServer) = 0
    <3>1. RawBytes(toServer)[0] = 0 /\ Len(toServer) = 0
      BY <1>1, <1>2, RawBytesMeans
    <3> QED
      BY <1>1, <3>1 DEF Total, OnlyData
  <2>3. Owes(Total(toServer))
    BY <1>1, <1>5, <2>2 DEF Owes, Known
  <2> QED
    BY <1>1, <1>4, <2>1, <2>2, <2>3, ReturnKeeps
<1>6. CASE client.bsize # 0
  <2>1. ~(client.bsize < 0) /\ client.bsize \in Nat
    BY <1>2
  <2>2. /\ call' = [call EXCEPT !.todo = client.bsize]
        /\ toServer' = Append(<<>>, [type |-> "getdata"])
    BY <1>1, <1>4, <1>6, <2>1 DEF GetData, Send
  <2>3. /\ call' \in [pc : {"idle", "putreq", "put", "getreq", "get"}, win : Window \union {NoWin},
                      shape : Block, todo : Nat]
        /\ call'.pc = "get" /\ call'.todo = client.bsize
    BY <1>1, <2>1, <2>2, CallChanges
  <2>4. toServer' \in Seq(Packet) /\ Len(toServer') = 1 /\ toServer'[1].type = "getdata"
    BY <2>2, OneData
  <2>5. Known'
    BY <1>1, <1>4, <2>3, <2>4, EmptySeq DEF Known
  <2>6. client.btype = "get"
    BY <1>1, <1>6, KnownFields DEF Known
  <2> QED
    BY <1>1, <1>4, <2>3, <2>4, <2>5, <2>6 DEF AInv, Sides
<1> QED
  BY <1>5, <1>6

\* A record of the client with other values.
LEMMA ClientChanges ==
  ASSUME Known, NEW w \in Window \union {NoWin}, NEW t \in {"none", "put", "get"}, NEW n \in Nat
  PROVE  LET Fits(r) == r \in [btype : {"none", "put", "get"}, bsize : Nat, bwin : Window \union {NoWin}]
         IN  /\ Fits([client EXCEPT !.bwin = w]) /\ Fits([client EXCEPT !.bsize = n])
             /\ Fits([client EXCEPT !.btype = t, !.bsize = n])
             /\ Fits([[client EXCEPT !.bwin = w] EXCEPT !.btype = t])
             /\ [client EXCEPT !.bwin = w].btype = client.btype
             /\ [client EXCEPT !.bwin = w].bsize = client.bsize
             /\ [client EXCEPT !.bsize = n].btype = client.btype
             /\ [client EXCEPT !.bsize = n].bsize = n
             /\ [client EXCEPT !.btype = t, !.bsize = n].btype = t
             /\ [client EXCEPT !.btype = t, !.bsize = n].bsize = n
             /\ [[client EXCEPT !.bwin = w] EXCEPT !.btype = t].btype = t
             /\ [[client EXCEPT !.bwin = w] EXCEPT !.btype = t].bsize = client.bsize
BY DEF Known

\* The number of bytes that are missing goes down.
LEMMA ProgressMeans ==
  ASSUME Known, NEW count \in Nat, count <= client.bsize, Progress(count)
  PROVE  /\ client' \in [btype : {"none", "put", "get"}, bsize : Nat, bwin : Window \union {NoWin}]
         /\ client'.btype = "none" <=> client'.bsize = 0
         /\ client'.bsize = client.bsize - count
         /\ client'.btype \in {client.btype, "none"}
<1>1. client.bsize \in Nat /\ client.bwin \in Window \union {NoWin}
      /\ client.btype \in {"none", "put", "get"} /\ 0 \in Nat
  BY KnownFields
<1>2. CASE client.bsize - count < 1
  <2>1. client' = [client EXCEPT !.btype = "none", !.bsize = 0]
    BY <1>2 DEF Progress
  <2>2. client.bsize - count = 0
    BY <1>1, <1>2
  <2> QED
    BY <1>1, <2>1, <2>2, ClientChanges
<1>3. CASE ~(client.bsize - count < 1)
  <2> DEFINE n == client.bsize - count
  <2>1. client' = [client EXCEPT !.bsize = n]
    BY <1>3 DEF Progress
  <2>2. n \in Nat /\ n # 0 /\ client.bsize # 0
    BY <1>1, <1>3
  <2> HIDE DEF n
  <2>3. /\ client' \in [btype : {"none", "put", "get"}, bsize : Nat, bwin : Window \union {NoWin}]
        /\ client'.bsize = n /\ client'.btype = client.btype
    BY <1>1, <2>1, <2>2, ClientChanges
  <2>4. client.btype # "none"
    BY <2>2 DEF Known
  <2> QED
    BY <2>2, <2>3, <2>4 DEF n
<1> QED
  BY <1>2, <1>3

\* What the server answers and what it expects after a request for a transfer.
LEMMA PutReqMeans ==
  ASSUME Known, NEW p \in Packet, p.type = "putreq", PutReq(p)
  PROVE  /\ client' \in [btype : {"none", "put", "get"}, bsize : Nat, bwin : Window \union {NoWin}]
         /\ client'.btype = "none" <=> client'.bsize = 0
         /\ \E n \in Int : /\ toClient' = Append(toClient, n)
                           /\ \/ n < 0 /\ client'.btype = client.btype
                              \/ /\ n = Bytes(p.shape) /\ client'.btype = "put"
                                 /\ client'.bsize = n
<1>1. /\ p.win \in Window /\ p.shape \in Block
      /\ client.bsize \in Nat /\ client.bwin \in Window \union {NoWin}
      /\ client.btype \in {"none", "put", "get"}
      /\ client.btype = "none" <=> client.bsize = 0
  BY PacketKinds, KnownFields, ShapesAreBlocks DEF Known
<1> DEFINE v == IF p.win \in live THEN p.win ELSE NoWin
<1>2. v \in Window \union {NoWin}
  BY <1>1
<1>3. PutReq(p) => \/ \E e \in {-1, -2, -3} : Refuse(e) /\ client' = [client EXCEPT !.bwin = v]
                   \/ /\ client.btype = "none" /\ Refuse(-4)
                      /\ client' = [[client EXCEPT !.bwin = v] EXCEPT !.btype = "none"]
                   \/ /\ client.btype = "none" /\ ~(Bytes(p.shape) < 1) /\ Start("put", p, p.win)
  BY DEF PutReq
<1> HIDE DEF v
<1>4. ASSUME NEW e \in {-1, -2, -3}, Refuse(e), client' = [client EXCEPT !.bwin = v]
      PROVE  /\ client' \in [btype : {"none", "put", "get"}, bsize : Nat, bwin : Window \union {NoWin}]
             /\ client'.btype = "none" <=> client'.bsize = 0
             /\ \E n \in Int : toClient' = Append(toClient, n) /\ n < 0 /\ client'.btype = client.btype
  <2>1. e \in Int /\ e < 0 /\ toClient' = Append(toClient, e)
    BY <1>4 DEF Refuse, Reply
  <2>2. /\ client' \in [btype : {"none", "put", "get"}, bsize : Nat, bwin : Window \union {NoWin}]
        /\ client'.btype = client.btype /\ client'.bsize = client.bsize
    BY <1>2, <1>4, ClientChanges
  <2> QED
    BY <1>1, <2>1, <2>2
<1>5. ASSUME client.btype = "none", Refuse(-4), client' = [[client EXCEPT !.bwin = v] EXCEPT !.btype = "none"]
      PROVE  /\ client' \in [btype : {"none", "put", "get"}, bsize : Nat, bwin : Window \union {NoWin}]
             /\ client'.btype = "none" <=> client'.bsize = 0
             /\ \E n \in Int : toClient' = Append(toClient, n) /\ n < 0 /\ client'.btype = client.btype
  <2>1. -4 \in Int /\ -4 < 0 /\ toClient' = Append(toClient, -4)
    BY <1>5 DEF Refuse, Reply
  <2>2. /\ client' \in [btype : {"none", "put", "get"}, bsize : Nat, bwin : Window \union {NoWin}]
        /\ client'.btype = "none" /\ client'.bsize = client.bsize
    BY <1>2, <1>5, ClientChanges
  <2> QED
    BY <1>1, <1>5, <2>1, <2>2
<1>6. ASSUME ~(Bytes(p.shape) < 1), Start("put", p, p.win)
      PROVE  /\ client' \in [btype : {"none", "put", "get"}, bsize : Nat, bwin : Window \union {NoWin}]
             /\ client'.btype = "none" <=> client'.bsize = 0
             /\ \E n \in Int : /\ toClient' = Append(toClient, n)
                               /\ n = Bytes(p.shape) /\ client'.btype = "put" /\ client'.bsize = n
  <2>1. Bytes(p.shape) \in Nat /\ Bytes(p.shape) # 0
    BY <1>1, <1>6, BytesPositive
  <2> QED
    BY <1>1, <1>6, <2>1 DEF Start, Reply
<1> QED
  BY <1>3, <1>4, <1>5, <1>6

LEMMA GetReqMeans ==
  ASSUME Known, NEW p \in Packet, p.type = "getreq", GetReq(p)
  PROVE  /\ client' \in [btype : {"none", "put", "get"}, bsize : Nat, bwin : Window \union {NoWin}]
         /\ client'.btype = "none" <=> client'.bsize = 0
         /\ \E n \in Int : /\ toClient' = Append(toClient, n)
                           /\ \/ n < 0 /\ client'.btype = client.btype
                              \/ /\ n = Bytes(p.shape) /\ client'.btype = "get"
                                 /\ client'.bsize = n
<1>1. /\ p.shape \in Block /\ p.shape[1] >= 1 /\ client.bwin \in Window \union {NoWin}
  BY PacketKinds, KnownFields, ShapesAreBlocks
<1>2. GetReq(p) => \/ \E e \in {-1, -2, -3, -4, -5} : Refuse(e) /\ UNCHANGED client
                   \/ Start("get", p, client.bwin)
  BY DEF GetReq
<1>3. ASSUME NEW e \in {-1, -2, -3, -4, -5}, Refuse(e), UNCHANGED client
      PROVE  /\ client' \in [btype : {"none", "put", "get"}, bsize : Nat, bwin : Window \union {NoWin}]
             /\ client'.btype = "none" <=> client'.bsize = 0
             /\ \E n \in Int : toClient' = Append(toClient, n) /\ n < 0 /\ client'.btype = client.btype
  BY <1>3 DEF Refuse, Reply, Known
<1>4. ASSUME Start("get", p, client.bwin)
      PROVE  /\ client' \in [btype : {"none", "put", "get"}, bsize : Nat, bwin : Window \union {NoWin}]
             /\ client'.btype = "none" <=> client'.bsize = 0
             /\ \E n \in Int : /\ toClient' = Append(toClient, n)
                               /\ n = Bytes(p.shape) /\ client'.btype = "get" /\ client'.bsize = n
  <2>1. Bytes(p.shape) \in Nat /\ Bytes(p.shape) # 0
    BY <1>1, BytesPositive
  <2> QED
    BY <1>1, <1>4, <2>1 DEF Start, Reply
<1> QED
  BY <1>2, <1>3, <1>4

\* The smaller of two numbers.
LEMMA LeastMeans ==
  ASSUME NEW a \in Nat, NEW b \in Nat
  PROVE  /\ Least(a, b) \in Nat /\ Least(a, b) <= a /\ Least(a, b) <= b
         /\ b <= a => Least(a, b) = b
         /\ a >= 1 /\ b >= 1 => Least(a, b) >= 1
BY DEF Least

\* The server answers a request for data, if it does not swap bytes.
LEMMA GetDataReqMeans ==
  ASSUME Known, ~LittleEndian, GetDataReq
  PROVE  /\ client' \in [btype : {"none", "put", "get"}, bsize : Nat, bwin : Window \union {NoWin}]
         /\ client'.btype = "none" <=> client'.bsize = 0
         /\ \E n \in Nat : /\ toClient' = Append(toClient, n)
                           /\ client.btype = "get" => /\ n >= 1 /\ client.bsize = client'.bsize + n
                                                      /\ client'.btype # "put"
<1>1. /\ client.bsize \in Nat /\ Space \in Nat \ {0}
      /\ client.btype \in {"none", "put", "get"} /\ client.btype = "none" <=> client.bsize = 0
  BY KnownFields, SpaceAssumption DEF Known
<1>2. \A n \in Nat : ReplyData(n) => toClient' = Append(toClient, n)
  BY DEF ReplyData, Written, Reply
<1>3. CASE client.btype # "get"
  <2>1. toClient' = Append(toClient, 0) /\ client' = client
    BY <1>2, <1>3 DEF GetDataReq
  <2> QED
    BY <1>3, <2>1 DEF Known
<1>4. CASE client.btype = "get"
  <2> DEFINE n == Least(client.bsize, Space)
  <2>1. n \in Nat /\ n <= client.bsize /\ n >= 1
    <3>1. client.bsize >= 1
      BY <1>1, <1>4
    <3> QED
      BY <1>1, <3>1, LeastMeans
  <2>2. ReplyData(n) /\ Progress(n)
    BY <1>4 DEF GetDataReq
  <2> HIDE DEF n
  <2>3. /\ client' \in [btype : {"none", "put", "get"}, bsize : Nat, bwin : Window \union {NoWin}]
        /\ client'.btype = "none" <=> client'.bsize = 0
        /\ client'.bsize = client.bsize - n /\ client'.btype \in {"get", "none"}
    BY <1>4, <2>1, <2>2, ProgressMeans
  <2>4. client.bsize = client'.bsize + n
    BY <1>1, <2>1, <2>3
  <2> QED
    BY <1>2, <2>1, <2>2, <2>3, <2>4
<1> QED
  BY <1>3, <1>4

\* The server takes data: it counts it off as long as it expects any.
LEMMA RawDataMeans ==
  ASSUME Known, NEW p \in Packet, p.type = "raw", RawData(p)
  PROVE  /\ client' \in [btype : {"none", "put", "get"}, bsize : Nat, bwin : Window \union {NoWin}]
         /\ client'.btype = "none" <=> client'.bsize = 0
         /\ toClient' = toClient
         /\ client.btype = "put" /\ p.bytes <= client.bsize =>
              client'.bsize = client.bsize - p.bytes /\ client'.btype # "get"
<1>1. client.bsize \in Nat /\ p.bytes \in Nat
  BY KnownFields, PacketKinds
<1>2. CASE client.btype # "put"
  BY <1>2 DEF RawData, Known
<1>3. CASE client.btype = "put"
  <2> DEFINE n == Least(client.bsize, p.bytes)
  <2>1. n \in Nat /\ n <= client.bsize /\ (p.bytes <= client.bsize => n = p.bytes)
    BY <1>1, LeastMeans
  <2>2. Progress(n) /\ toClient' = toClient
    BY <1>3 DEF RawData
  <2> HIDE DEF n
  <2> QED
    BY <1>3, <2>1, <2>2, ProgressMeans
<1> QED
  BY <1>2, <1>3

\* The next packet of the server, and the queue without it.
LEMMA NextPacket ==
  ASSUME Known, toServer # <<>>
  PROVE  LET p == Head(toServer)
             q == Tail(toServer)
             n == Len(toServer)
         IN  /\ p \in Packet /\ p = toServer[1] /\ p.type \in {"raw", "putreq", "getreq", "getdata"}
             /\ q \in Seq(Packet) /\ n \in Nat \ {0} /\ Len(q) = n - 1 /\ DOMAIN q = 1 .. n - 1
             /\ DOMAIN toServer = 1 .. n
             /\ \A k \in 1 .. n - 1 : q[k] = toServer[k + 1]
             /\ n = 1 => q = <<>>
             /\ Total(q) \in Nat /\ Total(toServer) = Raw(p) + Total(q)
<1> DEFINE p == Head(toServer)
           q == Tail(toServer)
           n == Len(toServer)
<1>1. toServer \in Seq(Packet)
  BY KnownFields
<1>2. /\ p \in Packet /\ p = toServer[1] /\ q \in Seq(Packet) /\ n \in Nat \ {0}
      /\ Len(q) = n - 1 /\ \A k \in 1 .. n - 1 : q[k] = toServer[k + 1]
  BY <1>1, HeadTailProperties, LenProperties, EmptySeq
<1>3. DOMAIN q = 1 .. n - 1 /\ DOMAIN toServer = 1 .. n
  BY <1>1, <1>2, LenProperties
<1>4. n = 1 => q = <<>>
  <2> SUFFICES ASSUME n = 1 PROVE q = <<>>
    OBVIOUS
  <2>1. q \in Seq(Packet) /\ Len(q) = 0
    BY <1>2
  <2> HIDE DEF p, q, n
  <2> QED
    BY <2>1, EmptySeq
<1>5. p.type \in {"raw", "putreq", "getreq", "getdata"}
  BY <1>2 DEF Packet
<1>6. Total(q) \in Nat /\ Total(toServer) = Raw(p) + Total(q)
  BY <1>1, TotalTaken
<1> QED
  BY <1>2, <1>3, <1>4, <1>5, <1>6

\* Every packet keeps what is known of the fields.
LEMMA ServeKnown ==
  ASSUME Known, ~LittleEndian, Serve
  PROVE  Known'
<1> DEFINE p == Head(toServer)
<1>1. p \in Packet /\ Tail(toServer) \in Seq(Packet) /\ toClient \in Seq(Int)
  BY NextPacket, KnownFields DEF Serve
<1>2. /\ client' \in [btype : {"none", "put", "get"}, bsize : Nat, bwin : Window \union {NoWin}]
      /\ client'.btype = "none" <=> client'.bsize = 0
      /\ toClient' = toClient \/ \E n \in Int : toClient' = Append(toClient, n)
  <2>1. CASE p.type = "putreq" /\ PutReq(p)
    BY <1>1, <2>1, PutReqMeans
  <2>2. CASE p.type = "raw" /\ RawData(p)
    BY <1>1, <2>2, RawDataMeans
  <2>3. CASE p.type = "getreq" /\ GetReq(p)
    BY <1>1, <2>3, GetReqMeans
  <2>4. CASE p.type = "getdata" /\ GetDataReq
    <3>1. PICK n \in Nat : toClient' = Append(toClient, n)
      BY <2>4, GetDataReqMeans
    <3>2. n \in Int
      OBVIOUS
    <3> QED
      BY <2>4, <3>1, <3>2, GetDataReqMeans
  <2> QED
    BY <2>1, <2>2, <2>3, <2>4 DEF Serve
<1>3. toClient' \in Seq(Int)
  <2>1. CASE toClient' = toClient
    BY <1>1, <2>1
  <2>2. ASSUME NEW n \in Int, toClient' = Append(toClient, n)
        PROVE  toClient' \in Seq(Int)
    <3>1. Append(toClient, n) \in Seq(Int)
      BY <1>1, AppendProperties
    <3> QED
      BY <2>2, <3>1
  <2> QED
    BY <1>2, <2>1, <2>2
<1>4. toServer' \in Seq(Packet) /\ UNCHANGED <<live, call, returned, connected>>
  BY <1>1 DEF Serve
<1> QED
  BY <1>2, <1>3, <1>4 DEF Known

\* Data that comes brings both sides on.
LEMMA DataServed ==
  ASSUME Known, NEW extra \in Nat, Owes(Total(toServer) + extra), toServer # <<>>,
         Head(toServer).type = "raw", Serve
  PROVE  /\ toClient' = toClient /\ toServer' = Tail(toServer) /\ UNCHANGED call
         /\ client'.btype # "get" /\ client'.bsize = Total(toServer') + extra
<1> DEFINE p == Head(toServer)
<1>1. /\ p \in Packet /\ Total(Tail(toServer)) \in Nat
      /\ Total(toServer) = Raw(p) + Total(Tail(toServer))
  BY NextPacket
<1>2. Raw(p) = p.bytes /\ p.bytes \in Nat \ {0}
  BY <1>1, PacketKinds
<1>3. RawData(p) /\ toServer' = Tail(toServer) /\ UNCHANGED call
  BY DEF Serve
<1> HIDE DEF p
<1>4. /\ client.bsize = Total(toServer) + extra /\ client.btype \in {"none", "put"}
      /\ client.bsize \in Nat
  BY KnownFields DEF Owes
<1>5. client.bsize # 0 /\ p.bytes <= client.bsize
  BY <1>1, <1>2, <1>4
<1>6. client.btype = "put"
  BY <1>4, <1>5 DEF Known
<1>7. /\ toClient' = toClient /\ client'.btype # "get"
      /\ client'.bsize = client.bsize - p.bytes
  <2>1. p.type = "raw"
    BY DEF p
  <2> QED
    BY <1>1, <1>3, <1>5, <1>6, <2>1, RawDataMeans DEF p
<1>8. client'.bsize = Total(Tail(toServer)) + extra
  BY <1>1, <1>2, <1>4, <1>7
<1> QED
  BY <1>3, <1>7, <1>8

\* One of several packets is taken, all but perhaps the last of them data.
LEMMA TailOnlyData ==
  ASSUME Known, toServer # <<>>, OnlyData, toServer' = Tail(toServer)
  PROVE  OnlyData' /\ Head(toServer).type = "raw"
<1> DEFINE q == Tail(toServer)
           n == Len(toServer)
<1>1. /\ Head(toServer) = toServer[1] /\ n \in Nat \ {0} /\ DOMAIN toServer = 1 .. n
      /\ DOMAIN q = 1 .. n - 1 /\ \A k \in 1 .. n - 1 : q[k] = toServer[k + 1]
  BY NextPacket
<1> HIDE DEF q, n
<1>2. 1 \in 1 .. n /\ \A k \in 1 .. n - 1 : k + 1 \in 1 .. n
  BY <1>1
<1>3. \A k \in DOMAIN q : q[k].type = "raw"
  BY <1>1, <1>2 DEF OnlyData
<1>4. toServer[1].type = "raw"
  BY <1>1, <1>2 DEF OnlyData
<1> QED
  BY <1>1, <1>3, <1>4 DEF OnlyData, q

LEMMA TailAsking ==
  ASSUME Known, Asking, call.pc # "raw", toServer' = Tail(toServer), call' = call
  PROVE  /\ toServer # <<>>
         /\ \/ Head(toServer).type = "raw" /\ Asking'
            \/ /\ Head(toServer).type = call.pc /\ Head(toServer).shape = call.shape
               /\ Len(toServer) = 1 /\ toServer' = <<>> /\ Total(toServer) = 0
<1> DEFINE q == Tail(toServer)
           n == Len(toServer)
<1>1. n >= 1 /\ toServer # <<>>
  <2>1. n >= 1
    BY DEF Asking
  <2> QED
    BY <2>1
<1>2. /\ Head(toServer) = toServer[1] /\ n \in Nat \ {0} /\ Head(toServer) \in Packet
      /\ Len(q) = n - 1 /\ \A k \in 1 .. n - 1 : q[k] = toServer[k + 1]
      /\ n = 1 => q = <<>>
      /\ Total(q) \in Nat /\ Total(toServer) = Raw(Head(toServer)) + Total(q)
      /\ q \in Seq(Packet)
  BY <1>1, NextPacket
<1>3. CASE n = 1
  <2>1. Head(toServer).type = call.pc /\ Head(toServer).shape = call.shape
    BY <1>2, <1>3 DEF Asking
  <2>2. Raw(Head(toServer)) = 0
    BY <1>2, <2>1, PacketKinds
  <2>3. Total(q) = 0
    <3>1. RawBytes(q)[0] = 0 /\ Len(q) = 0
      BY <1>2, <1>3, RawBytesMeans
    <3> QED
      BY <3>1 DEF Total
  <2>4. Total(toServer) = 0
    BY <1>2, <2>2, <2>3
  <2> QED
    BY <1>1, <1>2, <1>3, <2>1, <2>4
<1>4. CASE n # 1
  <2>1. n - 1 >= 1 /\ n - 1 \in 1 .. n - 1 /\ (n - 1) + 1 = n /\ 1 \in 1 .. n - 1
    BY <1>2, <1>4
  <2>2. toServer[1].type = "raw"
    BY <2>1 DEF Asking
  <2>3. q[n - 1] = toServer[n]
    BY <1>2, <2>1
  <2>4. \A k \in 1 .. (n - 1) - 1 : q[k].type = "raw"
    <3>1. \A k \in 1 .. (n - 1) - 1 : k \in 1 .. n - 1 /\ k + 1 \in 1 .. n - 1
      BY <1>2
    <3> QED
      BY <1>2, <3>1 DEF Asking
  <2>5. toServer[n].type = call.pc /\ toServer[n].shape = call.shape
    BY DEF Asking
  <2> HIDE DEF n, q
  <2>6. toServer' = q
    BY DEF q
  <2>7. Asking'
    BY <1>2, <2>1, <2>3, <2>4, <2>5, <2>6 DEF Asking
  <2> QED
    BY <1>1, <1>2, <2>2, <2>7
<1> QED
  BY <1>3, <1>4

\* The one packet that is sent while the library waits.
LEMMA OneAnswer ==
  ASSUME NEW n \in Int
  PROVE  Len(Append(<<>>, n)) = 1 /\ Append(<<>>, n)[1] = n
OBVIOUS

\* Whatever packet the server works off, both sides still agree.
LEMMA ServeSides ==
  ASSUME AInv, connected, ~LittleEndian, Serve
  PROVE  Sides'
<1> DEFINE p == Head(toServer)
<1>1. Known /\ Sides
  BY DEF AInv
<1>2. /\ toServer # <<>> /\ toServer' = Tail(toServer) /\ UNCHANGED <<live, call, returned, connected>>
  BY DEF Serve
<1>3. p \in Packet /\ Total(toServer) \in Nat /\ client.bsize \in Nat
  BY <1>1, <1>2, NextPacket, KnownFields
<1>4. CASE call.pc = "idle" /\ toClient = <<>> /\ OnlyData /\ Owes(Total(toServer))
  <2>1. OnlyData' /\ p.type = "raw"
    BY <1>1, <1>2, <1>4, TailOnlyData
  <2>2. Owes(Total(toServer) + 0)
    BY <1>3, <1>4 DEF Owes
  <2>3. /\ toClient' = toClient /\ client'.btype # "get" /\ client'.bsize = Total(toServer') + 0
    BY <1>1, <1>2, <2>1, <2>2, DataServed
  <2>4. Total(toServer') \in Nat
    BY <1>1, <1>2, NextPacket
  <2>5. Owes(Total(toServer))'
    BY <2>3, <2>4 DEF Owes
  <2> QED
    BY <1>2, <1>4, <2>1, <2>3, <2>5 DEF Sides
<1>5. CASE call.pc \in {"putreq", "getreq"} /\ toClient = <<>> /\ Asking /\ Owes(Total(toServer))
  <2>1. \/ p.type = "raw" /\ Asking'
        \/ p.type = call.pc /\ p.shape = call.shape /\ toServer' = <<>> /\ Total(toServer) = 0
    BY <1>1, <1>2, <1>5, TailAsking
  <2>2. CASE p.type = "raw" /\ Asking'
    <3>1. Owes(Total(toServer) + 0)
      BY <1>3, <1>5 DEF Owes
    <3>2. /\ toClient' = toClient /\ client'.btype # "get" /\ client'.bsize = Total(toServer') + 0
      BY <1>1, <1>2, <2>2, <3>1, DataServed
    <3>3. Total(toServer') \in Nat
      BY <1>1, <1>2, NextPacket
    <3>4. Owes(Total(toServer))'
      BY <3>2, <3>3 DEF Owes
    <3> QED
      BY <1>2, <1>5, <2>2, <3>2, <3>4 DEF Sides
  <2>3. CASE p.type = call.pc /\ p.shape = call.shape /\ toServer' = <<>> /\ Total(toServer) = 0
    <3>1. client.btype = "none"
      BY <1>1, <1>5, <2>3 DEF Owes, Known
    <3>2. Bytes(call.shape) \in Nat
      BY <1>1, KnownFields
    <3>3. PICK n \in Int : /\ toClient' = Append(toClient, n)
                           /\ \/ n < 0 /\ client'.btype = client.btype
                              \/ /\ n = Bytes(p.shape) /\ client'.bsize = n
                                 /\ client'.btype = IF call.pc = "putreq" THEN "put" ELSE "get"
      <4>1. CASE call.pc = "putreq"
        BY <1>1, <1>3, <2>3, <4>1, PutReqMeans DEF Serve
      <4>2. CASE call.pc = "getreq"
        BY <1>1, <1>3, <2>3, <4>2, GetReqMeans DEF Serve
      <4> QED
        BY <1>5, <4>1, <4>2
    <3>4. Len(toClient') = 1 /\ toClient'[1] = n
      BY <1>5, <3>3, OneAnswer
    <3>5. Answered(IF call.pc = "putreq" THEN "put" ELSE "get")'
      BY <1>2, <2>3, <3>1, <3>2, <3>3, <3>4 DEF Answered
    <3> QED
      BY <1>2, <1>5, <3>5 DEF Sides
  <2> QED
    BY <2>1, <2>2, <2>3
<1>6. CASE call.pc = "put" /\ toClient = <<>> /\ OnlyData
           /\ Owes(Total(toServer) + call.todo * call.shape[2])
  <2>0. call.todo * call.shape[2] \in Nat
    BY <1>1, KnownFields
  <2>1. OnlyData' /\ p.type = "raw"
    BY <1>1, <1>2, <1>6, TailOnlyData
  <2>2. /\ toClient' = toClient /\ client'.btype # "get"
        /\ client'.bsize = Total(toServer') + call.todo * call.shape[2]
    BY <1>1, <1>2, <1>6, <2>0, <2>1, DataServed
  <2>3. Owes(Total(toServer) + call.todo * call.shape[2])'
    BY <1>2, <2>2 DEF Owes
  <2> QED
    BY <1>2, <1>6, <2>1, <2>2, <2>3 DEF Sides
<1>7. CASE /\ call.pc = "get" /\ client.btype = "get"
           /\ Len(toServer) = 1 /\ toServer[1].type = "getdata"
           /\ toClient = <<>> /\ call.todo = client.bsize
  <2>1. p.type = "getdata" /\ toServer' = <<>>
    BY <1>1, <1>2, <1>7, NextPacket
  <2>2. GetDataReq
    BY <2>1 DEF Serve
  <2>3. PICK n \in Nat : /\ toClient' = Append(toClient, n) /\ n >= 1
                         /\ client.bsize = client'.bsize + n /\ client'.btype # "put"
    BY <1>1, <1>7, <2>2, GetDataReqMeans
  <2>4. Len(toClient') = 1 /\ toClient'[1] = n
    BY <1>7, <2>3, OneAnswer
  <2> QED
    BY <1>2, <1>7, <2>1, <2>3, <2>4 DEF Sides
<1>8. Answered("put") \/ Answered("get") => toServer = <<>>
  BY DEF Answered
<1> QED
  BY <1>1, <1>2, <1>4, <1>5, <1>6, <1>7, <1>8 DEF Sides

\* The beginning.
LEMMA AgreeInit == Init => AInv
<1> SUFFICES ASSUME Init PROVE AInv
  OBVIOUS
<1>1. /\ Idle \in [pc : {"idle", "putreq", "put", "getreq", "get"}, win : Window \union {NoWin},
                   shape : Block, todo : Nat]
      /\ Idle.pc = "idle"
      /\ NoTransfer \in [btype : {"none", "put", "get"}, bsize : Nat, bwin : Window \union {NoWin}]
      /\ NoTransfer.btype = "none" /\ NoTransfer.bsize = 0
  BY DEF Idle, Block, NoTransfer
<1>2. Known
  BY <1>1, EmptySeq DEF Init, Known
<1>3. Total(<<>>) = 0
  <2>1. <<>> \in Seq(Packet) /\ Len(<<>>) = 0
    OBVIOUS
  <2> QED
    BY <2>1, RawBytesMeans DEF Total
<1>4. OnlyData /\ Owes(Total(toServer))
  BY <1>1, <1>3 DEF Init, OnlyData, Owes
<1> QED
  BY <1>1, <1>2, <1>4 DEF AInv, Sides, Init

\* Library and server agree after every step.
LEMMA AgreeNext ==
  ASSUME AInv, ~LittleEndian, [Next]_vars
  PROVE  AInv'
<1> USE DEF server
<1>0. Known
  BY DEF AInv
<1>1. CASE UNCHANGED <<call, toServer, toClient, connected, client>> /\ live' \subseteq live
  <2>1. Known'
    BY <1>0, <1>1 DEF Known
  <2>2. connected' => Sides'
    BY <1>1 DEF AInv, Sides, OnlyData, Asking, Owes, Answered
  <2> QED
    BY <2>1, <2>2 DEF AInv
<1>2. ASSUME NEW w \in Window, NEW shape \in Shapes, PutBlock(w, shape)
      PROVE  AInv'
  BY <1>2, AskKeeps DEF PutBlock, Send
<1>3. ASSUME NEW w \in Window, NEW shape \in Shapes, GetBlock(w, shape)
      PROVE  AInv'
  BY <1>3, AskKeeps DEF GetBlock, Send
<1>4. CASE Library
  <2>1. connected
    BY <1>0, <1>4 DEF Known, Library, PutAnswer, PutLines, GetAnswer, GetData
  <2> QED
    BY <1>4, <2>1, PutAnswerKeeps, PutLinesKeeps, GetAnswerKeeps, GetDataKeeps DEF Library
<1>5. CASE Serve
  <2>1. Known'
    BY <1>0, <1>5, ServeKnown
  <2>2. connected' => Sides'
    BY <1>5, ServeSides DEF Serve
  <2> QED
    BY <2>1, <2>2 DEF AInv
<1>6. CASE Die
  <2>1. PICK n \in 0 .. Len(toServer) : toServer' = SubSeq(toServer, 1, n)
    BY <1>6 DEF Die
  <2>2. toServer \in Seq(Packet) /\ Len(toServer) \in Nat
    BY <1>0, KnownFields
  <2>3. toServer' \in Seq(Packet)
    BY <2>1, <2>2, SubSeqProperties
  <2>4. Idle \in [pc : {"idle", "putreq", "put", "getreq", "get"}, win : Window \union {NoWin},
                  shape : Block, todo : Nat]
        /\ Idle.pc = "idle"
    BY DEF Idle, Block
  <2>5. Known' /\ ~connected'
    BY <1>0, <1>6, <2>3, <2>4 DEF Known, Die
  <2> QED
    BY <2>5 DEF AInv
<1>7. CASE KillClient
  <2>1. /\ NoTransfer \in [btype : {"none", "put", "get"}, bsize : Nat, bwin : Window \union {NoWin}]
        /\ NoTransfer.btype = "none" /\ NoTransfer.bsize = 0
    BY DEF NoTransfer
  <2>2. /\ call.pc = "idle" /\ call' = call /\ toServer = <<>> /\ toServer' = toServer
        /\ toClient' = <<>> /\ client' = NoTransfer /\ live' = live /\ connected' = TRUE
    BY <1>0, <1>7 DEF Known, KillClient
  <2>3. Known'
    BY <1>0, <2>1, <2>2, EmptySeq DEF Known
  <2>4. Total(toServer') = 0
    <3>1. toServer' \in Seq(Packet) /\ Len(toServer') = 0
      BY <1>0, <2>2, KnownFields
    <3> QED
      BY <3>1, RawBytesMeans DEF Total
  <2>5. Sides'
    BY <2>1, <2>2, <2>4 DEF Sides, OnlyData, Owes
  <2> QED
    BY <2>3, <2>5 DEF AInv
<1>8. ASSUME NEW w \in Window, Delete(w) PROVE AInv'
  BY <1>1, <1>8 DEF Delete
<1> QED
  BY <1>1, <1>2, <1>3, <1>4, <1>5, <1>6, <1>7, <1>8 DEF Next, vars

\* What is known of both sides is what SidesAgree says of them.
LEMMA SidesMeans == AInv => SidesAgree
<1> SUFFICES ASSUME AInv, connected PROVE SidesAgree
  BY DEF SidesAgree
<1>1. Known /\ Sides
  BY DEF AInv
<1>2. RawUnderWay = Total(toServer) /\ Total(toServer) \in Nat
  BY <1>1, KnownFields DEF RawUnderWay, Total
<1>3. /\ client.bsize \in Nat /\ call.todo * call.shape[2] \in Nat
      /\ client.btype = "none" <=> client.bsize = 0
      /\ client.btype \in {"none", "put", "get"} /\ toClient \in Seq(Int)
  BY <1>1, KnownFields DEF Known
<1>4. Asking => toServer # <<>>
  <2>1. Asking => Len(toServer) >= 1
    BY DEF Asking
  <2> QED
    BY <2>1
<1>5. toServer = <<>> => Total(toServer) = 0
  <2> SUFFICES ASSUME toServer = <<>> PROVE Total(toServer) = 0
    OBVIOUS
  <2>1. toServer \in Seq(Packet) /\ Len(toServer) = 0
    BY <1>1, KnownFields
  <2> QED
    BY <2>1, RawBytesMeans DEF Total
<1>6. Len(toClient) = 1 => toClient # <<>> /\ Head(toClient) = toClient[1] /\ toClient = <<toClient[1]>>
  <2> SUFFICES ASSUME Len(toClient) = 1
               PROVE  toClient # <<>> /\ Head(toClient) = toClient[1] /\ toClient = <<toClient[1]>>
    OBVIOUS
  <2>1. toClient # <<>>
    <3> SUFFICES ASSUME toClient = <<>> PROVE FALSE
      OBVIOUS
    <3>1. Len(<<>>) = 0
      OBVIOUS
    <3> QED
      BY <3>1
  <2>2. toClient[1] \in Int /\ Head(toClient) = toClient[1]
    BY <1>3, <2>1, ElementOfSeq, HeadTailProperties
  <2>3. <<toClient[1]>> \in Seq(Int) /\ Len(<<toClient[1]>>) = 1 /\ <<toClient[1]>>[1] = toClient[1]
    BY <2>2
  <2>4. \A k \in 1 .. Len(toClient) : toClient[k] = <<toClient[1]>>[k]
    BY <2>3
  <2> QED
    BY <1>3, <2>1, <2>2, <2>3, <2>4, SeqEqual
<1> DEFINE Put == client.btype = "put" =>
             client.bsize = RawUnderWay + CASE call.pc = "put" -> call.todo * call.shape[2]
                                            [] call.pc = "putreq" /\ toClient # <<>> -> client.bsize
                                            [] OTHER -> 0
           Get == client.btype = "get" =>
             \/ call.pc = "getreq" /\ toClient = <<Bytes(call.shape)>>
             \/ call.pc = "get" /\ call.todo = client.bsize + IF toClient = <<>> THEN 0 ELSE Head(toClient)
           Done == call.pc = "idle" /\ toServer = <<>> => client.btype = "none"
<1>7. SUFFICES Put /\ Get /\ Done
  BY DEF SidesAgree
<1>8. CASE call.pc = "idle" /\ toClient = <<>> /\ OnlyData /\ Owes(Total(toServer))
  BY <1>2, <1>3, <1>5, <1>8 DEF Owes
<1>9. CASE call.pc \in {"putreq", "getreq"} /\ toClient = <<>> /\ Asking /\ Owes(Total(toServer))
  BY <1>2, <1>3, <1>9 DEF Owes
<1>10. CASE call.pc = "putreq" /\ Answered("put")
  BY <1>2, <1>3, <1>5, <1>6, <1>10 DEF Answered
<1>11. CASE call.pc = "getreq" /\ Answered("get")
  BY <1>2, <1>3, <1>5, <1>6, <1>11 DEF Answered
<1>12. CASE call.pc = "put" /\ toClient = <<>> /\ OnlyData
            /\ Owes(Total(toServer) + call.todo * call.shape[2])
  BY <1>2, <1>3, <1>12 DEF Owes
<1>13. CASE /\ call.pc = "get" /\ client.btype = "get"
            /\ Len(toServer) = 1 /\ toServer[1].type = "getdata"
            /\ toClient = <<>> /\ call.todo = client.bsize
  BY <1>3, <1>13
<1>14. CASE /\ call.pc = "get" /\ client.btype # "put" /\ toServer = <<>>
            /\ Len(toClient) = 1 /\ toClient[1] >= 1 /\ call.todo = client.bsize + toClient[1]
  BY <1>3, <1>6, <1>14
<1> QED
  BY <1>1, <1>8, <1>9, <1>10, <1>11, <1>12, <1>13, <1>14 DEF Sides

\* The library and the server agree on how much of a block is missing, whatever is
\* still under way, refused, deleted and whoever dies in the middle: no call ends too
\* early and no transfer outlives its call.  The server must be one that does not swap
\* the bytes of the length of a reply twice.
THEOREM SidesCorrect == ~LittleEndian => (Spec => []SidesAgree)
<1> SUFFICES ASSUME ~LittleEndian PROVE Spec => []SidesAgree
  OBVIOUS
<1>1. AInv /\ [Next]_vars => AInv'
  BY AgreeNext
<1> QED
  BY <1>1, AgreeInit, SidesMeans, PTL DEF Spec
=============================================================================
