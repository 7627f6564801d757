-------------------------- MODULE ClipboardProofs --------------------------
(***************************************************************************)
(* Proofs about module Clipboard, for any processes, clips and data.       *)
(***************************************************************************)
EXTENDS Clipboard, SequenceTheorems, TLAPS

-----------------------------------------------------------------------------
(* Files and locks.                                                        *)

\* Every range of bytes that dolock() locks holds the last one.
LEMMA LastLocked ==
  ASSUME NEW s \in Byte
  PROVE  Last \in LockRange(s) /\ Last \in Byte
BY LastAssumption DEF Byte, LockRange

\* There is a byte.
LEMMA ZeroByte == 0 \in Byte
BY LastAssumption DEF Byte

\* A function from 1 .. n is a sequence.
LEMMA FunctionIsSeq ==
  ASSUME NEW S, NEW n \in Nat, NEW f \in [1 .. n -> S]
  PROVE  f \in Seq(S) /\ Len(f) = n
OBVIOUS

\* What is written to a file is a file.
LEMMA WrittenType ==
  ASSUME NEW S, NEW file \in Seq(S), NEW offset \in Nat, NEW d \in S, Hole \in S
  PROVE  Written(file, offset, d) \in Seq(S)
<1> DEFINE n == IF offset + 1 > Len(file) THEN offset + 1 ELSE Len(file)
           W(i) == IF i = offset + 1 THEN d ELSE IF i <= Len(file) THEN file[i] ELSE Hole
<1>1. n \in Nat
  BY LenProperties
<1>2. \A i \in 1 .. n : W(i) \in S
  BY <1>1, ElementOfSeq, LenProperties
<1>3. [i \in 1 .. n |-> W(i)] \in [1 .. n -> S]
  BY <1>2
<1> HIDE DEF n, W
<1>4. [i \in 1 .. n |-> W(i)] \in Seq(S)
  BY <1>1, <1>3, FunctionIsSeq
<1> QED
  BY <1>4 DEF Written, n, W

\* Writing at the end of a file appends to it.
LEMMA WrittenAtEnd ==
  ASSUME NEW S, NEW file \in Seq(S), NEW d \in S
  PROVE  Written(file, Len(file), d) = Append(file, d)
<1> DEFINE n == Len(file)
           f == [i \in 1 .. n + 1 |-> IF i = n + 1 THEN d ELSE file[i]]
<1>1. n \in Nat /\ \A i \in 1 .. n : file[i] \in S
  BY LenProperties, ElementOfSeq
<1>2. Written(file, n, d) = f
  BY <1>1 DEF Written
<1>3. f \in [1 .. n + 1 -> S]
  BY <1>1
<1>4. f \in Seq(S) /\ Len(f) = n + 1
  <2> HIDE DEF f
  <2> QED
    BY <1>1, <1>3, FunctionIsSeq
<1>5. Append(file, d) \in Seq(S) /\ Len(Append(file, d)) = n + 1
      /\ \A i \in 1 .. n + 1 : f[i] = Append(file, d)[i]
  BY <1>1, AppendProperties
<1>6. f = Append(file, d)
  <2> HIDE DEF f, n
  <2> QED
    BY <1>4, <1>5, SeqEqual
<1> QED
  BY <1>2, <1>6

-----------------------------------------------------------------------------
(* The invariant.                                                          *)

\* Two locks that do not go together are never on the last byte.
LocksApart ==
  \A p, q \in Process, t \in Clip :
    p # q /\ lock[p][t][Last] = "w" => lock[q][t][Last] = "none"

\* A process that writes has its lock, and one that reads has.
WriterLocked ==
  \A p \in Process, t \in Clip :
    /\ pc[p] = "truncate" /\ clip[p] = t => lock[p][t][Last] = "w"
    /\ Writing(p, t) /\ ~spoilt[t] => lock[p][t][Last] = "w"
ReaderLocked ==
  \A p \in Process, t \in Clip : Reading(p, t) => lock[p][t][Last] = "r"

\* Where a process is says whether it has a session.
Phases ==
  \A p \in Process :
    /\ pc[p] \in {"lockW", "truncate"} => session[p] = NoClip
    /\ pc[p] = "closeW" => session[p] = clip[p]

\* A process that reads its own clip has spoilt it.
OwnReadSpoils ==
  \A p \in Process :
    pc[p] \in {"lockR", "stat", "read", "unlockR", "closeR"} /\ session[p] = clip[p]
      => spoilt[clip[p]]

\* The file holds what its session has sent, and what the last one left when there is none.
SessionWritten ==
  \A p \in Process, t \in Clip :
    session[p] = t /\ pc[p] # "closeW" /\ ~spoilt[t] => content[t] = sent[p]
InSession(t) == \E p \in Process : session[p] = t /\ pc[p] # "closeW"
ClipWhole ==
  \A t \in Clip : ~spoilt[t] /\ ~InSession(t) => content[t] = whole[t]

\* The size that stat() gave is still that of the file.
SizeKnown ==
  \A p \in Process :
    pc[p] = "read" /\ ~spoilt[clip[p]] => Len(got[p]) = Len(content[clip[p]])

Inv == /\ TypeOK /\ LocksApart /\ WriterLocked /\ ReaderLocked /\ Phases
       /\ OwnReadSpoils /\ SessionWritten /\ ClipWhole /\ SizeKnown
       /\ ReadWhole /\ NoLockLeft

Modes == {"none", "r", "w"}

\* What is locked or closed is a table of locks that differs in one entry.
LEMMA LockedTable ==
  ASSUME TypeOK, NEW p \in Process, NEW t \in Clip, NEW s \in Byte, NEW mode \in Modes
  PROVE  /\ Locked(p, t, s, mode) \in [Process -> [Clip -> [Byte -> Modes]]]
         /\ \A q \in Process, u \in Clip, b \in Byte :
              Locked(p, t, s, mode)[q][u][b]
                = IF q = p /\ u = t /\ b \in LockRange(s) THEN mode ELSE lock[q][u][b]
BY DEF TypeOK, Locked, Modes
LEMMA LockedElsewhere ==
  ASSUME TypeOK, NEW p \in Process, NEW t \in Clip, NEW s \in Byte, NEW mode \in Modes,
         lock' = Locked(p, t, s, mode)
  PROVE  \A q \in Process, u \in Clip, b \in Byte :
           lock'[q][u][b] = lock[q][u][b] \/ (q = p /\ u = t)
<1>1. \A q \in Process, u \in Clip, b \in Byte :
        lock'[q][u][b] = IF q = p /\ u = t /\ b \in LockRange(s) THEN mode ELSE lock[q][u][b]
  BY LockedTable
<1> QED
  BY <1>1
LEMMA ClosedTable ==
  ASSUME TypeOK, NEW p \in Process, NEW t \in Clip
  PROVE  /\ Closed(p, t) \in [Process -> [Clip -> [Byte -> Modes]]]
         /\ \A q \in Process, u \in Clip, b \in Byte :
              Closed(p, t)[q][u][b] = IF q = p /\ u = t THEN "none" ELSE lock[q][u][b]
BY DEF TypeOK, Closed, Modes

\* What the steps do to the locks on the last byte.
LockSet(p, t, mode) ==
  \A q \in Process, u \in Clip :
    lock'[q][u][Last] = IF q = p /\ u = t THEN mode ELSE lock[q][u][Last]
LEMMA LockGranted ==
  ASSUME TypeOK, NEW p \in Process, NEW s \in Byte
  PROVE  /\ LockWrite(p, s) => LockSet(p, clip[p], "w")
         /\ LockRead(p, s) => LockSet(p, clip[p], "r")
<1>1. PICK t \in Clip : t = clip[p]
  BY DEF TypeOK
<1>2. ASSUME NEW mode \in Modes, lock' = Locked(p, t, s, mode)
      PROVE  LockSet(p, t, mode)
  <2>1. \A q \in Process, u \in Clip, b \in Byte :
          lock'[q][u][b] = IF q = p /\ u = t /\ b \in LockRange(s) THEN mode
                                                                 ELSE lock[q][u][b]
    BY <1>2, LockedTable
  <2>2. Last \in Byte /\ Last \in LockRange(s)
    BY LastLocked
  <2> QED
    BY <2>1, <2>2 DEF LockSet
<1>3. LockWrite(p, s) => LockSet(p, clip[p], "w")
  BY <1>1, <1>2 DEF LockWrite, Modes
<1>4. LockRead(p, s) => LockSet(p, clip[p], "r")
  BY <1>1, <1>2 DEF LockRead, Modes
<1> QED
  BY <1>3, <1>4
LEMMA LockReleased ==
  ASSUME TypeOK, NEW p \in Process
  PROVE  /\ LockFails(p) \/ CloseWrite(p) \/ CloseRead(p) => LockSet(p, clip[p], "none")
         /\ UnlockWrite(p) => \E mode : LockSet(p, session[p], mode) /\ mode \in {lock[p][session[p]][Last], "none"}
         /\ UnlockRead(p) => \E mode : LockSet(p, clip[p], mode) /\ mode \in {lock[p][clip[p]][Last], "none"}
         /\ Die(p) => \A q \in Process, u \in Clip :
                         lock'[q][u][Last] = IF q = p THEN "none" ELSE lock[q][u][Last]
<1>1. clip[p] \in Clip /\ Last \in Byte /\ "none" \in Modes
  BY ZeroByte, LastLocked DEF TypeOK, Modes
<1>2. LockFails(p) \/ CloseWrite(p) \/ CloseRead(p) => LockSet(p, clip[p], "none")
  <2>1. LockFails(p) \/ CloseWrite(p) \/ CloseRead(p) => lock' = Closed(p, clip[p])
    BY DEF LockFails, CloseWrite, CloseRead
  <2> QED
    BY <1>1, <2>1, ClosedTable DEF LockSet
<1>3. ASSUME NEW t \in Clip, \/ UNCHANGED lock
                             \/ \E s \in Byte : lock' = Locked(p, t, s, "none")
      PROVE  \E mode : LockSet(p, t, mode) /\ mode \in {lock[p][t][Last], "none"}
  <2>1. CASE UNCHANGED lock
    BY <2>1 DEF LockSet
  <2>2. ASSUME NEW s \in Byte, lock' = Locked(p, t, s, "none")
        PROVE  LockSet(p, t, "none")
    <3>1. \A q \in Process, u \in Clip, b \in Byte :
            lock'[q][u][b] = IF q = p /\ u = t /\ b \in LockRange(s) THEN "none"
                                                                  ELSE lock[q][u][b]
      BY <1>1, <2>2, LockedTable
    <3>2. Last \in Byte /\ Last \in LockRange(s)
      BY LastLocked
    <3> QED
      BY <3>1, <3>2 DEF LockSet
  <2> QED
    BY <1>3, <2>1, <2>2
<1>4. UnlockWrite(p) => \E mode : LockSet(p, session[p], mode) /\ mode \in {lock[p][session[p]][Last], "none"}
  BY <1>3 DEF UnlockWrite, TypeOK
<1>5. UnlockRead(p) => \E mode : LockSet(p, clip[p], mode) /\ mode \in {lock[p][clip[p]][Last], "none"}
  BY <1>1, <1>3 DEF UnlockRead
<1>6. Die(p) => \A q \in Process, u \in Clip :
                   lock'[q][u][Last] = IF q = p THEN "none" ELSE lock[q][u][Last]
  BY <1>1 DEF Die, TypeOK
<1> QED
  BY <1>2, <1>4, <1>5, <1>6

\* Every system call keeps the types.
LEMMA TypePreserved ==
  ASSUME TypeOK, [Next]_vars
  PROVE  TypeOK'
<1> USE DEF TypeOK, program, files, history, Goto
<1>1. CASE UNCHANGED vars
  BY <1>1 DEF vars, program, files, history
<1>2. ASSUME NEW p \in Process, NEW t \in Clip, OpenWrite(p, t)
     PROVE  TypeOK'
  BY <1>2 DEF OpenWrite
<1>3. ASSUME NEW p \in Process, NEW t \in Clip, OpenRead(p, t)
     PROVE  TypeOK'
  BY <1>3 DEF OpenRead
<1>4. ASSUME NEW p \in Process, NEW s \in Byte, LockWrite(p, s)
     PROVE  TypeOK'
  BY <1>4, LockedTable DEF Modes, LockWrite
<1>5. ASSUME NEW p \in Process, NEW s \in Byte, LockRead(p, s)
     PROVE  TypeOK'
  BY <1>5, LockedTable DEF Modes, LockRead
<1>6. ASSUME NEW p \in Process, LockFails(p)
     PROVE  TypeOK'
  BY <1>6, ClosedTable DEF Modes, LockFails
<1>7. ASSUME NEW p \in Process, Truncate(p)
     PROVE  TypeOK'
  BY <1>7 DEF Truncate
<1>8. ASSUME NEW p \in Process, NEW d \in Data, SelAppend(p, d)
     PROVE  TypeOK'
  <2>1. session[p] \in Clip /\ Len(sent[p]) \in Nat
    BY <1>8, LenProperties DEF SelAppend
  <2>2. Written(content[session[p]], Len(sent[p]), d) \in Seq(Data \union {Hole})
    BY <2>1, WrittenType
  <2>3. Append(sent[p], d) \in Seq(Data)
    BY AppendProperties
  <2> QED
    BY <1>8, <2>1, <2>2, <2>3 DEF SelAppend
<1>9. ASSUME NEW p \in Process, UnlockWrite(p)
     PROVE  TypeOK'
  <2>1. session[p] \in Clip
    BY <1>9 DEF UnlockWrite
  <2>2. ASSUME NEW s \in Byte, lock' = Locked(p, session[p], s, "none")
        PROVE  lock' \in [Process -> [Clip -> [Byte -> Modes]]]
    BY <2>1, <2>2, LockedTable DEF Modes
  <2> QED
    BY <1>9, <2>1, <2>2 DEF UnlockWrite, Modes
<1>10. ASSUME NEW p \in Process, CloseWrite(p)
     PROVE  TypeOK'
  BY <1>10, ClosedTable DEF Modes, CloseWrite
<1>11. ASSUME NEW p \in Process, Stat(p)
     PROVE  TypeOK'
  BY <1>11 DEF Stat
<1>12. ASSUME NEW p \in Process, ReadData(p)
     PROVE  TypeOK'
  BY <1>12 DEF ReadData
<1>13. ASSUME NEW p \in Process, UnlockRead(p)
     PROVE  TypeOK'
  <2>1. ASSUME NEW s \in Byte, lock' = Locked(p, clip[p], s, "none")
        PROVE  lock' \in [Process -> [Clip -> [Byte -> Modes]]]
    BY <2>1, LockedTable DEF Modes
  <2> QED
    BY <1>13, <2>1 DEF UnlockRead, Modes
<1>14. ASSUME NEW p \in Process, CloseRead(p)
     PROVE  TypeOK'
  BY <1>14, ClosedTable DEF Modes, CloseRead
<1>15. ASSUME NEW p \in Process, Die(p)
     PROVE  TypeOK'
  BY <1>15 DEF Die
<1> QED
  BY <1>1, <1>2, <1>3, <1>4, <1>5, <1>6, <1>7, <1>8, <1>9, <1>10, <1>11, <1>12, <1>13, <1>14, <1>15 DEF Next

\* Giving up locks keeps the others apart.
LEMMA Released ==
  ASSUME TypeOK, LocksApart,
         \A q \in Process, u \in Clip : lock'[q][u][Last] \in {lock[q][u][Last], "none"}
  PROVE  LocksApart'
BY DEF LocksApart

\* The kernel gives no lock that meets another one.
LEMMA LocksApartPreserved ==
  ASSUME TypeOK, LocksApart, [Next]_vars
  PROVE  LocksApart'
<1> USE DEF LocksApart, program, files, history, Goto
<1>1. CASE UNCHANGED vars
  BY <1>1 DEF vars, program, files, history
<1>2. ASSUME NEW p \in Process, NEW t \in Clip, OpenWrite(p, t)
     PROVE  LocksApart'
  BY <1>2, LastLocked DEF OpenWrite
<1>3. ASSUME NEW p \in Process, NEW t \in Clip, OpenRead(p, t)
     PROVE  LocksApart'
  BY <1>3, LastLocked DEF OpenRead
<1>4. ASSUME NEW p \in Process, NEW s \in Byte, LockWrite(p, s)
     PROVE  LocksApart'
  <2>1. LockSet(p, clip[p], "w")
    BY <1>4, LockGranted
  <2> QED
    BY <1>4, <2>1, LastLocked DEF LockWrite, LockSet, Lockable
<1>5. ASSUME NEW p \in Process, NEW s \in Byte, LockRead(p, s)
     PROVE  LocksApart'
  <2>1. LockSet(p, clip[p], "r")
    BY <1>5, LockGranted
  <2> QED
    BY <1>5, <2>1, LastLocked DEF LockRead, LockSet, Lockable
<1>6. ASSUME NEW p \in Process, LockFails(p)
     PROVE  LocksApart'
  <2>1. \A q \in Process, u \in Clip : lock'[q][u][Last] \in {lock[q][u][Last], "none"}
    BY <1>6, LockReleased DEF LockSet, TypeOK, UnlockWrite
  <2> QED
    BY <2>1, Released
<1>7. ASSUME NEW p \in Process, Truncate(p)
     PROVE  LocksApart'
  BY <1>7, LastLocked DEF Truncate
<1>8. ASSUME NEW p \in Process, NEW d \in Data, SelAppend(p, d)
     PROVE  LocksApart'
  BY <1>8, LastLocked DEF SelAppend
<1>9. ASSUME NEW p \in Process, UnlockWrite(p)
     PROVE  LocksApart'
  <2>1. PICK mode : LockSet(p, session[p], mode) /\ mode \in {lock[p][session[p]][Last], "none"}
    BY <1>9, LockReleased
  <2>2. \A q \in Process, u \in Clip : lock'[q][u][Last] \in {lock[q][u][Last], "none"}
    BY <2>1 DEF LockSet
  <2> QED
    BY <2>2, Released
<1>10. ASSUME NEW p \in Process, CloseWrite(p)
     PROVE  LocksApart'
  <2>1. \A q \in Process, u \in Clip : lock'[q][u][Last] \in {lock[q][u][Last], "none"}
    BY <1>10, LockReleased DEF LockSet, TypeOK, UnlockWrite
  <2> QED
    BY <2>1, Released
<1>11. ASSUME NEW p \in Process, Stat(p)
     PROVE  LocksApart'
  BY <1>11, LastLocked DEF Stat
<1>12. ASSUME NEW p \in Process, ReadData(p)
     PROVE  LocksApart'
  BY <1>12, LastLocked DEF ReadData
<1>13. ASSUME NEW p \in Process, UnlockRead(p)
     PROVE  LocksApart'
  <2>1. PICK mode : LockSet(p, clip[p], mode) /\ mode \in {lock[p][clip[p]][Last], "none"}
    BY <1>13, LockReleased
  <2>2. \A q \in Process, u \in Clip : lock'[q][u][Last] \in {lock[q][u][Last], "none"}
    BY <2>1 DEF LockSet
  <2> QED
    BY <2>2, Released
<1>14. ASSUME NEW p \in Process, CloseRead(p)
     PROVE  LocksApart'
  <2>1. \A q \in Process, u \in Clip : lock'[q][u][Last] \in {lock[q][u][Last], "none"}
    BY <1>14, LockReleased DEF LockSet, TypeOK, UnlockWrite
  <2> QED
    BY <2>1, Released
<1>15. ASSUME NEW p \in Process, Die(p)
     PROVE  LocksApart'
  <2>1. \A q \in Process, u \in Clip : lock'[q][u][Last] \in {lock[q][u][Last], "none"}
    BY <1>15, LockReleased DEF LockSet, TypeOK, UnlockWrite
  <2> QED
    BY <2>1, Released
<1> QED
  BY <1>1, <1>2, <1>3, <1>4, <1>5, <1>6, <1>7, <1>8, <1>9, <1>10, <1>11, <1>12, <1>13, <1>14, <1>15 DEF Next

\* A writer keeps its lock to the end of its session.
LEMMA WriterPreserved ==
  ASSUME TypeOK, WriterLocked, Phases, OwnReadSpoils, [Next]_vars
  PROVE  WriterLocked'
<1> USE DEF WriterLocked, Writing, Phases, OwnReadSpoils, TypeOK, program, files, history, Goto
<1>1. CASE UNCHANGED vars
  BY <1>1 DEF vars, program, files, history
<1>2. ASSUME NEW p \in Process, NEW t \in Clip, OpenWrite(p, t)
     PROVE  WriterLocked'
  BY <1>2, LastLocked, ClipAssumption DEF OpenWrite
<1>3. ASSUME NEW p \in Process, NEW t \in Clip, OpenRead(p, t)
     PROVE  WriterLocked'
  BY <1>3, LastLocked, ClipAssumption DEF OpenRead
<1>4. ASSUME NEW p \in Process, NEW s \in Byte, LockWrite(p, s)
     PROVE  WriterLocked'
  <2>1. LockSet(p, clip[p], "w")
    BY <1>4, LockGranted
  <2> QED
    BY <1>4, <2>1, LastLocked, ClipAssumption DEF LockWrite, LockSet, Lockable
<1>5. ASSUME NEW p \in Process, NEW s \in Byte, LockRead(p, s)
     PROVE  WriterLocked'
  <2>1. LockSet(p, clip[p], "r")
    BY <1>5, LockGranted
  <2> QED
    BY <1>5, <2>1, LastLocked, ClipAssumption DEF LockRead, LockSet, Lockable
<1>6. ASSUME NEW p \in Process, LockFails(p)
     PROVE  WriterLocked'
  <2>1. LockSet(p, clip[p], "none")
    BY <1>6, LockReleased
  <2>2. ASSUME NEW q \in Process, NEW u \in Clip
        PROVE 
        /\ (pc[q] = "truncate" /\ clip[q] = u)' => lock'[q][u][Last] = "w"
        /\ Writing(q, u)' /\ ~spoilt'[u] => lock'[q][u][Last] = "w"
    <3>1. CASE q = p
      <4>1. /\ pc'[p] = "app" /\ clip' = clip /\ session' = session /\ spoilt' = spoilt
            /\ pc[p] \in {"lockW", "lockR", "closeR"}
            /\ lock'[p][u][Last] = IF u = clip[p] THEN "none" ELSE lock[p][u][Last]
        BY <1>6, <2>1, <3>1 DEF LockFails, LockSet
      <4>2. ASSUME u = session[p], ~spoilt[u]
            PROVE  u # clip[p] /\ lock[p][u][Last] = "w"
        BY <4>1, <4>2, ClipAssumption
      <4> QED
        BY <3>1, <4>1, <4>2
    <3>2. CASE q # p
      <4>1. /\ pc'[q] = pc[q] /\ clip'[q] = clip[q] /\ session'[q] = session[q]
            /\ spoilt' = spoilt /\ lock'[q][u][Last] = lock[q][u][Last]
        BY <1>6, <2>1, <3>2 DEF LockFails, LockSet
      <4> HIDE DEF TypeOK
      <4> QED
        BY <4>1
    <3> QED
      BY <3>1, <3>2
  <2> QED
    BY <2>2
<1>7. ASSUME NEW p \in Process, Truncate(p)
     PROVE  WriterLocked'
  BY <1>7, LastLocked, ClipAssumption DEF Truncate
<1>8. ASSUME NEW p \in Process, NEW d \in Data, SelAppend(p, d)
     PROVE  WriterLocked'
  BY <1>8, LastLocked, ClipAssumption DEF SelAppend
<1>9. ASSUME NEW p \in Process, UnlockWrite(p)
     PROVE  WriterLocked'
  <2>1. PICK mode : LockSet(p, session[p], mode) /\ mode \in {lock[p][session[p]][Last], "none"}
    BY <1>9, LockReleased
  <2> QED
    BY <1>9, <2>1, LastLocked, ClipAssumption DEF UnlockWrite, LockSet
<1>10. ASSUME NEW p \in Process, CloseWrite(p)
     PROVE  WriterLocked'
  <2>1. LockSet(p, clip[p], "none")
    BY <1>10, LockReleased
  <2>2. ASSUME NEW q \in Process, NEW u \in Clip
        PROVE 
        /\ (pc[q] = "truncate" /\ clip[q] = u)' => lock'[q][u][Last] = "w"
        /\ Writing(q, u)' /\ ~spoilt'[u] => lock'[q][u][Last] = "w"
    <3>1. CASE q = p
      BY <1>10, <2>1, <3>1, ClipAssumption DEF CloseWrite, LockSet
    <3>2. CASE q # p
      <4>1. /\ pc'[q] = pc[q] /\ clip'[q] = clip[q] /\ session'[q] = session[q]
            /\ spoilt' = spoilt /\ lock'[q][u][Last] = lock[q][u][Last]
        BY <1>10, <2>1, <3>2 DEF CloseWrite, LockSet
      <4> HIDE DEF TypeOK
      <4> QED
        BY <4>1
    <3> QED
      BY <3>1, <3>2
  <2> QED
    BY <2>2
<1>11. ASSUME NEW p \in Process, Stat(p)
     PROVE  WriterLocked'
  BY <1>11, LastLocked, ClipAssumption DEF Stat
<1>12. ASSUME NEW p \in Process, ReadData(p)
     PROVE  WriterLocked'
  BY <1>12, LastLocked, ClipAssumption DEF ReadData
<1>13. ASSUME NEW p \in Process, UnlockRead(p)
     PROVE  WriterLocked'
  <2>1. PICK mode : LockSet(p, clip[p], mode) /\ mode \in {lock[p][clip[p]][Last], "none"}
    BY <1>13, LockReleased
  <2> QED
    BY <1>13, <2>1, LastLocked, ClipAssumption DEF UnlockRead, LockSet
<1>14. ASSUME NEW p \in Process, CloseRead(p)
     PROVE  WriterLocked'
  <2>1. LockSet(p, clip[p], "none")
    BY <1>14, LockReleased
  <2>2. ASSUME NEW q \in Process, NEW u \in Clip
        PROVE 
        /\ (pc[q] = "truncate" /\ clip[q] = u)' => lock'[q][u][Last] = "w"
        /\ Writing(q, u)' /\ ~spoilt'[u] => lock'[q][u][Last] = "w"
    <3>1. CASE q = p
      <4>1. /\ pc'[p] = "app" /\ clip' = clip /\ session' = session /\ spoilt' = spoilt
            /\ pc[p] \in {"lockW", "lockR", "closeR"}
            /\ lock'[p][u][Last] = IF u = clip[p] THEN "none" ELSE lock[p][u][Last]
        BY <1>14, <2>1, <3>1 DEF CloseRead, LockSet
      <4>2. ASSUME u = session[p], ~spoilt[u]
            PROVE  u # clip[p] /\ lock[p][u][Last] = "w"
        BY <4>1, <4>2, ClipAssumption
      <4> QED
        BY <3>1, <4>1, <4>2
    <3>2. CASE q # p
      <4>1. /\ pc'[q] = pc[q] /\ clip'[q] = clip[q] /\ session'[q] = session[q]
            /\ spoilt' = spoilt /\ lock'[q][u][Last] = lock[q][u][Last]
        BY <1>14, <2>1, <3>2 DEF CloseRead, LockSet
      <4> HIDE DEF TypeOK
      <4> QED
        BY <4>1
    <3> QED
      BY <3>1, <3>2
  <2> QED
    BY <2>2
<1>15. ASSUME NEW p \in Process, Die(p)
     PROVE  WriterLocked'
  <2>1. \A q \in Process, u \in Clip :
            lock'[q][u][Last] = IF q = p THEN "none" ELSE lock[q][u][Last]
    BY <1>15, LockReleased
  <2> QED
    BY <1>15, <2>1, LastLocked, ClipAssumption DEF Die, LockSet
<1> QED
  BY <1>1, <1>2, <1>3, <1>4, <1>5, <1>6, <1>7, <1>8, <1>9, <1>10, <1>11, <1>12, <1>13, <1>14, <1>15 DEF Next

\* A reader keeps its lock until it has read.
LEMMA ReaderPreserved ==
  ASSUME TypeOK, ReaderLocked, [Next]_vars
  PROVE  ReaderLocked'
<1> USE DEF ReaderLocked, Reading, TypeOK, program, files, history, Goto
<1>1. CASE UNCHANGED vars
  BY <1>1 DEF vars, program, files, history
<1>2. ASSUME NEW p \in Process, NEW t \in Clip, OpenWrite(p, t)
     PROVE  ReaderLocked'
  BY <1>2, LastLocked, ClipAssumption DEF OpenWrite
<1>3. ASSUME NEW p \in Process, NEW t \in Clip, OpenRead(p, t)
     PROVE  ReaderLocked'
  BY <1>3, LastLocked, ClipAssumption DEF OpenRead
<1>4. ASSUME NEW p \in Process, NEW s \in Byte, LockWrite(p, s)
     PROVE  ReaderLocked'
  <2>1. LockSet(p, clip[p], "w")
    BY <1>4, LockGranted
  <2> QED
    BY <1>4, <2>1, LastLocked, ClipAssumption DEF LockWrite, LockSet, Lockable
<1>5. ASSUME NEW p \in Process, NEW s \in Byte, LockRead(p, s)
     PROVE  ReaderLocked'
  <2>1. LockSet(p, clip[p], "r")
    BY <1>5, LockGranted
  <2> QED
    BY <1>5, <2>1, LastLocked, ClipAssumption DEF LockRead, LockSet, Lockable
<1>6. ASSUME NEW p \in Process, LockFails(p)
     PROVE  ReaderLocked'
  <2>1. LockSet(p, clip[p], "none")
    BY <1>6, LockReleased
  <2>2. ASSUME NEW q \in Process, NEW u \in Clip
        PROVE 
        Reading(q, u)' => lock'[q][u][Last] = "r"
    <3>1. CASE q = p
      BY <1>6, <2>1, <3>1, ClipAssumption DEF LockFails, LockSet
    <3>2. CASE q # p
      <4>1. /\ pc'[q] = pc[q] /\ clip'[q] = clip[q] /\ session'[q] = session[q]
            /\ spoilt' = spoilt /\ lock'[q][u][Last] = lock[q][u][Last]
        BY <1>6, <2>1, <3>2 DEF LockFails, LockSet
      <4> HIDE DEF TypeOK
      <4> QED
        BY <4>1
    <3> QED
      BY <3>1, <3>2
  <2> QED
    BY <2>2
<1>7. ASSUME NEW p \in Process, Truncate(p)
     PROVE  ReaderLocked'
  BY <1>7, LastLocked, ClipAssumption DEF Truncate
<1>8. ASSUME NEW p \in Process, NEW d \in Data, SelAppend(p, d)
     PROVE  ReaderLocked'
  BY <1>8, LastLocked, ClipAssumption DEF SelAppend
<1>9. ASSUME NEW p \in Process, UnlockWrite(p)
     PROVE  ReaderLocked'
  <2>1. PICK mode : LockSet(p, session[p], mode) /\ mode \in {lock[p][session[p]][Last], "none"}
    BY <1>9, LockReleased
  <2> QED
    BY <1>9, <2>1, LastLocked, ClipAssumption DEF UnlockWrite, LockSet
<1>10. ASSUME NEW p \in Process, CloseWrite(p)
     PROVE  ReaderLocked'
  <2>1. LockSet(p, clip[p], "none")
    BY <1>10, LockReleased
  <2>2. ASSUME NEW q \in Process, NEW u \in Clip
        PROVE 
        Reading(q, u)' => lock'[q][u][Last] = "r"
    <3>1. CASE q = p
      BY <1>10, <2>1, <3>1, ClipAssumption DEF CloseWrite, LockSet
    <3>2. CASE q # p
      <4>1. /\ pc'[q] = pc[q] /\ clip'[q] = clip[q] /\ session'[q] = session[q]
            /\ spoilt' = spoilt /\ lock'[q][u][Last] = lock[q][u][Last]
        BY <1>10, <2>1, <3>2 DEF CloseWrite, LockSet
      <4> HIDE DEF TypeOK
      <4> QED
        BY <4>1
    <3> QED
      BY <3>1, <3>2
  <2> QED
    BY <2>2
<1>11. ASSUME NEW p \in Process, Stat(p)
     PROVE  ReaderLocked'
  BY <1>11, LastLocked, ClipAssumption DEF Stat
<1>12. ASSUME NEW p \in Process, ReadData(p)
     PROVE  ReaderLocked'
  BY <1>12, LastLocked, ClipAssumption DEF ReadData
<1>13. ASSUME NEW p \in Process, UnlockRead(p)
     PROVE  ReaderLocked'
  <2>1. PICK mode : LockSet(p, clip[p], mode) /\ mode \in {lock[p][clip[p]][Last], "none"}
    BY <1>13, LockReleased
  <2> QED
    BY <1>13, <2>1, LastLocked, ClipAssumption DEF UnlockRead, LockSet
<1>14. ASSUME NEW p \in Process, CloseRead(p)
     PROVE  ReaderLocked'
  <2>1. LockSet(p, clip[p], "none")
    BY <1>14, LockReleased
  <2>2. ASSUME NEW q \in Process, NEW u \in Clip
        PROVE 
        Reading(q, u)' => lock'[q][u][Last] = "r"
    <3>1. CASE q = p
      BY <1>14, <2>1, <3>1, ClipAssumption DEF CloseRead, LockSet
    <3>2. CASE q # p
      <4>1. /\ pc'[q] = pc[q] /\ clip'[q] = clip[q] /\ session'[q] = session[q]
            /\ spoilt' = spoilt /\ lock'[q][u][Last] = lock[q][u][Last]
        BY <1>14, <2>1, <3>2 DEF CloseRead, LockSet
      <4> HIDE DEF TypeOK
      <4> QED
        BY <4>1
    <3> QED
      BY <3>1, <3>2
  <2> QED
    BY <2>2
<1>15. ASSUME NEW p \in Process, Die(p)
     PROVE  ReaderLocked'
  <2>1. \A q \in Process, u \in Clip :
            lock'[q][u][Last] = IF q = p THEN "none" ELSE lock[q][u][Last]
    BY <1>15, LockReleased
  <2> QED
    BY <1>15, <2>1, LastLocked, ClipAssumption DEF Die, LockSet
<1> QED
  BY <1>1, <1>2, <1>3, <1>4, <1>5, <1>6, <1>7, <1>8, <1>9, <1>10, <1>11, <1>12, <1>13, <1>14, <1>15 DEF Next

\* The order of the calls of a process.
LEMMA PhasesPreserved ==
  ASSUME TypeOK, Phases, OwnReadSpoils, [Next]_vars
  PROVE  Phases' /\ OwnReadSpoils'
<1> USE DEF Phases, OwnReadSpoils, Writing, TypeOK, program, files, history, Goto
<1>1. CASE UNCHANGED vars
  BY <1>1 DEF vars, program, files, history
<1>2. ASSUME NEW p \in Process, NEW t \in Clip, OpenWrite(p, t)
     PROVE  Phases' /\ OwnReadSpoils'
  BY <1>2, ClipAssumption DEF OpenWrite
<1>3. ASSUME NEW p \in Process, NEW t \in Clip, OpenRead(p, t)
     PROVE  Phases' /\ OwnReadSpoils'
  <2>1. Phases'
    BY <1>3, ClipAssumption DEF OpenRead
  <2>2. ASSUME NEW q \in Process, pc'[q] \in {"lockR", "stat", "read", "unlockR", "closeR"},
               session'[q] = clip'[q]
        PROVE  spoilt'[clip'[q]]
    BY <1>3, <2>2, ClipAssumption DEF OpenRead
  <2> QED
    BY <2>1, <2>2
<1>4. ASSUME NEW p \in Process, NEW s \in Byte, LockWrite(p, s)
     PROVE  Phases' /\ OwnReadSpoils'
  BY <1>4, ClipAssumption DEF LockWrite
<1>5. ASSUME NEW p \in Process, NEW s \in Byte, LockRead(p, s)
     PROVE  Phases' /\ OwnReadSpoils'
  BY <1>5, ClipAssumption DEF LockRead
<1>6. ASSUME NEW p \in Process, LockFails(p)
     PROVE  Phases' /\ OwnReadSpoils'
  BY <1>6, ClipAssumption DEF LockFails
<1>7. ASSUME NEW p \in Process, Truncate(p)
     PROVE  Phases' /\ OwnReadSpoils'
  BY <1>7, ClipAssumption DEF Truncate
<1>8. ASSUME NEW p \in Process, NEW d \in Data, SelAppend(p, d)
     PROVE  Phases' /\ OwnReadSpoils'
  BY <1>8, ClipAssumption DEF SelAppend
<1>9. ASSUME NEW p \in Process, UnlockWrite(p)
     PROVE  Phases' /\ OwnReadSpoils'
  BY <1>9, ClipAssumption DEF UnlockWrite
<1>10. ASSUME NEW p \in Process, CloseWrite(p)
     PROVE  Phases' /\ OwnReadSpoils'
  BY <1>10, ClipAssumption DEF CloseWrite
<1>11. ASSUME NEW p \in Process, Stat(p)
     PROVE  Phases' /\ OwnReadSpoils'
  BY <1>11, ClipAssumption DEF Stat
<1>12. ASSUME NEW p \in Process, ReadData(p)
     PROVE  Phases' /\ OwnReadSpoils'
  BY <1>12, ClipAssumption DEF ReadData
<1>13. ASSUME NEW p \in Process, UnlockRead(p)
     PROVE  Phases' /\ OwnReadSpoils'
  BY <1>13, ClipAssumption DEF UnlockRead
<1>14. ASSUME NEW p \in Process, CloseRead(p)
     PROVE  Phases' /\ OwnReadSpoils'
  BY <1>14, ClipAssumption DEF CloseRead
<1>15. ASSUME NEW p \in Process, Die(p)
     PROVE  Phases' /\ OwnReadSpoils'
  BY <1>15, ClipAssumption DEF Die
<1> QED
  BY <1>1, <1>2, <1>3, <1>4, <1>5, <1>6, <1>7, <1>8, <1>9, <1>10, <1>11, <1>12, <1>13, <1>14, <1>15 DEF Next

\* Who writes is alone, and so is who is about to truncate.
LEMMA Alone ==
  ASSUME TypeOK, LocksApart, WriterLocked, ReaderLocked, Phases, OwnReadSpoils
  PROVE  /\ Exclusion
         /\ \A p, q \in Process, t \in Clip :
              /\ Writing(p, t) /\ Reading(q, t) => spoilt[t]
              /\ pc[p] = "truncate" /\ clip[p] = t => ~Reading(q, t)
<1>1. ASSUME NEW p \in Process, NEW q \in Process, NEW t \in Clip, p # q, Writing(p, t), ~spoilt[t]
      PROVE  ~Writing(q, t) /\ ~Reading(q, t)
  <2>1. lock[p][t][Last] = "w" /\ lock[q][t][Last] = "none"
    BY <1>1 DEF WriterLocked, LocksApart
  <2> QED
    BY <1>1, <2>1 DEF WriterLocked, ReaderLocked
<1>2. ASSUME NEW p \in Process, NEW t \in Clip, Writing(p, t), Reading(p, t)
      PROVE  spoilt[t]
  BY <1>2 DEF Writing, Reading, OwnReadSpoils
<1>3. ASSUME NEW p \in Process, NEW q \in Process, NEW t \in Clip, pc[p] = "truncate", clip[p] = t
      PROVE  ~Reading(q, t)
  <2>1. lock[p][t][Last] = "w" /\ (p # q => lock[q][t][Last] = "none")
    BY <1>3 DEF WriterLocked, LocksApart
  <2> QED
    BY <1>3, <2>1 DEF ReaderLocked, Reading
<1> QED
  BY <1>1, <1>2, <1>3 DEF Exclusion

\* A session's file holds what was sent.
LEMMA SessionPreserved ==
  ASSUME TypeOK, Exclusion, Phases, SessionWritten, [Next]_vars
  PROVE  SessionWritten'
<1> USE DEF SessionWritten, TypeOK, program, files, history, Goto
<1>1. CASE UNCHANGED vars
  BY <1>1 DEF vars, program, files, history
<1>2. ASSUME NEW p \in Process, NEW t \in Clip, OpenWrite(p, t)
     PROVE  SessionWritten'
  BY <1>2, ClipAssumption DEF OpenWrite
<1>3. ASSUME NEW p \in Process, NEW t \in Clip, OpenRead(p, t)
     PROVE  SessionWritten'
  BY <1>3, ClipAssumption DEF OpenRead
<1>4. ASSUME NEW p \in Process, NEW s \in Byte, LockWrite(p, s)
     PROVE  SessionWritten'
  BY <1>4, ClipAssumption DEF LockWrite
<1>5. ASSUME NEW p \in Process, NEW s \in Byte, LockRead(p, s)
     PROVE  SessionWritten'
  BY <1>5, ClipAssumption DEF LockRead
<1>6. ASSUME NEW p \in Process, LockFails(p)
     PROVE  SessionWritten'
  BY <1>6, ClipAssumption DEF LockFails
<1>7. ASSUME NEW p \in Process, Truncate(p)
     PROVE  SessionWritten'
  <2>1. ASSUME NEW q \in Process, NEW t \in Clip, session'[q] = t, pc'[q] # "closeW", ~spoilt'[t]
        PROVE  content'[t] = sent'[q]
    <3>1. CASE q = p
      BY <1>7, <2>1, <3>1 DEF Truncate
    <3>2. CASE q # p
      <4>1. Writing(q, t)
        BY <1>7, <2>1, <3>2 DEF Truncate, Writing
      <4>2. t # clip[p]
        BY <1>7, <2>1, <3>2, <4>1 DEF Truncate
      <4> QED
        BY <1>7, <2>1, <3>2, <4>2 DEF Truncate
    <3> QED
      BY <3>1, <3>2
  <2> QED
    BY <2>1
<1>8. ASSUME NEW p \in Process, NEW d \in Data, SelAppend(p, d)
     PROVE  SessionWritten'
  <2>1. ASSUME NEW q \in Process, NEW t \in Clip, session'[q] = t, pc'[q] # "closeW", ~spoilt'[t]
        PROVE  content'[t] = sent'[q]
    <3>1. session[q] = t /\ pc[q] # "closeW" /\ ~spoilt[t] /\ content[t] = sent[q]
      BY <1>8, <2>1 DEF SelAppend
    <3>2. CASE q = p
      <4>1. content'[t] = Written(sent[p], Len(sent[p]), d) /\ sent'[p] = Append(sent[p], d)
        BY <1>8, <3>1, <3>2 DEF SelAppend
      <4> QED
        BY <3>2, <4>1, WrittenAtEnd
    <3>3. CASE q # p
      <4>1. session[p] # t
        BY <1>8, <3>1, <3>3 DEF SelAppend, Exclusion, Writing
      <4> QED
        BY <1>8, <3>1, <3>3, <4>1 DEF SelAppend
    <3> QED
      BY <3>2, <3>3
  <2> QED
    BY <2>1
<1>9. ASSUME NEW p \in Process, UnlockWrite(p)
     PROVE  SessionWritten'
  BY <1>9, ClipAssumption DEF UnlockWrite
<1>10. ASSUME NEW p \in Process, CloseWrite(p)
     PROVE  SessionWritten'
  BY <1>10, ClipAssumption DEF CloseWrite
<1>11. ASSUME NEW p \in Process, Stat(p)
     PROVE  SessionWritten'
  BY <1>11, ClipAssumption DEF Stat
<1>12. ASSUME NEW p \in Process, ReadData(p)
     PROVE  SessionWritten'
  BY <1>12, ClipAssumption DEF ReadData
<1>13. ASSUME NEW p \in Process, UnlockRead(p)
     PROVE  SessionWritten'
  BY <1>13, ClipAssumption DEF UnlockRead
<1>14. ASSUME NEW p \in Process, CloseRead(p)
     PROVE  SessionWritten'
  BY <1>14, ClipAssumption DEF CloseRead
<1>15. ASSUME NEW p \in Process, Die(p)
     PROVE  SessionWritten'
  BY <1>15, ClipAssumption DEF Die
<1> QED
  BY <1>1, <1>2, <1>3, <1>4, <1>5, <1>6, <1>7, <1>8, <1>9, <1>10, <1>11, <1>12, <1>13, <1>14, <1>15 DEF Next

\* Without a session the file holds what the last one left.
LEMMA ClipPreserved ==
  ASSUME TypeOK, Exclusion, Phases, SessionWritten, ClipWhole, [Next]_vars
  PROVE  ClipWhole'
<1> USE DEF ClipWhole, InSession, TypeOK, program, files, history, Goto
<1>1. CASE UNCHANGED vars
  BY <1>1 DEF vars, program, files, history
<1>2. ASSUME NEW p \in Process, NEW t \in Clip, OpenWrite(p, t)
     PROVE  ClipWhole'
  BY <1>2, ClipAssumption DEF OpenWrite
<1>3. ASSUME NEW p \in Process, NEW t \in Clip, OpenRead(p, t)
     PROVE  ClipWhole'
  BY <1>3, ClipAssumption DEF OpenRead
<1>4. ASSUME NEW p \in Process, NEW s \in Byte, LockWrite(p, s)
     PROVE  ClipWhole'
  BY <1>4, ClipAssumption DEF LockWrite
<1>5. ASSUME NEW p \in Process, NEW s \in Byte, LockRead(p, s)
     PROVE  ClipWhole'
  BY <1>5, ClipAssumption DEF LockRead
<1>6. ASSUME NEW p \in Process, LockFails(p)
     PROVE  ClipWhole'
  BY <1>6, ClipAssumption DEF LockFails
<1>7. ASSUME NEW p \in Process, Truncate(p)
     PROVE  ClipWhole'
  <2>1. ASSUME NEW t \in Clip, ~spoilt'[t], ~InSession(t)'
        PROVE  content'[t] = whole'[t]
    <3>1. t # clip[p]
      BY <1>7, <2>1 DEF Truncate
    <3>2. ~InSession(t) /\ ~spoilt[t]
      BY <1>7, <2>1, <3>1, ClipAssumption DEF Truncate, Phases
    <3> QED
      BY <1>7, <3>1, <3>2 DEF Truncate
  <2> QED
    BY <2>1
<1>8. ASSUME NEW p \in Process, NEW d \in Data, SelAppend(p, d)
     PROVE  ClipWhole'
  <2>1. InSession(session[p])'
    BY <1>8 DEF SelAppend
  <2>2. \A t \in Clip : t # session[p] => content'[t] = content[t]
    BY <1>8 DEF SelAppend
  <2> QED
    BY <1>8, <2>1, <2>2 DEF SelAppend
<1>9. ASSUME NEW p \in Process, UnlockWrite(p)
     PROVE  ClipWhole'
  <2>1. ASSUME NEW t \in Clip, ~spoilt'[t], ~InSession(t)'
        PROVE  content'[t] = whole'[t]
    <3>1. CASE t = session[p]
      BY <1>9, <2>1, <3>1 DEF UnlockWrite, SessionWritten
    <3>2. CASE t # session[p]
      <4>1. ~InSession(t)
        BY <1>9, <2>1, <3>2 DEF UnlockWrite
      <4> QED
        BY <1>9, <2>1, <3>2, <4>1 DEF UnlockWrite
    <3> QED
      BY <3>1, <3>2
  <2> QED
    BY <2>1
<1>10. ASSUME NEW p \in Process, CloseWrite(p)
     PROVE  ClipWhole'
  BY <1>10, ClipAssumption DEF CloseWrite
<1>11. ASSUME NEW p \in Process, Stat(p)
     PROVE  ClipWhole'
  BY <1>11, ClipAssumption DEF Stat
<1>12. ASSUME NEW p \in Process, ReadData(p)
     PROVE  ClipWhole'
  BY <1>12, ClipAssumption DEF ReadData
<1>13. ASSUME NEW p \in Process, UnlockRead(p)
     PROVE  ClipWhole'
  BY <1>13, ClipAssumption DEF UnlockRead
<1>14. ASSUME NEW p \in Process, CloseRead(p)
     PROVE  ClipWhole'
  BY <1>14, ClipAssumption DEF CloseRead
<1>15. ASSUME NEW p \in Process, Die(p)
     PROVE  ClipWhole'
  <2>1. ASSUME NEW t \in Clip, ~spoilt'[t], ~InSession(t)'
        PROVE  content'[t] = whole'[t]
    <3>1. CASE session[p] = t /\ pc[p] # "closeW"
      BY <1>15, <2>1, <3>1 DEF Die, SessionWritten
    <3>2. CASE ~(session[p] = t /\ pc[p] # "closeW")
      <4>1. ~InSession(t)
        BY <1>15, <2>1, <3>2 DEF Die
      <4> QED
        BY <1>15, <2>1, <3>2, <4>1 DEF Die
    <3> QED
      BY <3>1, <3>2
  <2> QED
    BY <2>1
<1> QED
  BY <1>1, <1>2, <1>3, <1>4, <1>5, <1>6, <1>7, <1>8, <1>9, <1>10, <1>11, <1>12, <1>13, <1>14, <1>15 DEF Next

\* A file does not change between stat() and read().
LEMMA SizePreserved ==
  ASSUME TypeOK, LocksApart, WriterLocked, ReaderLocked, Phases, OwnReadSpoils, SizeKnown, [Next]_vars
  PROVE  SizeKnown'
<1> USE DEF SizeKnown, TypeOK, program, files, history, Goto
<1>1. CASE UNCHANGED vars
  BY <1>1 DEF vars, program, files, history
<1>2. ASSUME NEW p \in Process, NEW t \in Clip, OpenWrite(p, t)
     PROVE  SizeKnown'
  BY <1>2, ClipAssumption DEF OpenWrite
<1>3. ASSUME NEW p \in Process, NEW t \in Clip, OpenRead(p, t)
     PROVE  SizeKnown'
  BY <1>3, ClipAssumption DEF OpenRead
<1>4. ASSUME NEW p \in Process, NEW s \in Byte, LockWrite(p, s)
     PROVE  SizeKnown'
  BY <1>4, ClipAssumption DEF LockWrite
<1>5. ASSUME NEW p \in Process, NEW s \in Byte, LockRead(p, s)
     PROVE  SizeKnown'
  BY <1>5, ClipAssumption DEF LockRead
<1>6. ASSUME NEW p \in Process, LockFails(p)
     PROVE  SizeKnown'
  BY <1>6, ClipAssumption DEF LockFails
<1>7. ASSUME NEW p \in Process, Truncate(p)
     PROVE  SizeKnown'
  <2>1. ASSUME NEW q \in Process, pc'[q] = "read", ~spoilt'[clip'[q]]
        PROVE  Len(got'[q]) = Len(content'[clip'[q]])
    <3>1. q # p /\ pc[q] = "read" /\ clip'[q] = clip[q] /\ got'[q] = got[q] /\ Reading(q, clip[q])
      BY <1>7, <2>1 DEF Truncate, Reading
    <3>2. ~spoilt[clip[q]] /\ clip[p] # clip[q]
      BY <1>7, <2>1, <3>1, Alone DEF Truncate, Writing
    <3> QED
      BY <1>7, <3>1, <3>2 DEF Truncate
  <2> QED
    BY <2>1
<1>8. ASSUME NEW p \in Process, NEW d \in Data, SelAppend(p, d)
     PROVE  SizeKnown'
  <2>1. ASSUME NEW q \in Process, pc'[q] = "read", ~spoilt'[clip'[q]]
        PROVE  Len(got'[q]) = Len(content'[clip'[q]])
    <3>1. q # p /\ pc[q] = "read" /\ clip'[q] = clip[q] /\ got'[q] = got[q] /\ Reading(q, clip[q])
      BY <1>8, <2>1 DEF SelAppend, Reading
    <3>2. ~spoilt[clip[q]] /\ session[p] # clip[q]
      BY <1>8, <2>1, <3>1, Alone DEF SelAppend, Writing
    <3> QED
      BY <1>8, <3>1, <3>2 DEF SelAppend
  <2> QED
    BY <2>1
<1>9. ASSUME NEW p \in Process, UnlockWrite(p)
     PROVE  SizeKnown'
  BY <1>9, ClipAssumption DEF UnlockWrite
<1>10. ASSUME NEW p \in Process, CloseWrite(p)
     PROVE  SizeKnown'
  BY <1>10, ClipAssumption DEF CloseWrite
<1>11. ASSUME NEW p \in Process, Stat(p)
     PROVE  SizeKnown'
  <2>1. Len([i \in 1 .. Len(content[clip[p]]) |-> Hole]) = Len(content[clip[p]])
    BY LenProperties
  <2>2. got'[p] = [i \in 1 .. Len(content[clip[p]]) |-> Hole]
    BY <1>11 DEF Stat
  <2> QED
    BY <1>11, <2>1, <2>2 DEF Stat
<1>12. ASSUME NEW p \in Process, ReadData(p)
     PROVE  SizeKnown'
  BY <1>12, ClipAssumption DEF ReadData
<1>13. ASSUME NEW p \in Process, UnlockRead(p)
     PROVE  SizeKnown'
  BY <1>13, ClipAssumption DEF UnlockRead
<1>14. ASSUME NEW p \in Process, CloseRead(p)
     PROVE  SizeKnown'
  BY <1>14, ClipAssumption DEF CloseRead
<1>15. ASSUME NEW p \in Process, Die(p)
     PROVE  SizeKnown'
  BY <1>15, ClipAssumption DEF Die
<1> QED
  BY <1>1, <1>2, <1>3, <1>4, <1>5, <1>6, <1>7, <1>8, <1>9, <1>10, <1>11, <1>12, <1>13, <1>14, <1>15 DEF Next

\* What was read is what the last session left, as long as it is locked.
LEMMA ReadPreserved ==
  ASSUME TypeOK, LocksApart, WriterLocked, ReaderLocked, Phases, OwnReadSpoils, ClipWhole, SizeKnown, ReadWhole, [Next]_vars
  PROVE  ReadWhole'
<1> USE DEF ReadWhole, TypeOK, program, files, history, Goto
<1>1. CASE UNCHANGED vars
  BY <1>1 DEF vars, program, files, history
<1>2. ASSUME NEW p \in Process, NEW t \in Clip, OpenWrite(p, t)
     PROVE  ReadWhole'
  BY <1>2, ClipAssumption DEF OpenWrite
<1>3. ASSUME NEW p \in Process, NEW t \in Clip, OpenRead(p, t)
     PROVE  ReadWhole'
  BY <1>3, ClipAssumption DEF OpenRead
<1>4. ASSUME NEW p \in Process, NEW s \in Byte, LockWrite(p, s)
     PROVE  ReadWhole'
  BY <1>4, ClipAssumption DEF LockWrite
<1>5. ASSUME NEW p \in Process, NEW s \in Byte, LockRead(p, s)
     PROVE  ReadWhole'
  BY <1>5, ClipAssumption DEF LockRead
<1>6. ASSUME NEW p \in Process, LockFails(p)
     PROVE  ReadWhole'
  BY <1>6, ClipAssumption DEF LockFails
<1>7. ASSUME NEW p \in Process, Truncate(p)
     PROVE  ReadWhole'
  <2>1. ASSUME NEW q \in Process, pc'[q] = "unlockR", ~spoilt'[clip'[q]]
        PROVE  got'[q] = whole'[clip'[q]]
    <3>1. q # p /\ pc[q] = "unlockR" /\ clip'[q] = clip[q] /\ got'[q] = got[q] /\ Reading(q, clip[q])
      BY <1>7, <2>1 DEF Truncate, Reading
    <3>2. ~spoilt[clip[q]] /\ clip[p] # clip[q]
      BY <1>7, <2>1, <3>1, Alone DEF Truncate, Writing
    <3> QED
      BY <1>7, <3>1, <3>2 DEF Truncate
  <2> QED
    BY <2>1
<1>8. ASSUME NEW p \in Process, NEW d \in Data, SelAppend(p, d)
     PROVE  ReadWhole'
  BY <1>8, ClipAssumption DEF SelAppend
<1>9. ASSUME NEW p \in Process, UnlockWrite(p)
     PROVE  ReadWhole'
  <2>1. ASSUME NEW q \in Process, pc'[q] = "unlockR", ~spoilt'[clip'[q]]
        PROVE  got'[q] = whole'[clip'[q]]
    <3>1. q # p /\ pc[q] = "unlockR" /\ clip'[q] = clip[q] /\ got'[q] = got[q] /\ Reading(q, clip[q])
      BY <1>9, <2>1 DEF UnlockWrite, Reading
    <3>2. ~spoilt[clip[q]] /\ session[p] # clip[q]
      BY <1>9, <2>1, <3>1, Alone DEF UnlockWrite, Writing
    <3> QED
      BY <1>9, <3>1, <3>2 DEF UnlockWrite
  <2> QED
    BY <2>1
<1>10. ASSUME NEW p \in Process, CloseWrite(p)
     PROVE  ReadWhole'
  BY <1>10, ClipAssumption DEF CloseWrite
<1>11. ASSUME NEW p \in Process, Stat(p)
     PROVE  ReadWhole'
  BY <1>11, ClipAssumption DEF Stat
<1>12. ASSUME NEW p \in Process, ReadData(p)
     PROVE  ReadWhole'
  <2>1. ASSUME ~spoilt[clip[p]]
        PROVE  got'[p] = whole[clip[p]]
    <3>1. Len(got[p]) = Len(content[clip[p]]) /\ Reading(p, clip[p])
      BY <1>12, <2>1 DEF ReadData, SizeKnown, Reading
    <3>2. ~InSession(clip[p])
      BY <2>1, <3>1, Alone DEF InSession, Writing
    <3>3. content[clip[p]] = whole[clip[p]]
      BY <2>1, <3>2 DEF ClipWhole
    <3>4. got'[p] = SubSeq(content[clip[p]], 1, Len(content[clip[p]]))
      BY <1>12, <3>1 DEF ReadData
    <3>5. SubSeq(content[clip[p]], 1, Len(content[clip[p]])) = content[clip[p]]
      BY SubSeqFull
    <3> QED
      BY <3>3, <3>4, <3>5
  <2> QED
    BY <1>12, <2>1 DEF ReadData
<1>13. ASSUME NEW p \in Process, UnlockRead(p)
     PROVE  ReadWhole'
  BY <1>13, ClipAssumption DEF UnlockRead
<1>14. ASSUME NEW p \in Process, CloseRead(p)
     PROVE  ReadWhole'
  BY <1>14, ClipAssumption DEF CloseRead
<1>15. ASSUME NEW p \in Process, Die(p)
     PROVE  ReadWhole'
  <2>1. ASSUME NEW q \in Process, pc'[q] = "unlockR", ~spoilt'[clip'[q]]
        PROVE  got'[q] = whole'[clip'[q]]
    <3>1. q # p /\ pc[q] = "unlockR" /\ clip'[q] = clip[q] /\ got'[q] = got[q] /\ Reading(q, clip[q])
      BY <1>15, <2>1 DEF Die, Reading
    <3>2. ~spoilt[clip[q]] /\ whole'[clip[q]] = whole[clip[q]]
      BY <1>15, <2>1, <3>1, Alone DEF Die, Writing
    <3> QED
      BY <1>15, <3>1, <3>2 DEF Die
  <2> QED
    BY <2>1
<1> QED
  BY <1>1, <1>2, <1>3, <1>4, <1>5, <1>6, <1>7, <1>8, <1>9, <1>10, <1>11, <1>12, <1>13, <1>14, <1>15 DEF Next

\* close() leaves no lock behind.
LEMMA LocksPreserved ==
  ASSUME TypeOK, Phases, NoLockLeft, [Next]_vars
  PROVE  NoLockLeft'
<1> USE DEF NoLockLeft, TypeOK, program, files, history, Goto
<1>1. CASE UNCHANGED vars
  BY <1>1 DEF vars, program, files, history
<1>2. ASSUME NEW p \in Process, NEW t \in Clip, OpenWrite(p, t)
     PROVE  NoLockLeft'
  BY <1>2, ClipAssumption DEF OpenWrite
<1>3. ASSUME NEW p \in Process, NEW t \in Clip, OpenRead(p, t)
     PROVE  NoLockLeft'
  BY <1>3, ClipAssumption DEF OpenRead
<1>4. ASSUME NEW p \in Process, NEW s \in Byte, LockWrite(p, s)
     PROVE  NoLockLeft'
  <2>1. PICK t \in Clip : t = clip[p]
    BY <1>4 DEF LockWrite
  <2>2. \A q \in Process, u \in Clip, b \in Byte : lock'[q][u][b] = lock[q][u][b] \/ (q = p /\ u = t)
    <3> HIDE DEF TypeOK
    <3>1. \A mode \in Modes, i \in Byte : lock' = Locked(p, t, i, mode) =>
            \A q \in Process, u \in Clip, b \in Byte :
              lock'[q][u][b] = lock[q][u][b] \/ (q = p /\ u = t)
      BY LockedElsewhere
    <3> QED
      BY <1>4, <2>1, <3>1 DEF LockWrite, Modes
  <2> QED
    BY <1>4, <2>1, <2>2 DEF LockWrite
<1>5. ASSUME NEW p \in Process, NEW s \in Byte, LockRead(p, s)
     PROVE  NoLockLeft'
  <2>1. PICK t \in Clip : t = clip[p]
    BY <1>5 DEF LockRead
  <2>2. \A q \in Process, u \in Clip, b \in Byte : lock'[q][u][b] = lock[q][u][b] \/ (q = p /\ u = t)
    <3> HIDE DEF TypeOK
    <3>1. \A mode \in Modes, i \in Byte : lock' = Locked(p, t, i, mode) =>
            \A q \in Process, u \in Clip, b \in Byte :
              lock'[q][u][b] = lock[q][u][b] \/ (q = p /\ u = t)
      BY LockedElsewhere
    <3> QED
      BY <1>5, <2>1, <3>1 DEF LockRead, Modes
  <2> QED
    BY <1>5, <2>1, <2>2 DEF LockRead
<1>6. ASSUME NEW p \in Process, LockFails(p)
     PROVE  NoLockLeft'
  <2>1. ASSUME NEW q \in Process, NEW t \in Clip, NEW b \in Byte, lock'[q][t][b] # "none"
        PROVE  session'[q] = t \/ (pc'[q] # "app" /\ clip'[q] = t)
    <3>1. lock'[q][t][b] = IF q = p /\ t = clip[p] THEN "none" ELSE lock[q][t][b]
      BY <1>6, ClosedTable DEF LockFails
    <3> QED
      BY <1>6, <2>1, <3>1 DEF LockFails
  <2> QED
    BY <2>1
<1>7. ASSUME NEW p \in Process, Truncate(p)
     PROVE  NoLockLeft'
  <2>1. ASSUME NEW q \in Process, NEW t \in Clip, NEW b \in Byte, lock[q][t][b] # "none"
        PROVE  session'[q] = t \/ (pc'[q] # "app" /\ clip'[q] = t)
    <3>1. CASE q = p
      BY <1>7, <2>1, <3>1, ClipAssumption DEF Truncate, Phases
    <3>2. CASE q # p
      BY <1>7, <2>1, <3>2 DEF Truncate
    <3> QED
      BY <3>1, <3>2
  <2> QED
    BY <1>7, <2>1 DEF Truncate
<1>8. ASSUME NEW p \in Process, NEW d \in Data, SelAppend(p, d)
     PROVE  NoLockLeft'
  BY <1>8, ClipAssumption DEF SelAppend
<1>9. ASSUME NEW p \in Process, UnlockWrite(p)
     PROVE  NoLockLeft'
  <2>1. PICK t \in Clip : t = session[p]
    BY <1>9 DEF UnlockWrite
  <2>2. \A q \in Process, u \in Clip, b \in Byte : lock'[q][u][b] = lock[q][u][b] \/ (q = p /\ u = t)
    <3> HIDE DEF TypeOK
    <3>1. \A mode \in Modes, i \in Byte : lock' = Locked(p, t, i, mode) =>
            \A q \in Process, u \in Clip, b \in Byte :
              lock'[q][u][b] = lock[q][u][b] \/ (q = p /\ u = t)
      BY LockedElsewhere
    <3> QED
      BY <1>9, <2>1, <3>1 DEF UnlockWrite, Modes
  <2> QED
    BY <1>9, <2>1, <2>2 DEF UnlockWrite
<1>10. ASSUME NEW p \in Process, CloseWrite(p)
     PROVE  NoLockLeft'
  <2>1. ASSUME NEW q \in Process, NEW t \in Clip, NEW b \in Byte, lock'[q][t][b] # "none"
        PROVE  session'[q] = t \/ (pc'[q] # "app" /\ clip'[q] = t)
    <3>1. lock'[q][t][b] = IF q = p /\ t = clip[p] THEN "none" ELSE lock[q][t][b]
      BY <1>10, ClosedTable DEF CloseWrite
    <3> QED
      BY <1>10, <2>1, <3>1 DEF CloseWrite, Phases
  <2> QED
    BY <2>1
<1>11. ASSUME NEW p \in Process, Stat(p)
     PROVE  NoLockLeft'
  BY <1>11, ClipAssumption DEF Stat
<1>12. ASSUME NEW p \in Process, ReadData(p)
     PROVE  NoLockLeft'
  BY <1>12, ClipAssumption DEF ReadData
<1>13. ASSUME NEW p \in Process, UnlockRead(p)
     PROVE  NoLockLeft'
  <2>1. PICK t \in Clip : t = clip[p]
    BY <1>13 DEF UnlockRead
  <2>2. \A q \in Process, u \in Clip, b \in Byte : lock'[q][u][b] = lock[q][u][b] \/ (q = p /\ u = t)
    <3> HIDE DEF TypeOK
    <3>1. \A mode \in Modes, i \in Byte : lock' = Locked(p, t, i, mode) =>
            \A q \in Process, u \in Clip, b \in Byte :
              lock'[q][u][b] = lock[q][u][b] \/ (q = p /\ u = t)
      BY LockedElsewhere
    <3> QED
      BY <1>13, <2>1, <3>1 DEF UnlockRead, Modes
  <2> QED
    BY <1>13, <2>1, <2>2 DEF UnlockRead
<1>14. ASSUME NEW p \in Process, CloseRead(p)
     PROVE  NoLockLeft'
  <2>1. ASSUME NEW q \in Process, NEW t \in Clip, NEW b \in Byte, lock'[q][t][b] # "none"
        PROVE  session'[q] = t \/ (pc'[q] # "app" /\ clip'[q] = t)
    <3>1. lock'[q][t][b] = IF q = p /\ t = clip[p] THEN "none" ELSE lock[q][t][b]
      BY <1>14, ClosedTable DEF CloseRead
    <3> QED
      BY <1>14, <2>1, <3>1 DEF CloseRead
  <2> QED
    BY <2>1
<1>15. ASSUME NEW p \in Process, Die(p)
     PROVE  NoLockLeft'
  BY <1>15, ClipAssumption DEF Die
<1> QED
  BY <1>1, <1>2, <1>3, <1>4, <1>5, <1>6, <1>7, <1>8, <1>9, <1>10, <1>11, <1>12, <1>13, <1>14, <1>15 DEF Next

-----------------------------------------------------------------------------
(* The theorems.                                                           *)

\* The invariant holds at the start and is kept by every step.
LEMMA InvInit == Init => Inv
<1> SUFFICES ASSUME Init PROVE Inv
  OBVIOUS
<1>1. TypeOK
  BY DEF Init, TypeOK
<1>2. LocksApart /\ NoLockLeft /\ WriterLocked /\ ReaderLocked
  BY LastLocked, ZeroByte, ClipAssumption
     DEF Init, LocksApart, NoLockLeft, WriterLocked, ReaderLocked, Writing, Reading
<1>3. Phases /\ OwnReadSpoils /\ SessionWritten /\ ClipWhole /\ SizeKnown /\ ReadWhole
  BY ClipAssumption
     DEF Init, Phases, OwnReadSpoils, SessionWritten, ClipWhole, SizeKnown, ReadWhole
<1> QED
  BY <1>1, <1>2, <1>3 DEF Inv
LEMMA InvNext == Inv /\ [Next]_vars => Inv'
<1> SUFFICES ASSUME Inv, [Next]_vars PROVE Inv'
  OBVIOUS
<1>1. Exclusion
  BY Alone DEF Inv
<1>2. TypeOK' /\ LocksApart' /\ WriterLocked' /\ ReaderLocked' /\ Phases' /\ OwnReadSpoils'
  BY TypePreserved, LocksApartPreserved, WriterPreserved, ReaderPreserved, PhasesPreserved DEF Inv
<1>3. SessionWritten' /\ ClipWhole' /\ SizeKnown' /\ ReadWhole' /\ NoLockLeft'
  BY <1>1, SessionPreserved, ClipPreserved, SizePreserved, ReadPreserved, LocksPreserved DEF Inv
<1> QED
  BY <1>2, <1>3 DEF Inv
LEMMA InvCorrect == Spec => []Inv
BY InvInit, InvNext, PTL DEF Spec

\* Whoever opens, reads, closes or is killed, and wherever dolock() begins its ranges:
\* w_selopen() gives a clip to one process, and w_getselection() reads none that is written.
THEOREM ExclusionCorrect == Spec => []Exclusion
<1>1. Inv => Exclusion
  BY Alone DEF Inv
<1> QED
  BY <1>1, InvCorrect, PTL

\* w_getselection() returns the clip as the last session has left it.
THEOREM ReadWholeCorrect == Spec => []ReadWhole
<1>1. Inv => ReadWhole
  BY DEF Inv
<1> QED
  BY <1>1, InvCorrect, PTL

\* A process that is done or was killed locks nobody out.
THEOREM NoLockLeftCorrect == Spec => []NoLockLeft
<1>1. Inv => NoLockLeft
  BY DEF Inv
<1> QED
  BY <1>1, InvCorrect, PTL

=============================================================================
