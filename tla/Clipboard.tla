----------------------------- MODULE Clipboard -----------------------------
(***************************************************************************)
(* The clipboard of the library (lib/clipboard.c): a file for each type of *)
(* clip that the processes lock with fcntl().  A step is a system call.    *)
(*                                                                         *)
(* The kernel's locks belong to a process and a range of bytes, and        *)
(* close() gives up all that the process has on the file.  dolock() leaves *)
(* the start of the range uninitialised and its end open; a start below 0  *)
(* is an error.  w_putselection() is a session of w_selopen(), at most one *)
(* w_selappend() and w_selclose().  A process writes one clip at a time.   *)
(***************************************************************************)
EXTENDS Integers, Sequences

CONSTANTS Process,   \* the applications
          Clip,      \* the types of clips
          Data,      \* what they append
          Last,      \* bytes are 0 .. Last: Last stands for all from there on
          MaxPieces, \* bound: how often a session appends
          NoClip,    \* no session
          Hole       \* bytes that were never written

ASSUME ClipAssumption == NoClip \notin Clip
ASSUME LastAssumption == Last \in Nat
ASSUME PieceAssumption == MaxPieces \in Nat

VARIABLES
  pc,       \* where each process is in the library
  clip,     \* the type it has called the library with
  session,  \* the clip that is open between w_selopen() and w_selclose()
  got,      \* what w_getselection() has read, its size at first
  lock,     \* the kernel's locks: by process, clip and byte
  exists,   \* the clips that have a file
  content,  \* the files
  sent,     \* history: what the application has appended in its session
  whole,    \* history: what the last session left that ended
  spoilt    \* history: a session has gone on without its lock

program == <<pc, clip, session, got>>
files == <<lock, exists, content>>
history == <<sent, whole, spoilt>>
vars == <<program, files, history>>

Byte == 0 .. Last

Writing(p, t) ==
  \/ pc[p] = "truncate" /\ clip[p] = t
  \/ session[p] = t /\ pc[p] # "closeW"
Reading(p, t) == pc[p] \in {"stat", "read", "unlockR"} /\ clip[p] = t

Init ==
  /\ pc = [p \in Process |-> "app"]
  /\ clip \in [Process -> Clip]
  /\ session = [p \in Process |-> NoClip]
  /\ got = [p \in Process |-> <<>>]
  /\ lock = [p \in Process |-> [t \in Clip |-> [b \in Byte |-> "none"]]]
  /\ exists = {}
  /\ content = [t \in Clip |-> <<>>]
  /\ sent = [p \in Process |-> <<>>]
  /\ whole = [t \in Clip |-> <<>>]
  /\ spoilt = [t \in Clip |-> FALSE]

-----------------------------------------------------------------------------
(* The system calls.                                                       *)

\* Mutant: the length of the lock is not 0.
LockRange_oneByte(s) == {s}

\* What dolock() locks.
LockRange(s) == {b \in Byte : s <= b}

\* A lock of this mode does not meet another process's.
Lockable(p, t, s, mode) ==
  \A q \in Process \ {p}, b \in LockRange(s) :
    lock[q][t][b] = "none" \/ (mode = "r" /\ lock[q][t][b] = "r")

Locked(p, t, s, mode) ==
  [lock EXCEPT ![p][t] = [b \in Byte |-> IF b \in LockRange(s) THEN mode ELSE @[b]]]

\* Mutant: the descriptor stays open.
Closed_never(p, t) == lock

\* close()
Closed(p, t) == [lock EXCEPT ![p][t] = [b \in Byte |-> "none"]]

Goto(p, l) == pc' = [pc EXCEPT ![p] = l]

-----------------------------------------------------------------------------
(* Writing.                                                                *)

\* Mutant: the clip is opened with O_TRUNC.
OpenWrite_truncate(p, t) ==
  /\ pc[p] = "app" /\ session[p] = NoClip
  /\ Goto(p, "lockW")
  /\ clip' = [clip EXCEPT ![p] = t]
  /\ exists' = exists \union {t}
  /\ content' = [content EXCEPT ![t] = <<>>]
  /\ UNCHANGED <<session, got, lock, history>>

\* w_selopen(): open(), which creates the file.
OpenWrite(p, t) ==
  /\ pc[p] = "app" /\ session[p] = NoClip
  /\ Goto(p, "lockW")
  /\ clip' = [clip EXCEPT ![p] = t]
  /\ exists' = exists \union {t}
  /\ UNCHANGED <<session, got, lock, content, history>>

LockWrite(p, s) ==
  /\ pc[p] = "lockW" /\ Lockable(p, clip[p], s, "w")
  /\ Goto(p, "truncate")
  /\ lock' = Locked(p, clip[p], s, "w")
  /\ UNCHANGED <<clip, session, got, exists, content, history>>

\* fcntl() fails: the start is below 0, a signal came, or the kernel sees that the
\* processes would wait for each other.  The descriptor is closed.
LockFails(p) ==
  /\ pc[p] \in {"lockW", "lockR"}
  /\ Goto(p, "app")
  /\ lock' = Closed(p, clip[p])
  /\ UNCHANGED <<clip, session, got, exists, content, history>>

\* ftruncate(): the session begins.
Truncate(p) ==
  /\ pc[p] = "truncate"
  /\ Goto(p, "app")
  /\ session' = [session EXCEPT ![p] = clip[p]]
  /\ content' = [content EXCEPT ![clip[p]] = <<>>]
  /\ sent' = [sent EXCEPT ![p] = <<>>]
  /\ spoilt' = [spoilt EXCEPT ![clip[p]] = \E q \in Process \ {p} : Writing(q, clip[p])]
  /\ UNCHANGED <<clip, got, lock, exists, whole>>

\* A file after d is written at an offset.
Written(file, offset, d) ==
  [i \in 1 .. IF offset + 1 > Len(file) THEN offset + 1 ELSE Len(file) |->
     IF i = offset + 1 THEN d ELSE IF i <= Len(file) THEN file[i] ELSE Hole]

\* w_selappend(), when the data are written.
SelAppend(p, d) ==
  /\ pc[p] = "app" /\ session[p] # NoClip /\ Len(sent[p]) < MaxPieces
  /\ content' = [content EXCEPT ![session[p]] = Written(@, Len(sent[p]), d)]
  /\ sent' = [sent EXCEPT ![p] = Append(@, d)]
  /\ UNCHANGED <<program, lock, exists, whole, spoilt>>

\* w_selclose(): the unlocking, which may fail or leave the bytes before s.
UnlockWrite(p) ==
  /\ pc[p] = "app" /\ session[p] # NoClip
  /\ Goto(p, "closeW")
  /\ clip' = [clip EXCEPT ![p] = session[p]]
  /\ \/ UNCHANGED lock
     \/ \E s \in Byte : lock' = Locked(p, session[p], s, "none")
  /\ whole' = [whole EXCEPT ![session[p]] = sent[p]]
  /\ UNCHANGED <<session, got, exists, content, sent, spoilt>>

CloseWrite(p) ==
  /\ pc[p] = "closeW"
  /\ Goto(p, "app")
  /\ session' = [session EXCEPT ![p] = NoClip]
  /\ lock' = Closed(p, clip[p])
  /\ sent' = [sent EXCEPT ![p] = <<>>]
  /\ UNCHANGED <<clip, got, exists, content, whole, spoilt>>

-----------------------------------------------------------------------------
(* Reading: w_getselection().                                              *)

\* A process that reads the clip it writes loses its lock, at the latest with close().
OpenRead(p, t) ==
  /\ pc[p] = "app" /\ t \in exists
  /\ Goto(p, "lockR")
  /\ clip' = [clip EXCEPT ![p] = t]
  /\ spoilt' = [spoilt EXCEPT ![t] = @ \/ session[p] = t]
  /\ UNCHANGED <<session, got, files, sent, whole>>

LockRead(p, s) ==
  /\ pc[p] = "lockR" /\ Lockable(p, clip[p], s, "r")
  /\ Goto(p, "stat")
  /\ lock' = Locked(p, clip[p], s, "r")
  /\ UNCHANGED <<clip, session, got, exists, content, history>>

\* stat(), which gives the size of what is read.
Stat(p) ==
  /\ pc[p] = "stat"
  /\ Goto(p, "read")
  /\ got' = [got EXCEPT ![p] = [i \in 1 .. Len(content[clip[p]]) |-> Hole]]
  /\ UNCHANGED <<clip, session, files, history>>

ReadData(p) ==
  /\ pc[p] = "read"
  /\ Goto(p, "unlockR")
  /\ got' = [got EXCEPT ![p] =
       LET file == content[clip[p]]
       IN  SubSeq(file, 1, IF Len(@) < Len(file) THEN Len(@) ELSE Len(file))]
  /\ UNCHANGED <<clip, session, files, history>>

UnlockRead(p) ==
  /\ pc[p] = "unlockR"
  /\ Goto(p, "closeR")
  /\ \/ UNCHANGED lock
     \/ \E s \in Byte : lock' = Locked(p, clip[p], s, "none")
  /\ UNCHANGED <<clip, session, got, exists, content, history>>

CloseRead(p) ==
  /\ pc[p] = "closeR"
  /\ Goto(p, "app")
  /\ got' = [got EXCEPT ![p] = <<>>]
  /\ lock' = Closed(p, clip[p])
  /\ UNCHANGED <<clip, session, exists, content, history>>

-----------------------------------------------------------------------------
\* A process is killed at any point: the kernel closes its descriptors.  Its session
\* ends with what was written.  Another process may take its place.
Die(p) ==
  /\ Goto(p, "app")
  /\ session' = [session EXCEPT ![p] = NoClip]
  /\ got' = [got EXCEPT ![p] = <<>>]
  /\ lock' = [lock EXCEPT ![p] = [t \in Clip |-> [b \in Byte |-> "none"]]]
  /\ whole' = [t \in Clip |-> IF session[p] = t /\ pc[p] # "closeW"
                               THEN sent[p] ELSE whole[t]]
  /\ sent' = [sent EXCEPT ![p] = <<>>]
  /\ UNCHANGED <<clip, exists, content, spoilt>>

Next ==
  \E p \in Process :
    \/ \E t \in Clip : OpenWrite(p, t) \/ OpenRead(p, t)
    \/ \E s \in Byte : LockWrite(p, s) \/ LockRead(p, s)
    \/ LockFails(p)
    \/ Truncate(p)
    \/ \E d \in Data : SelAppend(p, d)
    \/ UnlockWrite(p)
    \/ CloseWrite(p)
    \/ Stat(p)
    \/ ReadData(p)
    \/ UnlockRead(p)
    \/ CloseRead(p)
    \/ Die(p)

Spec == Init /\ [][Next]_vars

-----------------------------------------------------------------------------
(* Properties.                                                             *)

TypeOK ==
  /\ pc \in [Process -> {"app", "lockW", "truncate", "closeW",
                         "lockR", "stat", "read", "unlockR", "closeR"}]
  /\ clip \in [Process -> Clip]
  /\ session \in [Process -> Clip \union {NoClip}]
  /\ got \in [Process -> Seq(Data \union {Hole})]
  /\ lock \in [Process -> [Clip -> [Byte -> {"none", "r", "w"}]]]
  /\ exists \subseteq Clip
  /\ content \in [Clip -> Seq(Data \union {Hole})]
  /\ sent \in [Process -> Seq(Data)]
  /\ whole \in [Clip -> Seq(Data)]
  /\ spoilt \in [Clip -> BOOLEAN]

\* While a process writes a clip nobody else writes or reads it, wherever the
\* uninitialised ranges of the locks begin; except when a session has given up its
\* lock, by reading its own clip.
Exclusion ==
  \A p, q \in Process, t \in Clip :
    p # q /\ Writing(p, t) /\ ~spoilt[t] => ~Writing(q, t) /\ ~Reading(q, t)

\* What w_getselection() returns is all that the last session appended and nothing
\* else, whoever writes, waits or is killed meanwhile; with the same exception.
ReadWhole ==
  \A p \in Process :
    pc[p] = "unlockR" /\ ~spoilt[clip[p]] => got[p] = whole[clip[p]]

\* Nobody is locked out by a process that is done, failed or was killed: a lock on
\* any byte is that of a session or of a call that is under way.
NoLockLeft ==
  \A p \in Process, t \in Clip, b \in Byte :
    lock[p][t][b] # "none" => session[p] = t \/ (pc[p] # "app" /\ clip[p] = t)
=============================================================================
