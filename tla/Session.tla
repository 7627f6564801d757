------------------------------ MODULE Session ------------------------------
(***************************************************************************)
(* The main loop of the server (server/loop.c): the list of the connected  *)
(* clients with its pointers, the round in which their packets are worked  *)
(* off while some of them exit or die, the screen saver and the end of the *)
(* server.  The clients' fonts are those of module Fonts.                  *)
(*                                                                         *)
(* A packet that is read in part only waits in the buffer and changes      *)
(* nothing; the handlers of the packets that are not named here do not     *)
(* touch the state of this module.  The server is one process and has no   *)
(* timeouts: while a handler waits for the user or for a client to read,   *)
(* nobody else is served.                                                  *)
(***************************************************************************)
EXTENDS Fonts

CONSTANTS NoClient,   \* the NULL pointer
          MaxPackets  \* bound: how many packets one read() brings

ASSUME NoClientAssumption == NoClient \notin Client
ASSUME PacketAssumption == MaxPackets \in Nat \ {0}

VARIABLES
  head, next, prev,  \* glob_clients and the links of the clients
  glob_crfd,         \* the sockets that are open
  exited,            \* the clients with FLAG_EXITED
  phase,             \* where the main loop is
  rfd,               \* the sockets that select() found readable, still to be looked at
  cptr, follow,      \* cptr and next of event_client()
  inbuf,             \* how many packets are left in the buffer of cptr
  saveclient, issaving,
  told,              \* history: the event that saveclient was sent last
  waiting,           \* the handler of the last step has done its changes, and waits for the
                     \* user, or in a write() for a client whose socket is full
  is_terminating

list == <<head, next, prev, glob_crfd>>
round == <<rfd, cptr, follow, inbuf>>
saver == <<saveclient, issaving, told>>
vars == <<list, exited, phase, round, saver, waiting, is_terminating, fontvars>>

Pointer == Client \union {NoClient}

Init ==
  /\ FontInit
  /\ head = NoClient
  /\ next = [c \in Client |-> NoClient]
  /\ prev = [c \in Client |-> NoClient]
  /\ glob_crfd = {} /\ exited = {}
  /\ phase = "select"
  /\ rfd = {} /\ cptr = NoClient /\ follow = NoClient /\ inbuf = 0
  /\ saveclient = NoClient /\ issaving = FALSE /\ told = "off"
  /\ waiting = FALSE
  /\ is_terminating = FALSE

-----------------------------------------------------------------------------
(* The round.                                                              *)

\* get_eventmask(): any of the sockets may be readable.
Select ==
  /\ phase = "select" /\ phase' = "accept"
  /\ rfd' \in SUBSET glob_crfd
  /\ UNCHANGED <<list, exited, cptr, follow, inbuf, saver, waiting, is_terminating, fontvars>>

\* Mutant: the old head of the list is not linked back.
Accept_noBackLink(c) ==
  /\ phase = "accept"
  /\ c \notin glob_crfd
  /\ glob_crfd' = glob_crfd \union {c}
  /\ head' = c
  /\ next' = [next EXCEPT ![c] = head]
  /\ prev' = [prev EXCEPT ![c] = NoClient]
  /\ UNCHANGED <<exited, phase, round, saver, waiting, is_terminating, fontvars>>

\* event_connect(): the new client is put in front.
Accept(c) ==
  /\ phase = "accept"
  /\ c \notin glob_crfd
  /\ glob_crfd' = glob_crfd \union {c}
  /\ head' = c
  /\ next' = [next EXCEPT ![c] = head]
  /\ prev' = [x \in Client |-> IF x = c THEN NoClient ELSE IF x = head THEN c ELSE prev[x]]
  /\ UNCHANGED <<exited, phase, round, saver, waiting, is_terminating, fontvars>>

\* event_client() begins.
EnterClients ==
  /\ phase = "accept"
  /\ cptr' = head
  /\ phase' = IF head = NoClient THEN "tail" ELSE "clients"
  /\ UNCHANGED <<list, exited, rfd, follow, inbuf, saver, waiting, is_terminating, fontvars>>

\* The next client is kept, and the socket is read if it is readable; when the
\* read() fails the client is marked.
Read ==
  /\ phase = "clients" /\ phase' = "packets"
  /\ follow' = next[cptr]
  /\ rfd' = rfd \ {cptr}
  /\ \/ cptr \notin rfd /\ inbuf' = 0 /\ UNCHANGED exited
     \/ cptr \in rfd /\ inbuf' = 0 /\ exited' = exited \union {cptr}
     \/ cptr \in rfd /\ inbuf' \in 0 .. MaxPackets /\ UNCHANGED exited
  /\ UNCHANGED <<list, cptr, saver, waiting, is_terminating, fontvars>>

(* process_paket(): PAK_LOADFONT, PAK_UNLOADFONT, PAK_SSAVER, PAK_EXIT, a     *)
(* packet of an unknown type, which also drops the rest of the buffer, any    *)
(* other request that is answered, and any that is not.                       *)

\* The write() of the reply returns at once, or waits for the client to read.
Answer == waiting' \in BOOLEAN

FontPacket ==
  /\ (\E f \in Font : LoadFont(cptr, f)) \/ (\E h \in Handle : UnloadFont(cptr, h))
  /\ inbuf' = inbuf - 1
  /\ Answer
  /\ UNCHANGED <<exited, saver>>

\* Mutant: a client that sets its idle time anew is taken for a saver that rests.
SaverPacket_restart ==
  /\ saveclient \in {NoClient, cptr}
  /\ saveclient' = cptr
  /\ issaving' = FALSE
  /\ told' = IF saveclient = cptr THEN told ELSE "off"
  /\ inbuf' = inbuf - 1
  /\ Answer
  /\ UNCHANGED <<exited, fontvars>>

SaverPacket ==
  /\ saveclient \in {NoClient, cptr}
  /\ saveclient' = cptr
  /\ told' = IF saveclient = cptr THEN told ELSE "off"
  /\ inbuf' = inbuf - 1
  /\ Answer
  /\ UNCHANGED <<exited, issaving, fontvars>>

ExitPacket ==
  /\ exited' = exited \union {cptr}
  /\ inbuf' = inbuf - 1
  /\ UNCHANGED <<saver, waiting, fontvars>>

UnknownPacket ==
  /\ exited' = exited \union {cptr}
  /\ inbuf' = 0
  /\ UNCHANGED <<saver, waiting, fontvars>>

\* Among these is PAK_OPEN: client_open() without a position waits in get_rectangle()
\* until the user presses a button.
AnsweredPacket ==
  /\ inbuf' = inbuf - 1
  /\ Answer
  /\ UNCHANGED <<exited, saver, fontvars>>

SilentPacket ==
  /\ inbuf' = inbuf - 1
  /\ UNCHANGED <<exited, saver, waiting, fontvars>>

Packet ==
  /\ phase = "packets" /\ inbuf > 0
  /\ \/ FontPacket \/ SaverPacket \/ AnsweredPacket
     \/ ExitPacket \/ UnknownPacket \/ SilentPacket
  /\ UNCHANGED <<list, phase, rfd, cptr, follow, is_terminating>>


\* killClient(): the links; the client itself is freed.
Unlink(c) ==
  /\ head' = IF prev[c] = NoClient THEN next[c] ELSE head
  /\ next' = [x \in Client |-> IF x = c THEN NoClient
                               ELSE IF x = prev[c] THEN next[c] ELSE next[x]]
  /\ prev' = [x \in Client |-> IF x = c THEN NoClient
                               ELSE IF x = next[c] THEN prev[c] ELSE prev[x]]
  /\ glob_crfd' = glob_crfd \ {c}

\* Mutant: the saver is not forgotten.
ReleaseSaver_never(c) == UNCHANGED saver

\* killClient(): the saver.
ReleaseSaver(c) ==
  /\ saveclient' = IF saveclient = c THEN NoClient ELSE saveclient
  /\ told' = IF saveclient = c THEN "off" ELSE told
  /\ UNCHANGED issaving

\* Mutant: the next client is taken from the one that is freed.
NextClient_late ==
  /\ phase = "packets" /\ inbuf = 0
  /\ IF cptr \in exited
     THEN /\ Unlink(cptr) /\ KillFonts(cptr) /\ ReleaseSaver(cptr)
          /\ exited' = exited \ {cptr}
          /\ waiting' \in BOOLEAN
     ELSE UNCHANGED <<list, exited, saver, waiting, fontvars>>
  /\ cptr' = next'[cptr]
  /\ phase' = IF cptr' = NoClient THEN "tail" ELSE "clients"
  /\ UNCHANGED <<rfd, follow, inbuf, is_terminating>>

\* The end of the loop over the clients: killClient() if the client is marked.  Its
\* windows go, and the events of the focus that moves are written to other clients.
NextClient ==
  /\ phase = "packets" /\ inbuf = 0
  /\ IF cptr \in exited
     THEN /\ Unlink(cptr) /\ KillFonts(cptr) /\ ReleaseSaver(cptr)
          /\ exited' = exited \ {cptr}
          /\ waiting' \in BOOLEAN
     ELSE UNCHANGED <<list, exited, saver, waiting, fontvars>>
  /\ cptr' = follow /\ follow' = NoClient
  /\ phase' = IF follow = NoClient THEN "tail" ELSE "clients"
  /\ UNCHANGED <<rfd, inbuf, is_terminating>>

\* The menu entry "@exit": terminate(), the second time at once.
MenuExit ==
  /\ phase = "tail"
  /\ is_terminating' = TRUE
  /\ phase' = IF is_terminating THEN "exited" ELSE phase
  /\ UNCHANGED <<list, exited, round, saver, waiting, fontvars>>

\* The saver is told when the idle time is over, and when the user is back;
\* how long the user has been idle is not modelled.
SaverEvent ==
  \/ UNCHANGED saver
  \/ /\ saveclient # NoClient
     /\ issaving' = ~issaving
     /\ told' = IF issaving THEN "off" ELSE "on"
     /\ UNCHANGED saveclient

\* The end of the main loop.  The events of the mouse, the keys and the saver are
\* written to clients, and moving a window or choosing from the menu takes the user's time.
EndRound ==
  /\ phase = "tail"
  /\ SaverEvent
  /\ waiting' \in BOOLEAN
  /\ phase' = IF is_terminating /\ head = NoClient THEN "exited" ELSE "select"
  /\ UNCHANGED <<list, exited, round, is_terminating, fontvars>>

Loop == Select \/ EnterClients \/ Read \/ Packet \/ NextClient \/ EndRound

\* The user presses a button, or the client reads or dies.
WaitEnds ==
  /\ waiting /\ waiting' = FALSE
  /\ UNCHANGED <<list, exited, phase, round, saver, is_terminating, fontvars>>

Next ==
  \/ ~waiting /\ (Loop \/ MenuExit \/ \E c \in Client : Accept(c))
  \/ WaitEnds

Spec == Init /\ [][Next]_vars

\* The server runs on when no handler waits.  Nothing makes a wait end.
FairSpec == Spec /\ WF_vars(~waiting /\ Loop)

-----------------------------------------------------------------------------
(* Properties.                                                             *)

\* Following the links from glob_clients.
Walk == LET at[k \in 0 .. Cardinality(Client)] ==
              IF k = 0 THEN head
              ELSE IF at[k - 1] = NoClient THEN NoClient ELSE next[at[k - 1]]
        IN  at

\* The list is what event_connect() and killClient() should keep it: from
\* glob_clients the links lead to each client with an open socket and to no other,
\* and back again.  event_client() holds a client of the list, and the one behind it.
ListOK ==
  /\ {Walk[k] : k \in DOMAIN Walk} \ {NoClient} = glob_crfd
  /\ Walk[Cardinality(Client)] = NoClient
  /\ \A c \in glob_crfd : /\ prev[c] = NoClient <=> c = head
                          /\ prev[c] # NoClient => next[prev[c]] = c
  /\ {cptr, follow} \subseteq glob_crfd \union {NoClient}
  /\ phase = "packets" => follow = next[cptr]

\* Of a client that is gone nothing is left: no font, not the saver, no mark.
\* A client that connects next starts from nothing.
NothingLeft ==
  \A c \in Client \ glob_crfd :
    fontlist[c] = <<>> /\ saveclient # c /\ c \notin exited \union rfd

\* A saver that was told to start will be told to stop when the user is back.
SaverStopped == told = "on" => issaving /\ saveclient # NoClient

\* Every client that select() found readable is read in that round, whoever exits
\* or connects meanwhile.
EveryoneServed == phase = "tail" => rfd = {}

=============================================================================
