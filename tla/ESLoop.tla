------------------------------- MODULE ESLoop -------------------------------
(***************************************************************************)
(* The main loop of the server (ES.c) and the clients it serves (the TCP   *)
(* commands of client/user.c): one thread that looks at the keyboard, at   *)
(* one datagram and at one connection in turn, and reads and writes        *)
(* without a time limit, except for the pieces of a CRE.                   *)
(*                                                                         *)
(* A message is a number of pieces, the portions TCP delivers it in.  A    *)
(* read takes all the pieces that are there.  What the requests say is     *)
(* left to ESServer; a short request and its answer are one piece, a CRE   *)
(* is CreatePieces long and the answers to SED and LST ShowPieces.  A      *)
(* client has one connection at a time, and connects again only when the   *)
(* server is done with the last.                                           *)
(***************************************************************************)
EXTENDS Integers, Sequences, SequencesExt

CONSTANTS
    Clients,        \* those that use TCP
    Silent,         \* the Clients that may stop in the middle: send nothing, read nothing
    Senders,        \* those that use UDP
    NoClient,       \* no connection
    CreatePieces,   \* the pieces of a CRE
    ShowPieces,     \* the pieces of the answer to SED or LST
    NewlineAfter,   \* the pieces of a description that end in a newline
    Window,         \* bound: the pieces of an answer under way on a connection
    Backlog         \* the connections that wait to be accepted: 5, from listen

ASSUME LoopAssumption ==
    /\ Silent \subseteq Clients /\ NoClient \notin Clients
    /\ CreatePieces \in Nat \ {0} /\ ShowPieces \in Nat \ {0}
    /\ NewlineAfter \subseteq 1..(ShowPieces - 1)
    /\ Window \in 1..(ShowPieces - 1)     \* the answers are larger than the socket buffers
    /\ Backlog \in Nat \ {0}
    /\ "_STOP" \notin Senders

Kinds == {"CRE", "SED", "LST", "short"}    \* "short": CPS, CLS and RID
Lines == {"", "other", "_STOP"}

VARIABLES
    at,         \* where the server is in its loop
    ready,      \* testfds: what select reported
    conn,       \* client_fd: the client that is served
    toSend,     \* the pieces of the answer that are not written yet
    keyboard,   \* the line that waits at stdin
    datagrams,  \* the datagrams that wait, each known by its sender
    backlog,    \* the connections that wait to be accepted
    link,       \* each client's connection: "none", "up", "closed" by the server,
                \* "left" by the client, "reset", or "broken": left and written to
    kind,       \* the command each client has connected for
    unsent,     \* the pieces of its request that it has not written yet
    inbox,      \* the pieces of it that wait to be read by the server
    outbox,     \* the pieces of the answer that wait to be read by the client
    received    \* the pieces of the answer it has read

serverVars == <<at, ready, conn, toSend>>
netVars == <<kind, unsent, inbox, outbox, received>>
vars == <<serverVars, keyboard, datagrams, backlog, link, netVars>>

Init ==
    /\ at = "select" /\ ready = {} /\ conn = NoClient /\ toSend = 0
    /\ keyboard = "" /\ datagrams = <<>> /\ backlog = <<>>
    /\ link = [c \in Clients |-> "none"]
    /\ kind = [c \in Clients |-> "short"]
    /\ unsent = [c \in Clients |-> 0]
    /\ inbox = [c \in Clients |-> 0]
    /\ outbox = [c \in Clients |-> 0]
    /\ received = [c \in Clients |-> 0]

Running == at \notin {"stopped", "killed"}

RequestPieces(k) == IF k = "CRE" THEN CreatePieces ELSE 1

\* Slip: one more portion is announced than there is.
AnswerPieces_oneMore(k) == IF k \in {"SED", "LST"} THEN ShowPieces + 1 ELSE 1

AnswerPieces(k) == IF k \in {"SED", "LST"} THEN ShowPieces ELSE 1

-----------------------------------------------------------------------------
(* The loop *)

\* exit or a signal: the kernel closes what the process had open.
End(how) ==
    /\ at' = how
    /\ ready' = {} /\ conn' = NoClient /\ toSend' = 0
    /\ backlog' = <<>>
    /\ link' = [c \in Clients |-> IF link[c] = "up" THEN "closed"
                                  ELSE IF link[c] = "closed" THEN "closed" ELSE "none"]
    /\ inbox' = [c \in Clients |-> 0]
    /\ UNCHANGED <<kind, unsent, outbox, received>>

Reported == {f \in {"stdin", "udp", "tcp"} :
               \/ f = "stdin" /\ keyboard # ""
               \/ f = "udp" /\ datagrams # <<>>
               \/ f = "tcp" /\ backlog # <<>>}

\* select returns; after ten seconds without anything it is simply called again.
Select ==
    /\ at = "select"
    /\ Reported # {}
    /\ ready' = Reported
    /\ at' = "stdin"
    /\ UNCHANGED <<conn, toSend, keyboard, datagrams, backlog, link, netVars>>

ReadKeyboard ==
    /\ at = "stdin"
    /\ keyboard' = IF "stdin" \in ready THEN "" ELSE keyboard
    /\ \/ /\ "stdin" \in ready /\ keyboard = "_STOP"
          /\ End("stopped")
       \/ /\ ~("stdin" \in ready /\ keyboard = "_STOP")
          /\ at' = "udp"
          /\ UNCHANGED <<ready, conn, toSend, backlog, link, netVars>>
    /\ UNCHANGED datagrams

\* One datagram is read, handled and answered.
ReadDatagram ==
    /\ at = "udp"
    /\ \/ /\ "udp" \in ready
          /\ datagrams' = Tail(datagrams)
          /\ IF Head(datagrams) = "_STOP"
             THEN End("stopped")
             ELSE at' = "tcp" /\ UNCHANGED <<ready, conn, toSend, backlog, link, netVars>>
       \/ /\ "udp" \notin ready
          /\ at' = "tcp"
          /\ UNCHANGED <<ready, conn, toSend, datagrams, backlog, link, netVars>>
    /\ UNCHANGED keyboard

\* Slip: "else if": a connection is looked at when there was no datagram.
Accept_elseIf ==
    /\ at = "tcp"
    /\ IF "tcp" \in ready /\ "udp" \notin ready
       THEN conn' = Head(backlog) /\ backlog' = Tail(backlog) /\ at' = "first"
       ELSE at' = "select" /\ UNCHANGED <<conn, backlog>>
    /\ ready' = {}
    /\ UNCHANGED <<toSend, keyboard, datagrams, link, netVars>>

Accept ==
    /\ at = "tcp"
    /\ IF "tcp" \in ready
       THEN conn' = Head(backlog) /\ backlog' = Tail(backlog) /\ at' = "first"
       ELSE at' = "select" /\ UNCHANGED <<conn, backlog>>
    /\ ready' = {}
    /\ UNCHANGED <<toSend, keyboard, datagrams, link, netVars>>

-----------------------------------------------------------------------------
(* One connection *)

CloseConnection ==
    /\ at' = "select"
    /\ conn' = NoClient
    /\ toSend' = 0
    /\ link' = [link EXCEPT ![conn] = IF @ = "up" THEN "closed" ELSE "none"]
    /\ inbox' = [inbox EXCEPT ![conn] = 0]

\* Slip: SED is taken for an unknown command, and the connection is left open.
ReadFirst_forgets ==
    /\ at = "first"
    /\ inbox[conn] > 0
    /\ inbox' = [inbox EXCEPT ![conn] = 0]
    /\ CASE kind[conn] = "CRE" -> at' = "more" /\ UNCHANGED <<conn, toSend>>
         [] kind[conn] = "SED" -> at' = "select" /\ conn' = NoClient /\ UNCHANGED toSend
         [] OTHER -> at' = "answer" /\ toSend' = AnswerPieces(kind[conn]) /\ UNCHANGED conn
    /\ UNCHANGED <<ready, keyboard, datagrams, backlog, link,
                   kind, unsent, outbox, received>>

\* The first read waits for as long as nothing comes.
ReadFirst ==
    /\ at = "first"
    /\ inbox[conn] > 0
    /\ inbox' = [inbox EXCEPT ![conn] = 0]
    /\ IF kind[conn] = "CRE"
       THEN at' = "more" /\ UNCHANGED toSend
       ELSE at' = "answer" /\ toSend' = AnswerPieces(kind[conn])
    /\ UNCHANGED <<ready, conn, keyboard, datagrams, backlog, link,
                   kind, unsent, outbox, received>>

\* read returns 0, or -1: nothing is answered.
ReadNothing ==
    /\ at = "first"
    /\ inbox[conn] = 0
    /\ link[conn] # "up"
    /\ CloseConnection
    /\ UNCHANGED <<ready, keyboard, datagrams, backlog, kind, unsent, outbox, received>>

ReadMore ==
    /\ at = "more"
    /\ inbox[conn] > 0
    /\ inbox' = [inbox EXCEPT ![conn] = 0]
    /\ UNCHANGED <<serverVars, keyboard, datagrams, backlog, link,
                   kind, unsent, outbox, received>>

\* Slip: SO_RCVTIMEO is not set; only the end of the connection ends the loop.
NoMore_neverTimesOut ==
    /\ at = "more"
    /\ inbox[conn] = 0
    /\ link[conn] # "up"
    /\ at' = "answer"
    /\ toSend' = AnswerPieces("CRE")
    /\ UNCHANGED <<ready, conn, keyboard, datagrams, backlog, link, netVars>>

\* A second goes by without a piece, which is how every CRE ends: the client keeps
\* the connection open for the answer.
NoMore ==
    /\ at = "more"
    /\ inbox[conn] = 0
    /\ at' = "answer"
    /\ toSend' = AnswerPieces("CRE")
    /\ UNCHANGED <<ready, conn, keyboard, datagrams, backlog, link, netVars>>

\* A piece of the answer is written when there is room for it.  The client's side
\* answers a piece that comes after it has closed with a reset, sooner or later.
Write ==
    /\ at = "answer" /\ toSend > 0
    /\ link[conn] \in {"up", "left"}
    /\ outbox[conn] < Window
    /\ toSend' = toSend - 1
    /\ \/ /\ link[conn] = "up"
          /\ outbox' = [outbox EXCEPT ![conn] = @ + 1]
          /\ UNCHANGED link
       \/ /\ link[conn] = "left"
          /\ link' \in {link, [link EXCEPT ![conn] = "broken"]}
          /\ UNCHANGED outbox
    /\ UNCHANGED <<at, ready, conn, keyboard, datagrams, backlog,
                   kind, unsent, inbox, received>>

\* write to a connection that was reset fails, and the handler gives up.
WriteFails ==
    /\ at = "answer" /\ toSend > 0
    /\ link[conn] = "reset"
    /\ CloseConnection
    /\ UNCHANGED <<ready, keyboard, datagrams, backlog, kind, unsent, outbox, received>>

\* write to a connection that was closed and then reset raises SIGPIPE, which is
\* neither caught nor ignored.
WriteKills ==
    /\ at = "answer" /\ toSend > 0
    /\ link[conn] = "broken"
    /\ End("killed")
    /\ UNCHANGED <<keyboard, datagrams>>

Finish ==
    /\ at = "answer" /\ toSend = 0
    /\ CloseConnection
    /\ UNCHANGED <<ready, keyboard, datagrams, backlog, kind, unsent, outbox, received>>

Server ==
    \/ Select \/ ReadKeyboard \/ ReadDatagram \/ Accept
    \/ ReadFirst \/ ReadNothing \/ ReadMore \/ NoMore
    \/ Write \/ WriteFails \/ WriteKills \/ Finish

-----------------------------------------------------------------------------
(* The clients *)

Type(line) ==
    /\ Running
    /\ keyboard = ""
    /\ keyboard' = line
    /\ UNCHANGED <<serverVars, datagrams, backlog, link, netVars>>

SendDatagram(d) ==
    /\ Running
    /\ ~Contains(datagrams, d)
    /\ datagrams' = Append(datagrams, d)
    /\ UNCHANGED <<serverVars, keyboard, backlog, link, netVars>>

\* connect returns as soon as the kernel has a place in the backlog.
Connect(c, k) ==
    /\ Running
    /\ link[c] = "none"
    /\ Len(backlog) < Backlog
    /\ backlog' = Append(backlog, c)
    /\ link' = [link EXCEPT ![c] = "up"]
    /\ kind' = [kind EXCEPT ![c] = k]
    /\ unsent' = [unsent EXCEPT ![c] = RequestPieces(k)]
    /\ inbox' = [inbox EXCEPT ![c] = 0]
    /\ outbox' = [outbox EXCEPT ![c] = 0]
    /\ received' = [received EXCEPT ![c] = 0]
    /\ UNCHANGED <<serverVars, keyboard, datagrams>>

SendPiece(c) ==
    /\ link[c] = "up"
    /\ unsent[c] > 0
    /\ unsent' = [unsent EXCEPT ![c] = @ - 1]
    /\ inbox' = [inbox EXCEPT ![c] = @ + 1]
    /\ UNCHANGED <<serverVars, keyboard, datagrams, backlog, link, kind, outbox, received>>

\* The client closes its socket.
Leave(c) ==
    link' = [link EXCEPT ![c] =
        IF @ = "closed" THEN "none" ELSE IF outbox'[c] > 0 THEN "reset" ELSE "left"]

\* Slip: one read is taken to return the whole answer.
Ends_first(c, n) == TRUE

\* The answer to SED is taken to end where a portion that was read ends in a
\* newline, that to LST at its newline, when that is found.
Ends(c, n) ==
    \/ received[c] + n = AnswerPieces(kind[c])
    \/ kind[c] = "SED" /\ received[c] + n \in NewlineAfter

\* The newline of LST is skipped with the blanks when it comes along with the last
\* event, and then the client reads on until the server closes.
ReadsOn(c, n) == ~Ends(c, n) \/ kind[c] = "LST"

\* The client has written its request and reads what there is of the answer.
ReadAnswer(c) ==
    /\ link[c] \in {"up", "closed"}
    /\ unsent[c] = 0
    /\ \E n \in 1..outbox[c] :
        /\ outbox' = [outbox EXCEPT ![c] = @ - n]
        /\ received' = [received EXCEPT ![c] = @ + n]
        /\ \/ Ends(c, n) /\ Leave(c)
           \/ ReadsOn(c, n) /\ UNCHANGED link
    /\ UNCHANGED <<serverVars, keyboard, datagrams, backlog, kind, unsent, inbox>>

\* read returns 0 or -1, or write fails: the client closes without (all of) an answer.
ReadEnd(c) ==
    /\ link[c] = "closed"
    /\ outbox[c] = 0 \/ unsent[c] > 0
    /\ Leave(c)
    /\ UNCHANGED <<serverVars, keyboard, datagrams, backlog, netVars>>

\* A client that does not go on may be ended.
HangUp(c) ==
    /\ c \in Silent
    /\ link[c] = "up"
    /\ UNCHANGED <<serverVars, keyboard, datagrams, backlog, netVars>>
    /\ Leave(c)

ClientWorks(c) == SendPiece(c) \/ ReadAnswer(c) \/ ReadEnd(c)

Next ==
    \/ Server
    \/ \E line \in {"other", "_STOP"} : Type(line)
    \/ \E d \in Senders \cup {"_STOP"} : SendDatagram(d)
    \/ \E c \in Clients :
          \/ \E k \in Kinds : Connect(c, k)
          \/ ClientWorks(c)
          \/ HangUp(c)

\* The server goes on for as long as it can, and so does a client that is not
\* silent, once it has connected.
Spec ==
    /\ Init /\ [][Next]_vars
    /\ WF_vars(Server)
    /\ \A c \in Clients \ Silent : WF_vars(ClientWorks(c))

-----------------------------------------------------------------------------
(* Properties *)

\* Every variable has its shape.
TypeOK ==
    /\ at \in {"select", "stdin", "udp", "tcp", "first", "more", "answer", "stopped", "killed"}
    /\ ready \subseteq {"stdin", "udp", "tcp"}
    /\ conn \in Clients \cup {NoClient}
    /\ toSend \in 0..ShowPieces
    /\ keyboard \in Lines
    /\ \A i \in 1..Len(datagrams) : datagrams[i] \in Senders \cup {"_STOP"}
    /\ Len(backlog) <= Backlog
    /\ link \in [Clients -> {"none", "up", "closed", "left", "reset", "broken"}]
    /\ kind \in [Clients -> Kinds]
    /\ \A c \in Clients :
          /\ unsent[c] \in 0..CreatePieces /\ inbox[c] \in 0..CreatePieces
          /\ outbox[c] \in 0..Window /\ received[c] \in 0..ShowPieces

\* The server waits in the first read of a client that says nothing, or in a write to
\* a client that does not read.
Stuck == conn \in Silent /\ (at = "first" \/ (at = "answer" /\ outbox[conn] = Window))

\* Server and client never wait for each other: a client that has written all of
\* its request and has nothing to read is one whose request waits to be read, in
\* the backlog or by the server, or has been read and is about to be answered.
NoMutualWait ==
    \A c \in Clients : link[c] = "up" /\ unsent[c] = 0 /\ inbox[c] = 0 =>
        conn = c /\ at \in {"more", "answer"}

\* Every client that has connected is done in the end, whatever the others do and
\* however many datagrams come, unless the server is stuck for good.
EveryClientReturns ==
    []<>~Stuck => \A c \in Clients \ Silent :
        link[c] \in {"up", "closed"} ~> link[c] \notin {"up", "closed"}

\* No datagram waits for ever, unless the server is stuck for good.
EveryDatagramRead ==
    []<>~Stuck => \A d \in Senders :
        Contains(datagrams, d) ~> ~(Contains(datagrams, d) /\ Running)

\* _STOP, typed or sent, is obeyed in the end, unless the server is stuck for good.
StopObeyed ==
    []<>~Stuck => (keyboard = "_STOP" \/ Contains(datagrams, "_STOP") ~> ~Running)

\* A client that closes before the server does has read the whole answer, except
\* for one that shows an event and came to a newline between two portions.
ShownToTheEnd ==
    \A c \in Clients \ Silent :
        link[c] \in {"left", "reset", "broken"} =>
            \/ received[c] = AnswerPieces(kind[c])
            \/ kind[c] = "SED" /\ received[c] \in NewlineAfter

\* The server is killed by the client that it answers and no other, and only if that
\* client was ended by force or took a newline of the description for the end.
KilledForAReason ==
    [][at' = "killed" /\ at # "killed" =>
         /\ conn \in Clients
         /\ \/ conn \in Silent
            \/ kind[conn] = "SED" /\ received[conn] \in NewlineAfter]_vars

-----------------------------------------------------------------------------
(* What the program says of itself, and the code does otherwise *)

\* tcp_handlers.c:645 reports "[TCP] SHOW: Error sending data" when a write fails,
\* and returns: the server survives a client that leaves in the middle.
ServerSurvives == at # "killed"
=============================================================================
