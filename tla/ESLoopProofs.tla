---------------------------- MODULE ESLoopProofs ----------------------------
(***************************************************************************)
(* Proofs about ESLoop, for any numbers of clients, senders and pieces and *)
(* any window and backlog.  The inductive invariant says where a client    *)
(* whose connection is open is - in the backlog or served - and how much   *)
(* of its request and of its answer is where.                              *)
(***************************************************************************)
EXTENDS ESLoop, TLAPS

Waits(c) == \E i \in 1..Len(backlog) : backlog[i] = c

Shapes ==
    /\ at \in {"select", "stdin", "udp", "tcp", "first", "more", "answer", "stopped", "killed"}
    /\ ready \subseteq {"stdin", "udp", "tcp"}
    /\ conn \in Clients \cup {NoClient}
    /\ toSend \in 0..ShowPieces
    /\ keyboard \in Lines
    /\ datagrams \in Seq(Senders \cup {"_STOP"})
    /\ backlog \in Seq(Clients)
    /\ link \in [Clients -> {"none", "up", "closed", "left", "reset", "broken"}]
    /\ kind \in [Clients -> Kinds]
    /\ unsent \in [Clients -> Nat] /\ inbox \in [Clients -> Nat]
    /\ outbox \in [Clients -> Nat] /\ received \in [Clients -> Nat]

\* An open connection is in the backlog, once, or is being served.
Places ==
    /\ conn # NoClient <=> at \in {"first", "more", "answer"}
    /\ Len(backlog) <= Backlog
    /\ \A i, j \in 1..Len(backlog) : backlog[i] = backlog[j] => i = j
    /\ \A i \in 1..Len(backlog) : backlog[i] # conn
    /\ \A c \in Clients : link[c] = "up" => Waits(c) \/ conn = c
    /\ \A c \in Clients : Waits(c) \/ conn = c => link[c] \notin {"none", "closed"}
    /\ "tcp" \in ready => backlog # <<>>
    /\ at \in {"stdin", "udp"} /\ "udp" \in ready => datagrams # <<>>

\* Nothing of a request is lost before the server reads it, and nothing is
\* answered before.
Amount(c) ==
    /\ unsent[c] + inbox[c] <= RequestPieces(kind[c])
    /\ received[c] + outbox[c] <= AnswerPieces(kind[c])
    /\ outbox[c] <= Window
    /\ Waits(c) \/ (conn = c /\ at \in {"first", "more"}) => received[c] = 0 /\ outbox[c] = 0
    /\ Waits(c) \/ (conn = c /\ at = "first") =>
          (link[c] = "up" => unsent[c] + inbox[c] = RequestPieces(kind[c]))
    /\ conn = c /\ at = "answer" =>
          received[c] + outbox[c] + toSend <= AnswerPieces(kind[c])

Amounts == \A c \in Clients : Amount(c)

LoopInv == Shapes /\ Places /\ Amounts

-----------------------------------------------------------------------------
(* What the invariant says of one client and of the one that is served *)

LEMMA PiecesAre ==
    \A k \in Kinds : /\ RequestPieces(k) \in 1..CreatePieces
                     /\ AnswerPieces(k) \in 1..ShowPieces
                     /\ AnswerPieces("CRE") = 1
BY LoopAssumption DEF Kinds, RequestPieces, AnswerPieces

LEMMA OfClient ==
    ASSUME LoopInv, NEW c \in Clients
    PROVE  /\ link[c] \in {"none", "up", "closed", "left", "reset", "broken"}
           /\ kind[c] \in Kinds
           /\ unsent[c] \in Nat /\ inbox[c] \in Nat
           /\ outbox[c] \in Nat /\ received[c] \in Nat
           /\ RequestPieces(kind[c]) \in Nat \ {0}
           /\ AnswerPieces(kind[c]) \in Nat \ {0}
           /\ Amount(c)
<1>1. kind[c] \in Kinds
    BY DEF LoopInv, Shapes
<1>2. /\ RequestPieces(kind[c]) \in Nat \ {0} /\ AnswerPieces(kind[c]) \in Nat \ {0}
    BY <1>1, PiecesAre, LoopAssumption
<1>3. Amount(c)
    BY DEF LoopInv, Amounts
<1> QED  BY <1>1, <1>2, <1>3 DEF LoopInv, Shapes

LEMMA Served ==
    ASSUME LoopInv, at \in {"first", "more", "answer"}
    PROVE  /\ conn \in Clients
           /\ ~Waits(conn)
           /\ link[conn] \notin {"none", "closed"}
BY DEF LoopInv, Shapes, Places, Waits

\* Nothing that Places is about changes.
LEMMA PlacesStay ==
    ASSUME Places,
           conn' = conn, backlog' = backlog, ready' = ready, datagrams' = datagrams,
           at' = at \/ {at, at'} \subseteq {"first", "more", "answer"},
           \A c \in Clients :
               \/ link'[c] = link[c]
               \/ link[c] \in {"up", "left"} /\ link'[c] \in {"left", "reset", "broken"}
               \/ link[c] = "closed" /\ link'[c] = "none"
    PROVE  Places'
<1>1. \A c : Waits(c)' <=> Waits(c)
    BY DEF Waits
<1>2. ASSUME NEW c \in Clients
      PROVE  /\ link'[c] = "up" => link[c] = "up"
             /\ link'[c] \in {"none", "closed"} => link[c] \in {"none", "closed"}
    OBVIOUS
<1> QED  BY <1>1, <1>2 DEF Places

-----------------------------------------------------------------------------
(* The steps of the server *)

LEMMA SelectKeeps == ASSUME LoopInv, Select PROVE LoopInv'
<1> USE DEF LoopInv
<1>1. Shapes'
    BY DEF Shapes, Select, Reported, netVars
<1>2. Places'
    BY DEF Shapes, Places, Waits, Select, Reported
<1>3. Amounts'
    BY DEF Shapes, Places, Amounts, Amount, Waits, Select, netVars
<1> QED  BY <1>1, <1>2, <1>3

\* However the process ends, every connection is closed.
LEMMA EndKeeps ==
    ASSUME LoopInv, NEW how \in {"stopped", "killed"}, End(how),
           keyboard' \in Lines, datagrams' \in Seq(Senders \cup {"_STOP"})
    PROVE  LoopInv'
<1>1. /\ at' = how /\ ready' = {} /\ conn' = NoClient /\ toSend' = 0 /\ backlog' = <<>>
      /\ kind' = kind /\ unsent' = unsent /\ outbox' = outbox /\ received' = received
      /\ inbox' = [c \in Clients |-> 0]
      /\ link' \in [Clients -> {"none", "closed"}]
    BY DEF End
<1>2. \A c : ~Waits(c)'
    BY <1>1 DEF Waits
<1>3. Shapes'
    <2>1. /\ link' \in [Clients -> {"none", "up", "closed", "left", "reset", "broken"}]
          /\ inbox' \in [Clients -> Nat]
        BY <1>1
    <2>2. backlog' \in Seq(Clients) /\ 0 \in 0..ShowPieces
        BY <1>1, LoopAssumption
    <2> QED  BY <1>1, <2>1, <2>2 DEF LoopInv, Shapes
<1>4. Places'
    BY <1>1, <1>2, LoopAssumption DEF Places
<1>5. ASSUME NEW c \in Clients
      PROVE  Amount(c)'
    BY <1>1, <1>2, OfClient, LoopAssumption DEF Amount
<1> QED  BY <1>3, <1>4, <1>5 DEF LoopInv, Amounts

\* The server closes the connection it serves.
LEMMA CloseKeeps ==
    ASSUME LoopInv, at \in {"first", "answer"}, CloseConnection,
           UNCHANGED <<ready, keyboard, datagrams, backlog, kind, unsent, outbox, received>>
    PROVE  LoopInv'
<1>1. /\ conn \in Clients /\ ~Waits(conn) /\ link[conn] \notin {"none", "closed"}
    BY Served
<1>2. /\ at' = "select" /\ conn' = NoClient /\ toSend' = 0
      /\ link' = [link EXCEPT ![conn] = IF @ = "up" THEN "closed" ELSE "none"]
      /\ inbox' = [inbox EXCEPT ![conn] = 0]
    BY DEF CloseConnection
<1>3. link \in [Clients -> {"none", "up", "closed", "left", "reset", "broken"}]
      /\ inbox \in [Clients -> Nat]
    BY DEF LoopInv, Shapes
<1>4. /\ link' \in [Clients -> {"none", "up", "closed", "left", "reset", "broken"}]
      /\ inbox' \in [Clients -> Nat]
      /\ link'[conn] \in {"closed", "none"}
      /\ \A c \in Clients \ {conn} : link'[c] = link[c] /\ inbox'[c] = inbox[c]
      /\ inbox'[conn] = 0
    BY <1>1, <1>2, <1>3
<1>5. \A c : Waits(c)' <=> Waits(c)
    BY DEF Waits
<1>6. Shapes'
    BY <1>2, <1>4, LoopAssumption DEF LoopInv, Shapes
<1>7. Places'
    <2>1. \A i \in 1..Len(backlog) : backlog[i] # NoClient
        <3>1. backlog \in Seq(Clients)
            BY DEF LoopInv, Shapes
        <3> QED  BY <3>1, LoopAssumption
    <2> QED  BY <1>1, <1>2, <1>4, <1>5, <2>1, LoopAssumption DEF LoopInv, Places
<1>8. ASSUME NEW c \in Clients
      PROVE  Amount(c)'
    BY <1>1, <1>2, <1>4, <1>5, OfClient, LoopAssumption DEF Amount
<1> QED  BY <1>6, <1>7, <1>8 DEF LoopInv, Amounts

LEMMA ReadKeyboardKeeps == ASSUME LoopInv, ReadKeyboard PROVE LoopInv'
<1>1. keyboard' \in Lines /\ datagrams' = datagrams /\ at = "stdin"
    BY DEF ReadKeyboard, LoopInv, Shapes, Lines
<1>2. CASE End("stopped")
    BY <1>1, <1>2, EndKeeps DEF LoopInv, Shapes
<1>3. CASE at' = "udp" /\ UNCHANGED <<ready, conn, toSend, backlog, link, netVars>>
    <2>1. \A c : Waits(c)' <=> Waits(c)
        BY <1>3 DEF Waits
    <2>2. Shapes'
        BY <1>1, <1>3 DEF LoopInv, Shapes, netVars
    <2>3. Places'
        BY <1>1, <1>3, <2>1 DEF LoopInv, Places
    <2>4. Amounts'
        BY <1>1, <1>3, <2>1 DEF LoopInv, Places, Amounts, Amount, netVars
    <2> QED  BY <2>2, <2>3, <2>4 DEF LoopInv
<1> QED  BY <1>2, <1>3 DEF ReadKeyboard

LEMMA ReadDatagramKeeps == ASSUME LoopInv, ReadDatagram PROVE LoopInv'
<1>1. keyboard' = keyboard /\ at = "udp"
    BY DEF ReadDatagram
<1>2. datagrams' \in Seq(Senders \cup {"_STOP"})
    <2>1. datagrams \in Seq(Senders \cup {"_STOP"})
        BY DEF LoopInv, Shapes
    <2>2. CASE "udp" \in ready
        <3>1. datagrams' = Tail(datagrams) /\ datagrams # <<>>
            BY <1>1, <2>2 DEF ReadDatagram, LoopInv, Places
        <3> QED  BY <2>1, <3>1
    <2>3. CASE datagrams' = datagrams
        BY <2>1, <2>3
    <2> QED  BY <2>2, <2>3 DEF ReadDatagram
<1>3. CASE End("stopped")
    BY <1>1, <1>2, <1>3, EndKeeps DEF LoopInv, Shapes
<1>4. CASE at' = "tcp" /\ UNCHANGED <<ready, conn, toSend, backlog, link, netVars>>
    <2>1. \A c : Waits(c)' <=> Waits(c)
        BY <1>4 DEF Waits
    <2>2. Shapes'
        BY <1>1, <1>2, <1>4 DEF LoopInv, Shapes, netVars
    <2>3. Places'
        BY <1>1, <1>4, <2>1 DEF LoopInv, Places
    <2>4. Amounts'
        BY <1>1, <1>4, <2>1 DEF LoopInv, Places, Amounts, Amount, netVars
    <2> QED  BY <2>2, <2>3, <2>4 DEF LoopInv
<1> QED  BY <1>3, <1>4 DEF ReadDatagram

LEMMA AcceptKeeps == ASSUME LoopInv, Accept PROVE LoopInv'
<1>1. /\ at = "tcp" /\ ready' = {}
      /\ UNCHANGED <<toSend, keyboard, datagrams, link, kind, unsent, inbox, outbox, received>>
    BY DEF Accept, netVars
<1>2. CASE at' = "select" /\ UNCHANGED <<conn, backlog>>
    <2>1. \A c : Waits(c)' <=> Waits(c)
        BY <1>2 DEF Waits
    <2>2. Shapes'
        BY <1>1, <1>2 DEF LoopInv, Shapes
    <2>3. Places'
        BY <1>1, <1>2, <2>1 DEF LoopInv, Places
    <2>4. Amounts'
        BY <1>1, <1>2, <2>1 DEF LoopInv, Places, Amounts, Amount
    <2> QED  BY <2>2, <2>3, <2>4 DEF LoopInv
<1>3. CASE "tcp" \in ready
    <2>1. /\ conn' = Head(backlog) /\ backlog' = Tail(backlog) /\ at' = "first"
          /\ backlog \in Seq(Clients) /\ backlog # <<>>
        BY <1>3 DEF Accept, LoopInv, Shapes, Places
    <2>2. /\ Len(backlog) \in Nat /\ Len(backlog) > 0
          /\ backlog' \in Seq(Clients) /\ Len(backlog') = Len(backlog) - 1
          /\ conn' = backlog[1] /\ conn' \in Clients
          /\ \A i \in 1..Len(backlog') : i + 1 \in 1..Len(backlog) /\ backlog'[i] = backlog[i + 1]
        BY <2>1
    <2>3. /\ Waits(conn')
          /\ \A c : Waits(c)' => Waits(c) /\ c # conn'
          /\ \A c : Waits(c) => Waits(c)' \/ c = conn'
        <3>1. \A c : Waits(c)' => Waits(c) /\ c # conn'
            BY <2>2 DEF Waits, LoopInv, Places
        <3>2. ASSUME NEW c, Waits(c), c # conn'
              PROVE  Waits(c)'
            <4>1. PICK i \in 1..Len(backlog) : backlog[i] = c
                BY <3>2 DEF Waits
            <4>2. i # 1 /\ i - 1 \in 1..Len(backlog') /\ backlog'[i - 1] = c
                BY <2>2, <3>2, <4>1
            <4> QED  BY <4>2 DEF Waits
        <3>3. Waits(conn')
            BY <2>2 DEF Waits
        <3> QED  BY <3>1, <3>2, <3>3
    <2>4. Shapes'
        BY <1>1, <2>1, <2>2 DEF LoopInv, Shapes
    <2>5. Places'
        <3>1. /\ conn' # NoClient /\ at' = "first" /\ conn = NoClient
              /\ Len(backlog') <= Backlog
            BY <1>1, <2>1, <2>2, LoopAssumption DEF LoopInv, Places
        <3>2. \A i, j \in 1..Len(backlog') : backlog'[i] = backlog'[j] => i = j
            BY <2>2 DEF LoopInv, Places
        <3>3. \A i \in 1..Len(backlog') : backlog'[i] # conn'
            BY <2>3 DEF Waits
        <3>4. \A c \in Clients : link'[c] = "up" => Waits(c)' \/ conn' = c
            BY <1>1, <2>3, <3>1, LoopAssumption DEF LoopInv, Places
        <3>5. \A c \in Clients : Waits(c)' \/ conn' = c => link'[c] \notin {"none", "closed"}
            BY <1>1, <2>3 DEF LoopInv, Places
        <3> QED  BY <1>1, <3>1, <3>2, <3>3, <3>4, <3>5 DEF Places
    <2>6. ASSUME NEW c \in Clients
          PROVE  Amount(c)'
        BY <1>1, <2>1, <2>3, OfClient DEF Amount
    <2> QED  BY <2>4, <2>5, <2>6 DEF LoopInv, Amounts
<1> QED  BY <1>2, <1>3 DEF Accept

LEMMA ReadFirstKeeps == ASSUME LoopInv, ReadFirst PROVE LoopInv'
<1>1. /\ conn \in Clients /\ ~Waits(conn)
    BY Served DEF ReadFirst
<1>2. /\ at = "first" /\ inbox' = [inbox EXCEPT ![conn] = 0]
      /\ UNCHANGED <<ready, conn, keyboard, datagrams, backlog, link, kind, unsent, outbox, received>>
      /\ \/ at' = "more" /\ toSend' = toSend
         \/ at' = "answer" /\ toSend' = AnswerPieces(kind[conn])
    BY DEF ReadFirst
<1>3. /\ inbox' \in [Clients -> Nat] /\ inbox'[conn] = 0
      /\ \A c \in Clients \ {conn} : inbox'[c] = inbox[c]
    BY <1>1, <1>2 DEF LoopInv, Shapes
<1>4. \A c : Waits(c)' <=> Waits(c)
    BY <1>2 DEF Waits
<1>5. Shapes'
    <2>1. AnswerPieces(kind[conn]) \in 0..ShowPieces
        BY <1>1, PiecesAre, LoopAssumption DEF LoopInv, Shapes
    <2> QED  BY <1>2, <1>3, <2>1 DEF LoopInv, Shapes
<1>6. Places'
    BY <1>2, PlacesStay DEF LoopInv
<1>7. ASSUME NEW c \in Clients
      PROVE  Amount(c)'
    BY <1>1, <1>2, <1>3, <1>4, OfClient, LoopAssumption DEF Amount
<1> QED  BY <1>5, <1>6, <1>7 DEF LoopInv, Amounts

LEMMA ReadMoreKeeps == ASSUME LoopInv, ReadMore PROVE LoopInv'
<1>1. /\ conn \in Clients /\ ~Waits(conn)
    BY Served DEF ReadMore
<1>2. /\ at = "more" /\ inbox' = [inbox EXCEPT ![conn] = 0]
      /\ UNCHANGED <<at, ready, conn, toSend, keyboard, datagrams, backlog, link,
                     kind, unsent, outbox, received>>
    BY DEF ReadMore, serverVars
<1>3. /\ inbox' \in [Clients -> Nat] /\ inbox'[conn] = 0
      /\ \A c \in Clients \ {conn} : inbox'[c] = inbox[c]
    BY <1>1, <1>2 DEF LoopInv, Shapes
<1>4. \A c : Waits(c)' <=> Waits(c)
    BY <1>2 DEF Waits
<1>5. Shapes'
    BY <1>2, <1>3 DEF LoopInv, Shapes
<1>6. Places'
    BY <1>2, PlacesStay DEF LoopInv
<1>7. ASSUME NEW c \in Clients
      PROVE  Amount(c)'
    BY <1>1, <1>2, <1>3, <1>4, OfClient, LoopAssumption DEF Amount
<1> QED  BY <1>5, <1>6, <1>7 DEF LoopInv, Amounts

LEMMA NoMoreKeeps == ASSUME LoopInv, NoMore PROVE LoopInv'
<1>1. /\ conn \in Clients /\ ~Waits(conn)
    BY Served DEF NoMore
<1>2. /\ at = "more" /\ at' = "answer" /\ toSend' = AnswerPieces("CRE")
      /\ UNCHANGED <<ready, conn, keyboard, datagrams, backlog, link,
                     kind, unsent, inbox, outbox, received>>
    BY DEF NoMore, netVars
<1>3. toSend' = 1 /\ toSend' \in 0..ShowPieces
    BY <1>2, PiecesAre, LoopAssumption DEF Kinds
<1>4. \A c : Waits(c)' <=> Waits(c)
    BY <1>2 DEF Waits
<1>5. Shapes'
    BY <1>2, <1>3 DEF LoopInv, Shapes
<1>6. Places'
    BY <1>2, PlacesStay DEF LoopInv
<1>7. ASSUME NEW c \in Clients
      PROVE  Amount(c)'
    BY <1>1, <1>2, <1>3, <1>4, OfClient, LoopAssumption DEF Amount
<1> QED  BY <1>5, <1>6, <1>7 DEF LoopInv, Amounts

LEMMA WriteKeeps == ASSUME LoopInv, Write PROVE LoopInv'
<1>1. /\ conn \in Clients /\ ~Waits(conn)
    BY Served DEF Write
<1>2. /\ at = "answer" /\ toSend > 0 /\ toSend' = toSend - 1
      /\ outbox[conn] < Window
      /\ UNCHANGED <<at, ready, conn, keyboard, datagrams, backlog,
                     kind, unsent, inbox, received>>
    BY DEF Write
<1>3. toSend \in Nat /\ toSend' \in 0..ShowPieces
    BY <1>2, LoopAssumption DEF LoopInv, Shapes
<1>4. \A c : Waits(c)' <=> Waits(c)
    BY <1>2 DEF Waits
<1>5. CASE /\ link[conn] = "up"
           /\ outbox' = [outbox EXCEPT ![conn] = @ + 1]
           /\ link' = link
    <2>1. /\ outbox' \in [Clients -> Nat] /\ outbox'[conn] = outbox[conn] + 1
          /\ \A c \in Clients \ {conn} : outbox'[c] = outbox[c]
        BY <1>1, <1>5 DEF LoopInv, Shapes
    <2>2. Shapes'
        BY <1>2, <1>3, <1>5, <2>1 DEF LoopInv, Shapes
    <2>3. Places'
        BY <1>2, <1>5, PlacesStay DEF LoopInv
    <2>4. ASSUME NEW c \in Clients
          PROVE  Amount(c)'
        BY <1>1, <1>2, <1>3, <1>4, <1>5, <2>1, OfClient, LoopAssumption DEF Amount
    <2> QED  BY <2>2, <2>3, <2>4 DEF LoopInv, Amounts
<1>6. CASE /\ link[conn] = "left"
           /\ link' \in {link, [link EXCEPT ![conn] = "broken"]}
           /\ outbox' = outbox
    <2>1. /\ link' \in [Clients -> {"none", "up", "closed", "left", "reset", "broken"}]
          /\ link'[conn] \in {"left", "broken"}
          /\ \A c \in Clients \ {conn} : link'[c] = link[c]
        BY <1>1, <1>6 DEF LoopInv, Shapes
    <2>2. Shapes'
        BY <1>2, <1>3, <1>6, <2>1 DEF LoopInv, Shapes
    <2>3. Places'
        BY <1>1, <1>2, <1>6, <2>1, PlacesStay DEF LoopInv
    <2>4. ASSUME NEW c \in Clients
          PROVE  Amount(c)'
        BY <1>1, <1>2, <1>3, <1>4, <1>6, <2>1, OfClient, LoopAssumption DEF Amount
    <2> QED  BY <2>2, <2>3, <2>4 DEF LoopInv, Amounts
<1> QED  BY <1>5, <1>6 DEF Write

LEMMA ServerKeeps == ASSUME LoopInv, Server PROVE LoopInv'
<1>1. CASE ReadNothing \/ WriteFails \/ Finish
    BY <1>1, CloseKeeps DEF ReadNothing, WriteFails, Finish
<1>2. CASE WriteKills
    BY <1>2, EndKeeps DEF WriteKills, LoopInv, Shapes
<1> QED  BY <1>1, <1>2, SelectKeeps, ReadKeyboardKeeps, ReadDatagramKeeps, AcceptKeeps,
            ReadFirstKeeps, ReadMoreKeeps, NoMoreKeeps, WriteKeeps DEF Server

-----------------------------------------------------------------------------
(* The steps of the clients *)

LEMMA TypeKeeps ==
    ASSUME LoopInv, NEW line \in {"other", "_STOP"}, Type(line)
    PROVE  LoopInv'
<1>1. /\ keyboard' = line
      /\ UNCHANGED <<serverVars, datagrams, backlog, link, netVars>>
    BY DEF Type
<1>2. Shapes'
    BY <1>1 DEF LoopInv, Shapes, serverVars, netVars, Lines
<1>3. Places'
    BY <1>1, PlacesStay DEF LoopInv, serverVars
<1>4. Amounts'
    BY <1>1 DEF LoopInv, Amounts, Amount, Waits, serverVars, netVars
<1> QED  BY <1>2, <1>3, <1>4 DEF LoopInv

LEMMA SendDatagramKeeps ==
    ASSUME LoopInv, NEW d \in Senders \cup {"_STOP"}, SendDatagram(d)
    PROVE  LoopInv'
<1>1. /\ datagrams' = Append(datagrams, d)
      /\ UNCHANGED <<serverVars, keyboard, backlog, link, netVars>>
    BY DEF SendDatagram
<1>2. datagrams' \in Seq(Senders \cup {"_STOP"}) /\ datagrams' # <<>>
    <2>1. datagrams \in Seq(Senders \cup {"_STOP"})
        BY DEF LoopInv, Shapes
    <2>2. datagrams' \in Seq(Senders \cup {"_STOP"}) /\ Len(datagrams') = Len(datagrams) + 1
        BY <1>1, <2>1
    <2> QED  BY <2>1, <2>2
<1>3. Shapes'
    BY <1>1, <1>2 DEF LoopInv, Shapes, serverVars, netVars
<1>4. Places'
    <2>1. \A c : Waits(c)' <=> Waits(c)
        BY <1>1 DEF Waits
    <2> QED  BY <1>1, <1>2, <2>1 DEF LoopInv, Places, serverVars
<1>5. Amounts'
    BY <1>1 DEF LoopInv, Amounts, Amount, Waits, serverVars, netVars
<1> QED  BY <1>3, <1>4, <1>5 DEF LoopInv

LEMMA ConnectKeeps ==
    ASSUME LoopInv, NEW c \in Clients, NEW k \in Kinds, Connect(c, k)
    PROVE  LoopInv'
<1>1. /\ link[c] = "none" /\ Len(backlog) < Backlog
      /\ backlog' = Append(backlog, c)
      /\ link' = [link EXCEPT ![c] = "up"]
      /\ kind' = [kind EXCEPT ![c] = k]
      /\ unsent' = [unsent EXCEPT ![c] = RequestPieces(k)]
      /\ inbox' = [inbox EXCEPT ![c] = 0]
      /\ outbox' = [outbox EXCEPT ![c] = 0]
      /\ received' = [received EXCEPT ![c] = 0]
      /\ UNCHANGED <<at, ready, conn, toSend, keyboard, datagrams>>
    BY DEF Connect, serverVars
<1>2. RequestPieces(k) \in Nat \ {0} /\ AnswerPieces(k) \in Nat \ {0}
    BY PiecesAre, LoopAssumption
<1>3. /\ link' \in [Clients -> {"none", "up", "closed", "left", "reset", "broken"}]
      /\ kind' \in [Clients -> Kinds]
      /\ unsent' \in [Clients -> Nat] /\ inbox' \in [Clients -> Nat]
      /\ outbox' \in [Clients -> Nat] /\ received' \in [Clients -> Nat]
    BY <1>1, <1>2 DEF LoopInv, Shapes
<1>4. /\ link'[c] = "up" /\ kind'[c] = k /\ unsent'[c] = RequestPieces(k)
      /\ inbox'[c] = 0 /\ outbox'[c] = 0 /\ received'[c] = 0
      /\ \A b \in Clients \ {c} :
            /\ link'[b] = link[b] /\ kind'[b] = kind[b] /\ unsent'[b] = unsent[b]
            /\ inbox'[b] = inbox[b] /\ outbox'[b] = outbox[b] /\ received'[b] = received[b]
    BY <1>1 DEF LoopInv, Shapes
<1>5. ~Waits(c) /\ conn # c
    BY <1>1 DEF LoopInv, Places
<1>6. /\ backlog' \in Seq(Clients) /\ Len(backlog) \in Nat
      /\ Len(backlog') = Len(backlog) + 1
      /\ \A i \in 1..Len(backlog) : backlog'[i] = backlog[i]
      /\ backlog'[Len(backlog')] = c
    <2>1. backlog \in Seq(Clients)
        BY DEF LoopInv, Shapes
    <2> QED  BY <1>1, <2>1
<1>7. \A b : Waits(b)' <=> Waits(b) \/ b = c
    <2>1. ASSUME NEW i \in 1..Len(backlog')
          PROVE  i \in 1..Len(backlog) \/ i = Len(backlog')
        BY <1>6
    <2>2. Len(backlog') \in 1..Len(backlog') /\ 1..Len(backlog) \subseteq 1..Len(backlog')
        BY <1>6
    <2>3. ASSUME NEW b, Waits(b)'
          PROVE  Waits(b) \/ b = c
        BY <1>6, <2>1, <2>3 DEF Waits
    <2>4. ASSUME NEW b, Waits(b) \/ b = c
          PROVE  Waits(b)'
        BY <1>6, <2>2, <2>4 DEF Waits
    <2> QED  BY <2>3, <2>4
<1>8. Shapes'
    BY <1>1, <1>3, <1>6 DEF LoopInv, Shapes
<1>9. Places'
    <2>1. \A i, j \in 1..Len(backlog') : backlog'[i] = backlog'[j] => i = j
        <3>1. \A i \in 1..Len(backlog) : backlog[i] # c
            BY <1>5 DEF Waits
        <3> QED  BY <1>6, <3>1 DEF LoopInv, Places
    <2>2. \A i \in 1..Len(backlog') : backlog'[i] # conn
        BY <1>5, <1>6 DEF LoopInv, Places
    <2>3. Len(backlog') <= Backlog /\ backlog' # <<>>
        <3>1. Len(<<>>) = 0
            OBVIOUS
        <3>2. Len(backlog) < Backlog
            BY <1>1
        <3> QED  BY <1>6, <3>1, <3>2, LoopAssumption
    <2>4. ASSUME NEW b \in Clients
          PROVE  /\ link'[b] = "up" => Waits(b)' \/ conn' = b
                 /\ Waits(b)' \/ conn' = b => link'[b] \notin {"none", "closed"}
        <3>1. CASE b = c
            BY <1>4, <1>7, <3>1
        <3>2. CASE b # c
            BY <1>1, <1>4, <1>7, <3>2 DEF LoopInv, Places
        <3> QED  BY <3>1, <3>2
    <2> QED  BY <1>1, <2>1, <2>2, <2>3, <2>4 DEF LoopInv, Places
<1>10. ASSUME NEW b \in Clients
       PROVE  Amount(b)'
    <2>1. CASE b = c
        BY <1>1, <1>2, <1>4, <1>5, <2>1, LoopAssumption DEF Amount
    <2>2. CASE b # c
        BY <1>1, <1>4, <1>7, <2>2, OfClient DEF Amount
    <2> QED  BY <2>1, <2>2
<1> QED  BY <1>8, <1>9, <1>10 DEF LoopInv, Amounts

LEMMA SendPieceKeeps == ASSUME LoopInv, NEW c \in Clients, SendPiece(c) PROVE LoopInv'
<1>1. /\ link[c] = "up" /\ unsent[c] > 0
      /\ unsent' = [unsent EXCEPT ![c] = @ - 1]
      /\ inbox' = [inbox EXCEPT ![c] = @ + 1]
      /\ UNCHANGED <<at, ready, conn, toSend, keyboard, datagrams, backlog, link,
                     kind, outbox, received>>
    BY DEF SendPiece, serverVars
<1>2. /\ unsent \in [Clients -> Nat] /\ inbox \in [Clients -> Nat]
    BY DEF LoopInv, Shapes
<1>3. /\ unsent' \in [Clients -> Nat] /\ inbox' \in [Clients -> Nat]
      /\ unsent'[c] = unsent[c] - 1 /\ inbox'[c] = inbox[c] + 1
      /\ \A b \in Clients \ {c} : unsent'[b] = unsent[b] /\ inbox'[b] = inbox[b]
    <2>1. unsent[c] - 1 \in Nat /\ inbox[c] + 1 \in Nat
        BY <1>1, <1>2
    <2> QED  BY <1>1, <1>2, <2>1
<1>4. \A b : Waits(b)' <=> Waits(b)
    BY <1>1 DEF Waits
<1>5. Shapes'
    BY <1>1, <1>3 DEF LoopInv, Shapes
<1>6. Places'
    BY <1>1, PlacesStay DEF LoopInv
<1>7. ASSUME NEW b \in Clients
      PROVE  Amount(b)'
    <2>1. CASE b = c
        <3>1. /\ unsent[c] \in Nat /\ inbox[c] \in Nat /\ Amount(c)
              /\ unsent'[c] + inbox'[c] = unsent[c] + inbox[c]
            BY <1>3, OfClient
        <3> QED  BY <1>1, <1>4, <2>1, <3>1 DEF Amount
    <2>2. CASE b # c
        BY <1>1, <1>3, <1>4, <2>2, OfClient DEF Amount
    <2> QED  BY <2>1, <2>2
<1> QED  BY <1>5, <1>6, <1>7 DEF LoopInv, Amounts

\* What closing its socket makes of a client's connection.
LEMMA LeaveMoves ==
    ASSUME LoopInv, NEW c \in Clients, link[c] \in {"up", "closed"},
           Leave(c) \/ link' = link
    PROVE  /\ link' \in [Clients -> {"none", "up", "closed", "left", "reset", "broken"}]
           /\ \/ link'[c] = link[c]
              \/ link[c] = "up" /\ link'[c] \in {"left", "reset"}
              \/ link[c] = "closed" /\ link'[c] = "none"
           /\ \A b \in Clients \ {c} : link'[b] = link[b]
BY DEF Leave, LoopInv, Shapes

LEMMA ReadAnswerKeeps == ASSUME LoopInv, NEW c \in Clients, ReadAnswer(c) PROVE LoopInv'
<1>1. PICK n \in 1..outbox[c] :
          /\ outbox' = [outbox EXCEPT ![c] = @ - n]
          /\ received' = [received EXCEPT ![c] = @ + n]
          /\ Leave(c) \/ link' = link
    BY DEF ReadAnswer
<1>2. /\ link[c] \in {"up", "closed"}
      /\ UNCHANGED <<at, ready, conn, toSend, keyboard, datagrams, backlog,
                     kind, unsent, inbox>>
    BY DEF ReadAnswer, serverVars
<1>3. /\ outbox \in [Clients -> Nat] /\ received \in [Clients -> Nat]
    BY DEF LoopInv, Shapes
<1>4. /\ outbox' \in [Clients -> Nat] /\ received' \in [Clients -> Nat]
      /\ outbox'[c] = outbox[c] - n /\ received'[c] = received[c] + n
      /\ \A b \in Clients \ {c} : outbox'[b] = outbox[b] /\ received'[b] = received[b]
      /\ n \in Nat \ {0} /\ n <= outbox[c]
    <2>1. outbox[c] - n \in Nat /\ received[c] + n \in Nat
        BY <1>3
    <2> QED  BY <1>1, <1>3, <2>1
<1>5. /\ link' \in [Clients -> {"none", "up", "closed", "left", "reset", "broken"}]
      /\ \/ link'[c] = link[c]
         \/ link[c] = "up" /\ link'[c] \in {"left", "reset"}
         \/ link[c] = "closed" /\ link'[c] = "none"
      /\ \A b \in Clients \ {c} : link'[b] = link[b]
    BY <1>1, <1>2, LeaveMoves
<1>6. \A b : Waits(b)' <=> Waits(b)
    BY <1>2 DEF Waits
<1>7. Shapes'
    BY <1>2, <1>4, <1>5 DEF LoopInv, Shapes
<1>8. Places'
    BY <1>2, <1>5, PlacesStay DEF LoopInv
<1>9. ASSUME NEW b \in Clients
      PROVE  Amount(b)'
    <2>1. CASE b = c
        BY <1>2, <1>4, <1>5, <1>6, <2>1, OfClient, LoopAssumption DEF Amount
    <2>2. CASE b # c
        BY <1>2, <1>4, <1>5, <1>6, <2>2, OfClient DEF Amount
    <2> QED  BY <2>1, <2>2
<1> QED  BY <1>7, <1>8, <1>9 DEF LoopInv, Amounts

LEMMA ClosingKeeps ==
    ASSUME LoopInv, NEW c \in Clients, ReadEnd(c) \/ HangUp(c)
    PROVE  LoopInv'
<1>1. /\ link[c] \in {"up", "closed"} /\ Leave(c)
      /\ UNCHANGED <<serverVars, keyboard, datagrams, backlog, netVars>>
    BY DEF ReadEnd, HangUp
<1>2. /\ UNCHANGED <<at, ready, conn, toSend, keyboard, datagrams, backlog,
                     kind, unsent, inbox, outbox, received>>
    BY <1>1 DEF serverVars, netVars
<1>3. /\ link' \in [Clients -> {"none", "up", "closed", "left", "reset", "broken"}]
      /\ \/ link'[c] = link[c]
         \/ link[c] = "up" /\ link'[c] \in {"left", "reset"}
         \/ link[c] = "closed" /\ link'[c] = "none"
      /\ \A b \in Clients \ {c} : link'[b] = link[b]
    BY <1>1, LeaveMoves
<1>4. Shapes'
    BY <1>2, <1>3 DEF LoopInv, Shapes
<1>5. Places'
    BY <1>2, <1>3, PlacesStay DEF LoopInv
<1>6. ASSUME NEW b \in Clients
      PROVE  Amount(b)'
    <2>1. Waits(b)' <=> Waits(b)
        BY <1>2 DEF Waits
    <2>2. link'[b] = "up" => link[b] = "up"
        BY <1>3
    <2> QED  BY <1>2, <2>1, <2>2, OfClient DEF Amount
<1> QED  BY <1>4, <1>5, <1>6 DEF LoopInv, Amounts

-----------------------------------------------------------------------------
(* The theorems *)

LEMMA InitLoopInv == Init => LoopInv
<1> SUFFICES ASSUME Init PROVE LoopInv
    OBVIOUS
<1>0. /\ at = "select" /\ ready = {} /\ conn = NoClient /\ toSend = 0 /\ keyboard = ""
      /\ link = [c \in Clients |-> "none"] /\ kind = [c \in Clients |-> "short"]
      /\ unsent = [c \in Clients |-> 0] /\ inbox = [c \in Clients |-> 0]
      /\ outbox = [c \in Clients |-> 0] /\ received = [c \in Clients |-> 0]
    BY DEF Init
<1>1. /\ datagrams \in Seq(Senders \cup {"_STOP"})
      /\ backlog \in Seq(Clients) /\ Len(backlog) = 0
    <2>1. datagrams = <<>> /\ backlog = <<>>
        BY DEF Init
    <2>2. <<>> \in Seq(Clients) /\ <<>> \in Seq(Senders \cup {"_STOP"}) /\ Len(<<>>) = 0
        OBVIOUS
    <2> QED  BY <2>1, <2>2, Zenon
<1>2. \A c : ~Waits(c)
    BY <1>1 DEF Waits
<1>3. /\ link \in [Clients -> {"none", "up", "closed", "left", "reset", "broken"}]
      /\ kind \in [Clients -> Kinds]
      /\ unsent \in [Clients -> Nat] /\ inbox \in [Clients -> Nat]
      /\ outbox \in [Clients -> Nat] /\ received \in [Clients -> Nat]
    BY <1>0 DEF Kinds
<1>4. \A c \in Clients :
          /\ link[c] = "none" /\ kind[c] = "short"
          /\ unsent[c] = 0 /\ inbox[c] = 0 /\ outbox[c] = 0 /\ received[c] = 0
    BY <1>0
<1>5. /\ at = "select" /\ ready = {} /\ conn = NoClient /\ toSend = 0 /\ keyboard = ""
    BY <1>0
<1>6. Shapes
    <2>1. toSend \in 0..ShowPieces /\ keyboard \in Lines
        <3>1. toSend \in 0..ShowPieces
            <4>1. 0 \in 0..ShowPieces
                BY LoopAssumption
            <4> QED  BY <1>5, <4>1
        <3>2. keyboard \in Lines
            BY <1>5 DEF Lines
        <3> QED  BY <3>1, <3>2
    <2> QED  BY <1>1, <1>3, <1>5, <2>1 DEF Shapes
<1>7. Places
    <2>1. \A c \in Clients : c # conn
        BY <1>5, LoopAssumption
    <2>2. 1..Len(backlog) = {} /\ Len(backlog) <= Backlog
        BY <1>1, LoopAssumption
    <2> QED  BY <1>2, <1>4, <1>5, <2>1, <2>2 DEF Places
<1>8. ASSUME NEW c \in Clients
      PROVE  Amount(c)
    <2>1. "short" \in Kinds
        BY DEF Kinds
    <2>2. /\ RequestPieces("short") \in Nat /\ AnswerPieces("short") \in Nat
          /\ Window \in Nat
        BY <2>1, PiecesAre, LoopAssumption
    <2>3. c # conn
        BY <1>5, LoopAssumption
    <2> QED  BY <1>2, <1>4, <2>2, <2>3 DEF Amount
<1> QED  BY <1>6, <1>7, <1>8 DEF LoopInv, Amounts

LEMMA StepLoopInv == LoopInv /\ [Next]_vars => LoopInv'
<1>1. ASSUME LoopInv, Next PROVE LoopInv'
    BY <1>1, ServerKeeps, TypeKeeps, SendDatagramKeeps, ConnectKeeps, SendPieceKeeps,
       ReadAnswerKeeps, ClosingKeeps DEF Next, ClientWorks
<1>2. ASSUME LoopInv, UNCHANGED vars PROVE LoopInv'
    BY <1>2 DEF LoopInv, Shapes, Places, Amounts, Amount, Waits, vars, serverVars, netVars
<1> QED  BY <1>1, <1>2

\* LoopInv holds in every run of the server's loop and its clients.
THEOREM LoopInvSafe == Spec => []LoopInv
BY InitLoopInv, StepLoopInv, PTL DEF Spec

\* Every variable of the loop (ES.c:121-272) and of the connections keeps its shape;
\* no answer, and no window of an answer, is longer than it is meant to be.
THEOREM LoopTypeSafe == Spec => []TypeOK
<1>1. LoopInv => TypeOK
    <2> SUFFICES ASSUME LoopInv PROVE TypeOK
        OBVIOUS
    <2>1. \A i \in 1..Len(datagrams) : datagrams[i] \in Senders \cup {"_STOP"}
        BY DEF LoopInv, Shapes
    <2>2. ASSUME NEW c \in Clients
          PROVE  /\ unsent[c] \in 0..CreatePieces /\ inbox[c] \in 0..CreatePieces
                 /\ outbox[c] \in 0..Window /\ received[c] \in 0..ShowPieces
        <3>1. /\ kind[c] \in Kinds /\ unsent[c] \in Nat /\ inbox[c] \in Nat
              /\ outbox[c] \in Nat /\ received[c] \in Nat
              /\ unsent[c] + inbox[c] <= RequestPieces(kind[c])
              /\ received[c] + outbox[c] <= AnswerPieces(kind[c])
              /\ outbox[c] <= Window
            BY OfClient DEF Amount
        <3>2. /\ RequestPieces(kind[c]) \in 1..CreatePieces
              /\ AnswerPieces(kind[c]) \in 1..ShowPieces
            BY <3>1, PiecesAre
        <3> QED  BY <3>1, <3>2, LoopAssumption
    <2> QED  BY <2>1, <2>2 DEF LoopInv, Shapes, Places, TypeOK
<1> QED  BY <1>1, LoopInvSafe, PTL

\* The server never waits for a request that its client has written, nor a client
\* for an answer to a request the server does not know of (ES.c:205-229 against the
\* TCP commands of user.c): the two do not wait for each other.
THEOREM NoMutualWaitSafe == Spec => []NoMutualWait
<1>1. LoopInv => NoMutualWait
    <2> SUFFICES ASSUME LoopInv, NEW c \in Clients,
                        link[c] = "up", unsent[c] = 0, inbox[c] = 0
                 PROVE  conn = c /\ at \in {"more", "answer"}
        BY DEF NoMutualWait
    <2>1. /\ Waits(c) \/ conn = c
          /\ conn # NoClient => at \in {"first", "more", "answer"}
        BY DEF LoopInv, Places
    <2>2. ~(Waits(c) \/ (conn = c /\ at = "first"))
        BY OfClient DEF Amount
    <2> QED  BY <2>1, <2>2, LoopAssumption
<1> QED  BY <1>1, LoopInvSafe, PTL

\* A client that is the first to close has read its whole answer, or stopped at a
\* newline of a description (user.c:903-930).
THEOREM ShownToTheEndSafe == Spec => []ShownToTheEnd
<1>1. Init => ShownToTheEnd
    BY DEF Init, ShownToTheEnd
<1>2. ASSUME LoopInv, ShownToTheEnd, [Next]_vars
      PROVE  ShownToTheEnd'
    <2>1. CASE \A c \in Clients : link'[c] = link[c] /\ received'[c] = received[c]
                                                  /\ kind'[c] = kind[c]
        BY <2>1, <1>2 DEF ShownToTheEnd
    <2>2. CASE Server
        <3>1. kind' = kind /\ received' = received
            BY <2>2 DEF Server, Select, ReadKeyboard, ReadDatagram, Accept, ReadFirst,
                ReadNothing, ReadMore, NoMore, Write, WriteFails, WriteKills, Finish, End, netVars
        <3>2. ASSUME NEW c \in Clients, link'[c] \in {"left", "reset", "broken"}
              PROVE  link[c] \in {"left", "reset", "broken"}
            <4>1. link \in [Clients -> {"none", "up", "closed", "left", "reset", "broken"}]
                BY <1>2 DEF LoopInv, Shapes
            <4>2. CASE UNCHANGED link
                BY <3>2, <4>2
            <4>3. CASE End("stopped") \/ End("killed")
                BY <3>2, <4>1, <4>3 DEF End
            <4>4. CASE CloseConnection
                BY <3>2, <4>1, <4>4 DEF CloseConnection
            <4>5. CASE Write
                BY <3>2, <4>1, <4>5 DEF Write
            <4> QED  BY <2>2, <4>2, <4>3, <4>4, <4>5
                     DEF Server, Select, ReadKeyboard, ReadDatagram, Accept, ReadFirst,
                         ReadNothing, ReadMore, NoMore, WriteFails, WriteKills, Finish
        <3> QED  BY <1>2, <3>1, <3>2 DEF ShownToTheEnd
    <2>3. ASSUME NEW b \in Clients, NEW k \in Kinds, Connect(b, k)
          PROVE  ShownToTheEnd'
        BY <1>2, <2>3 DEF ShownToTheEnd, Connect, LoopInv, Shapes
    <2>4. ASSUME NEW b \in Clients, ReadAnswer(b)
          PROVE  ShownToTheEnd'
        <3>1. PICK n \in 1..outbox[b] :
                  /\ received' = [received EXCEPT ![b] = @ + n]
                  /\ (Ends(b, n) /\ Leave(b)) \/ UNCHANGED link
            BY <2>4 DEF ReadAnswer
        <3>2. link[b] \in {"up", "closed"} /\ kind' = kind
            BY <2>4 DEF ReadAnswer
        <3>3. /\ received'[b] = received[b] + n
              /\ \A c \in Clients \ {b} : received'[c] = received[c] /\ link'[c] = link[c]
              /\ link'[b] \in {"left", "reset", "broken"} => Ends(b, n)
            BY <1>2, <3>1, <3>2 DEF LoopInv, Shapes, Leave
        <3>4. Ends(b, n) =>
                  \/ received'[b] = AnswerPieces(kind'[b])
                  \/ kind'[b] = "SED" /\ received'[b] \in NewlineAfter
            BY <3>2, <3>3 DEF Ends
        <3> QED  BY <1>2, <3>2, <3>3, <3>4 DEF ShownToTheEnd
    <2>5. ASSUME NEW b \in Clients, ReadEnd(b) \/ HangUp(b)
          PROVE  ShownToTheEnd'
        <3>1. /\ kind' = kind /\ received' = received
              /\ \A c \in Clients \ {b} : link'[c] = link[c]
              /\ b \in Silent \/ link'[b] = "none"
            BY <1>2, <2>5 DEF ReadEnd, HangUp, Leave, netVars, LoopInv, Shapes
        <3> QED  BY <1>2, <3>1 DEF ShownToTheEnd
    <2>6. CASE UNCHANGED vars
        BY <2>1, <2>6 DEF vars, netVars
    <2>7. ASSUME \/ \E line \in {"other", "_STOP"} : Type(line)
                 \/ \E d \in Senders \cup {"_STOP"} : SendDatagram(d)
                 \/ \E c \in Clients : SendPiece(c)
          PROVE  ShownToTheEnd'
        BY <2>1, <2>7 DEF Type, SendDatagram, SendPiece, netVars
    <2> QED  BY <1>2, <2>2, <2>3, <2>4, <2>5, <2>6, <2>7 DEF Next, ClientWorks
<1> QED  BY <1>1, <1>2, LoopInvSafe, PTL DEF Spec

-----------------------------------------------------------------------------
(* What ends the process *)

\* Only a write to a connection that was left kills the server.
LEMMA OnlyWriteKills ==
    ASSUME Next, at # "killed", at' = "killed"
    PROVE  WriteKills
<1>1. Server
    BY DEF Next, Type, SendDatagram, Connect, ClientWorks, SendPiece, ReadAnswer, ReadEnd,
       HangUp, serverVars
<1> QED  BY <1>1 DEF Server, Select, ReadKeyboard, ReadDatagram, Accept, ReadFirst, ReadNothing,
                ReadMore, NoMore, Write, WriteFails, Finish, CloseConnection, End, serverVars

LEMMA WhoKills ==
    ASSUME LoopInv, ShownToTheEnd, WriteKills
    PROVE  /\ conn \in Clients
           /\ \/ conn \in Silent
              \/ kind[conn] = "SED" /\ received[conn] \in NewlineAfter
<1>1. at = "answer" /\ toSend > 0 /\ link[conn] = "broken"
    BY DEF WriteKills
<1>2. conn \in Clients
    BY <1>1, Served
<1>3. received[conn] + outbox[conn] + toSend <= AnswerPieces(kind[conn])
    BY <1>1, <1>2, OfClient DEF Amount
<1>4. received[conn] # AnswerPieces(kind[conn])
    <2>1. /\ received[conn] \in Nat /\ outbox[conn] \in Nat /\ toSend \in Nat
          /\ AnswerPieces(kind[conn]) \in Nat
        BY <1>2, OfClient, LoopAssumption DEF LoopInv, Shapes
    <2> QED  BY <1>1, <1>3, <2>1
<1> QED  BY <1>1, <1>2, <1>4 DEF ShownToTheEnd

\* For any numbers of clients and pieces, whom a SIGPIPE comes from: a client that was
\* ended while it was answered, or user.c:926 where it takes a newline of the
\* description for the end of the answer.
THEOREM KilledForAReasonSafe == Spec => KilledForAReason
<1>1. LoopInv /\ ShownToTheEnd /\ [Next]_vars =>
        [at' = "killed" /\ at # "killed" =>
           /\ conn \in Clients
           /\ \/ conn \in Silent
              \/ kind[conn] = "SED" /\ received[conn] \in NewlineAfter]_vars
    BY OnlyWriteKills, WhoKills
<1> QED  BY <1>1, LoopInvSafe, ShownToTheEndSafe, PTL DEF Spec, KilledForAReason

\* The server survives everybody as long as no client is ended in the middle and no
\* portion of a description ends in a newline: there is no other way to die.
THEOREM ServerSurvivesSafe ==
    ASSUME Silent = {}, NewlineAfter = {}
    PROVE  Spec => []ServerSurvives
<1>1. Init => ServerSurvives
    BY DEF Init, ServerSurvives
<1>2. LoopInv /\ ShownToTheEnd /\ ServerSurvives /\ [Next]_vars => ServerSurvives'
    BY OnlyWriteKills, WhoKills DEF ServerSurvives, vars, serverVars
<1> QED  BY <1>1, <1>2, LoopInvSafe, ShownToTheEndSafe, PTL DEF Spec
=============================================================================
