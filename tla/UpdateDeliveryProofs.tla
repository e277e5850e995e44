------------------------- MODULE UpdateDeliveryProofs -------------------------
(***************************************************************************)
(* What a client has when the server tells it that the files are finished. *)
(* A thread writes the new size of fileList some time after it has read    *)
(* the old one; when two threads do so at once the list may lose files and *)
(* even shrink while it is sent.  As long as it does not shrink, a client  *)
(* closes its connection only with every announced file, and the sessions  *)
(* implement UpdateService; as long as no two threads insert at once, it   *)
(* does not shrink, and nothing a client needs is missing from it.         *)
(***************************************************************************)
EXTENDS UpdateTurnProofs

-----------------------------------------------------------------------------
(* A transfer on its way: a header, files, and ID_FILESFINISHED.           *)

\* The packets of a transfer in the order in which they are sent.
InOrder(q) ==
    \A i \in 1 .. Len(q) :
        /\ q[i].type \in {"header", "file", "filesFinished"}
        /\ q[i].type = "header" => i = 1
        /\ q[i].type = "filesFinished" => i = Len(q)

Ahead(q, type) == IF Has(q, {type}) THEN 1 ELSE 0

\* The files in a transfer.
FilesIn(q) == Len(q) - Ahead(q, "header") - Ahead(q, "filesFinished")

\* A transfer of which the first packet is taken ...
LEMMA TransferTail ==
    ASSUME NEW S, NEW q \in Seq(S), q # <<>>, InOrder(q)
    PROVE  /\ InOrder(Tail(q)) /\ ~Has(Tail(q), {"header"})
           /\ FilesIn(q) \in Nat /\ FilesIn(Tail(q)) \in Nat
           /\ Head(q) = q[1]
           /\ Head(q).type = "header" =>
                 Has(q, {"header"}) /\ FilesIn(Tail(q)) = FilesIn(q)
           /\ Head(q).type = "file" =>
                 ~Has(q, {"header"}) /\ FilesIn(Tail(q)) = FilesIn(q) - 1
           /\ Head(q).type = "filesFinished" =>
                 Tail(q) = <<>> /\ ~Has(q, {"header"}) /\ FilesIn(q) = 0
  <1> DEFINE rest == Tail(q)
  <1>1. /\ rest \in Seq(S) /\ Len(rest) = Len(q) - 1 /\ Head(q) = q[1]
        /\ Len(q) \in Nat \ {0}
        /\ \A i \in 1 .. Len(rest) : i + 1 \in 2 .. Len(q) /\ rest[i] = q[i + 1]
    BY TailIs
  <1>2. /\ Has(q, {"header"}) <=> Head(q).type \in {"header"} \/ Has(rest, {"header"})
        /\ Has(q, {"filesFinished"}) <=>
              Head(q).type \in {"filesFinished"} \/ Has(rest, {"filesFinished"})
    BY HasTail
  <1> HIDE DEF rest
  <1>3. \A i \in 1 .. Len(rest) :
           /\ rest[i].type \in {"file", "filesFinished"}
           /\ rest[i].type = "filesFinished" => i = Len(rest)
    <2>1. SUFFICES ASSUME NEW i \in 1 .. Len(rest)
                   PROVE  /\ rest[i].type \in {"file", "filesFinished"}
                          /\ rest[i].type = "filesFinished" => i = Len(rest)
      OBVIOUS
    <2>2. i + 1 \in 1 .. Len(q) /\ i + 1 # 1 /\ rest[i] = q[i + 1]
      BY <1>1
    <2>3. /\ q[i + 1].type \in {"header", "file", "filesFinished"}
          /\ q[i + 1].type # "header"
          /\ q[i + 1].type = "filesFinished" => i + 1 = Len(q)
      BY <2>2 DEF InOrder
    <2>4. QED  BY <1>1, <2>2, <2>3
  <1>4. InOrder(rest) /\ ~Has(rest, {"header"})
    BY <1>3 DEF InOrder, Has
  <1>5. Head(q).type \in {"header", "file", "filesFinished"}
        /\ (Head(q).type = "filesFinished" => Len(q) = 1)
    BY <1>1 DEF InOrder
  <1>6. Head(q).type = "filesFinished" => rest = <<>>
    BY <1>1, <1>5
  <1>7. Has(rest, {"filesFinished"}) => Len(rest) \in Nat \ {0}
    BY <1>1 DEF Has
  <1>8. ~Has(<<>>, {"filesFinished"})
    BY HasNothing
  <1>9. FilesIn(rest) \in Nat
    BY <1>1, <1>4, <1>7 DEF FilesIn, Ahead
  <1>10. /\ Ahead(rest, "header") = 0
         /\ Ahead(q, "header") = IF Head(q).type = "header" THEN 1 ELSE 0
         /\ Head(q).type # "filesFinished" =>
               Ahead(q, "filesFinished") = Ahead(rest, "filesFinished")
         /\ Head(q).type = "filesFinished" => Ahead(q, "filesFinished") = 1
         /\ Ahead(rest, "filesFinished") \in Int
    BY <1>2, <1>4 DEF Ahead
  <1>11. Head(q).type = "header" => Has(q, {"header"}) /\ FilesIn(rest) = FilesIn(q)
    BY <1>1, <1>2, <1>10 DEF FilesIn
  <1>12. Head(q).type = "file" => ~Has(q, {"header"}) /\ FilesIn(rest) = FilesIn(q) - 1
    BY <1>1, <1>2, <1>4, <1>10 DEF FilesIn
  <1>13. Head(q).type = "filesFinished" => ~Has(q, {"header"}) /\ FilesIn(q) = 0
    BY <1>1, <1>2, <1>4, <1>5, <1>10 DEF FilesIn
  <1>14. FilesIn(q) \in Nat
    <2>1. FilesIn(q) \in Int
      BY <1>1, <1>10 DEF FilesIn
    <2>2. QED  BY <2>1, <1>5, <1>9, <1>11, <1>12, <1>13
  <1>15. QED
    BY <1>1, <1>4, <1>6, <1>9, <1>11, <1>12, <1>13, <1>14 DEF rest

\* ... and one of which the next packet is sent.
LEMMA TransferSent ==
    ASSUME NEW S, NEW q \in Seq(S), NEW p \in S, InOrder(q), ~Has(q, {"filesFinished"}),
           p.type \in {"file", "filesFinished"}
    PROVE  /\ InOrder(q \o <<p>>)
           /\ FilesIn(q) \in Int
           /\ FilesIn(q \o <<p>>) = FilesIn(q) + (IF p.type = "file" THEN 1 ELSE 0)
           /\ Has(q \o <<p>>, {"header"}) <=> Has(q, {"header"})
           /\ Has(q, {"header"}) => (q \o <<p>>)[1] = q[1]
  <1> DEFINE longer == q \o <<p>>
  <1>1. /\ Len(longer) = Len(q) + 1 /\ Len(q) \in Nat
        /\ \A i \in 1 .. Len(q) : longer[i] = q[i]
        /\ longer[Len(q) + 1] = p
    BY SnocIs
  <1>2. /\ Has(longer, {"header"}) <=> Has(q, {"header"}) \/ p.type \in {"header"}
        /\ Has(longer, {"filesFinished"}) <=>
              Has(q, {"filesFinished"}) \/ p.type \in {"filesFinished"}
    BY HasSent
  <1> HIDE DEF longer
  <1>3. InOrder(longer)
    <2>1. SUFFICES ASSUME NEW i \in 1 .. Len(longer)
                   PROVE  /\ longer[i].type \in {"header", "file", "filesFinished"}
                          /\ longer[i].type = "header" => i = 1
                          /\ longer[i].type = "filesFinished" => i = Len(longer)
      BY DEF InOrder
    <2>2. CASE i \in 1 .. Len(q)
      BY <1>1, <2>2 DEF InOrder, Has
    <2>3. CASE i = Len(q) + 1
      BY <1>1, <2>3
    <2>4. QED  BY <1>1, <2>2, <2>3
  <1>4. Has(q, {"header"}) => 1 \in 1 .. Len(q)
    BY <1>1 DEF Has
  <1>5. /\ FilesIn(q) \in Int
        /\ FilesIn(longer) = FilesIn(q) + (IF p.type = "file" THEN 1 ELSE 0)
    <2>1. CASE p.type = "file"
      BY <1>1, <1>2, <2>1 DEF FilesIn, Ahead
    <2>2. CASE p.type = "filesFinished"
      BY <1>1, <1>2, <2>2 DEF FilesIn, Ahead
    <2>3. QED  BY <2>1, <2>2
  <1>6. Has(longer, {"header"}) <=> Has(q, {"header"})
    BY <1>2
  <1>7. QED  BY <1>1, <1>3, <1>4, <1>5, <1>6 DEF longer

-----------------------------------------------------------------------------
(* Every file that was announced to a client comes.                        *)

\* The files that a client was promised and has not read, where q is on its
\* way to it; ...
Owed(q, download) == IF Has(q, {"header"}) THEN q[1].count ELSE download.left

\* ... those that UpdateServer will send it; ...
ToSend(c) ==
    IF Serving(c) /\ server.at = "send" THEN fileCount + 1 - server.next ELSE 0

\* ... and when they are on their way or about to be.
Expecting(c) == Serving(c) \/ Has(toClient[c], {"filesFinished"})

\* No more files are owed than come.
Counted(c) ==
    /\ InOrder(toClient[c])
    /\ IF Has(toClient[c], {"header"}) THEN client[c].download.at = "header"
       ELSE client[c].download.at \in {"files", "complete"}
    /\ ToSend(c) >= 0
    /\ Owed(toClient[c], client[c].download) <= FilesIn(toClient[c]) + ToSend(c)

\* A client that is connected expects no file or all that were announced; one
\* that has closed the connection has read them all.
Delivery(c) ==
    /\ link[c] = "up" =>
          IF Expecting(c) THEN Counted(c)
          ELSE /\ ~Has(toClient[c], {"header", "file"})
               /\ Has(toServer[c], {"clientFileSend"}) =>
                     client[c].download.at = "header"
    /\ link[c] = "closed" =>
          client[c].download.at = "complete" /\ Only(toClient[c], {Disconnected})

\* What the parts of Turns say of a client that is served, or about to be.
LEMMA NothingElse ==
    ASSUME TypeOK, NEW c \in Client, Ends(c), OneTurn(c), Started(c) => Later(c),
           link[c] = "up", Has(toServer[c], {"clientFileSend"}),
           ~Has(toClient[c], {"header", "file"})
    PROVE  toClient[c] = <<>> /\ ~Expecting(c)
  <1>1. Later(c)
    BY DEF Started
  <1>2. Has(toServer[c], TurnPacket)
    BY DEF Has, TurnPacket
  <1>3. ~Has(toClient[c], TurnPacket) /\ ~Serving(c)
    BY <1>2 DEF OneTurn
  <1>4. ~Has(toClient[c], EndPacket)
    BY NoEnd DEF Ends
  <1>5. toClient[c] \in Seq(ClientPacket)
    BY DEF TypeOK
  <1>6. \A i \in 1 .. Len(toClient[c]) : FALSE
    <2>1. SUFFICES ASSUME NEW i \in 1 .. Len(toClient[c])
                   PROVE  FALSE
      OBVIOUS
    <2>2. toClient[c][i] \in ClientPacket
      BY <1>5, <2>1
    <2>3. toClient[c][i].type \notin {"header", "file"} \cup TurnPacket \cup EndPacket
      BY <1>3, <1>4, <2>1 DEF Has
    <2>4. QED
      BY <2>2, <2>3 DEF ClientPacket, TurnPacket, EndPacket, Disconnected, ConnectionLost,
         FilesFinished
  <1>7. toClient[c] = <<>>
    BY <1>5, <1>6
  <1>8. ~Has(toClient[c], {"filesFinished"})
    BY <1>7, HasNothing
  <1>9. QED  BY <1>3, <1>7, <1>8 DEF Expecting

\* What a client expects starts it.
LEMMA ExpectingStarted ==
    ASSUME NEW c \in Client
    PROVE  /\ Expecting(c) => Started(c)
           /\ Has(toServer[c], {"clientFileSend"}) => Started(c)
           /\ link[c] = "closed" => Started(c)
  <1>1. Has(toClient[c], {"filesFinished"}) => Has(toClient[c], {"header", "file", "filesFinished"})
    BY HasMore
  <1>2. QED  BY <1>1 DEF Expecting, Started

\* The numbers of files.
LEMMA OwedType ==
    ASSUME TypeOK, NEW c \in Client, InOrder(toClient[c])
    PROVE  /\ FilesIn(toClient[c]) \in Int /\ Owed(toClient[c], client[c].download) \in Int
           /\ ToSend(c) \in Int
  <1>1. Len(toClient[c]) \in Nat /\ client[c].download.left \in Int /\ fileCount \in Int
    BY DEF TypeOK, ClientState, Download
  <1>2. Has(toClient[c], {"header"}) => toClient[c][1].count \in Int
    <2>1. SUFFICES ASSUME NEW i \in 1 .. Len(toClient[c]), toClient[c][i].type \in {"header"}
                   PROVE  toClient[c][1].count \in Int
      BY DEF Has
    <2>2. i = 1
      BY <2>1 DEF InOrder
    <2>3. toClient[c][1] \in ClientPacket
      BY <2>1, <2>2 DEF TypeOK
    <2>4. QED  BY <2>1, <2>2, <2>3, ClientPacketFields
  <1>3. Serving(c) /\ server.at = "send" => server.next \in Int
    BY ServedClient DEF Serving
  <1>4. QED  BY <1>1, <1>2, <1>3 DEF FilesIn, Ahead, Owed, ToSend

\* Nothing changes for a client but what else may be sent to it.
LEMMA DeliveryKept ==
    ASSUME TypeOK, TypeOK', NEW c \in Client, Delivery(c), fileCount' >= fileCount,
           link'[c] = link[c], toClient'[c] = toClient[c],
           client'[c].download = client[c].download,
           Has(toServer'[c], {"clientFileSend"}) => Has(toServer[c], {"clientFileSend"}),
           Serving(c) \/ Serving(c)' => server' = server
    PROVE  Delivery(c)'
  <1>1. Serving(c)' <=> Serving(c)
    BY DEF Serving
  <1>2. Expecting(c)' <=> Expecting(c)
    BY <1>1 DEF Expecting
  <1>3. fileCount \in Int /\ fileCount' \in Int
    BY DEF TypeOK
  <1>4. ASSUME link[c] = "up", Counted(c)
        PROVE  Counted(c)'
    <2>1. ToSend(c)' >= ToSend(c) /\ ToSend(c) \in Int /\ ToSend(c)' \in Int
      <3>1. CASE Serving(c) /\ server.at = "send"
        <4>1. server' = server /\ server.next \in Int
          BY <3>1, ServedClient DEF Serving
        <4>2. QED  BY <1>1, <1>3, <3>1, <4>1 DEF ToSend
      <3>2. CASE ~(Serving(c) /\ server.at = "send")
        <4>1. ToSend(c) = 0
          BY <3>2 DEF ToSend
        <4>2. ToSend(c)' = 0
          BY <1>1, <3>2 DEF ToSend
        <4>3. QED  BY <4>1, <4>2
      <3>3. QED  BY <3>1, <3>2
    <2>2. FilesIn(toClient[c]) \in Int /\ Owed(toClient[c], client[c].download) \in Int
      BY <1>4, OwedType DEF Counted
    <2>3. Owed(toClient[c], client[c].download) <= FilesIn(toClient[c]) + ToSend(c)'
      BY <1>4, <2>1, <2>2 DEF Counted
    <2>4. ToSend(c)' >= 0
      BY <1>4, <2>1 DEF Counted
    <2>5. QED  BY <1>4, <2>3, <2>4 DEF Counted
  <1>5. QED  BY <1>2, <1>4 DEF Delivery

\* UpdateServer sends: a file less that it has yet to send is one more that is
\* on its way.
LEMMA DeliverySends ==
    ASSUME TypeOK, NEW c \in Client, OneTurn(c), Delivery(c), Serving(c), ServerSends
    PROVE  Delivery(c)'
  <1>1. /\ SendsOnly
        /\ server # Receiving /\ server.client = c
    BY SendNextIs, SentAllIs, WaitedIs DEF ServerSends, Serving
  <1>2. CASE link[c] # "up"
    <2>1. toClient'[c] = toClient[c]
      <3>1. CASE ServerSendNext
        BY <1>1, <1>2, <3>1, SendNextIs DEF SentToClientIs
      <3>2. CASE ServerSent
        BY <3>2, SentAllIs
      <3>3. CASE ServerWaited
        BY <1>1, <1>2, <3>3, WaitedIs DEF SentToClientIs
      <3>4. QED  BY <3>1, <3>2, <3>3 DEF ServerSends
    <2>2. QED  BY <1>1, <1>2, <2>1 DEF SendsOnly, Delivery
  <1>3. CASE link[c] = "up"
    <2>1. /\ InOrder(toClient[c]) /\ ~Has(toClient[c], {"filesFinished"})
          /\ toClient[c] \in Seq(ClientPacket)
      <3>1. Has(toClient[c], {"filesFinished"}) => Has(toClient[c], TurnPacket)
        BY DEF Has, TurnPacket
      <3>2. QED  BY <1>3, <3>1 DEF Delivery, Expecting, Counted, OneTurn, TypeOK
    <2> DEFINE download == client[c].download
    <2>2. /\ Owed(toClient[c], download) <= FilesIn(toClient[c]) + ToSend(c)
          /\ ToSend(c) >= 0
          /\ IF Has(toClient[c], {"header"}) THEN download.at = "header"
             ELSE download.at \in {"files", "complete"}
          /\ FilesIn(toClient[c]) \in Int /\ Owed(toClient[c], download) \in Int
          /\ fileCount \in Int
      BY <1>3, <2>1, OwedType DEF Delivery, Expecting, Counted, TypeOK
    <2>3. UNCHANGED <<client, link, toServer, fileCount>>
      BY <1>1 DEF SendsOnly
    <2>4. ASSUME NEW p \in ClientPacket, SentToClientIs(c, p),
                 p.type \in {"file", "filesFinished"}
          PROVE  /\ InOrder(toClient'[c])
                 /\ FilesIn(toClient'[c]) =
                       FilesIn(toClient[c]) + (IF p.type = "file" THEN 1 ELSE 0)
                 /\ Owed(toClient'[c], download) = Owed(toClient[c], download)
                 /\ Has(toClient'[c], {"header"}) <=> Has(toClient[c], {"header"})
                 /\ p.type = "filesFinished" => Has(toClient'[c], {"filesFinished"})
      <3>1. toClient'[c] = toClient[c] \o <<p>>
        BY <1>3, <2>4 DEF SentToClientIs
      <3>2. Has(toClient[c] \o <<p>>, {"filesFinished"}) <=>
               Has(toClient[c], {"filesFinished"}) \/ p.type \in {"filesFinished"}
        BY <2>1, HasSent
      <3>3. QED  BY <2>1, <2>4, <3>1, <3>2, TransferSent DEF Owed
    <2> HIDE DEF download
    <2>5. CASE ServerSendNext
      <3>1. /\ SentToClientIs(c, File(server.set, Slot(server.next)))
            /\ server.at = "send" /\ server.next <= fileCount /\ server.next \in Int
            /\ server' = [server EXCEPT !.next = @ + 1]
        BY <1>1, <2>5, SendNextIs, ServedClient
      <3>2. /\ server' # Receiving /\ server'.client = c /\ server'.at = "send"
            /\ server'.next = server.next + 1
        BY <1>1, <3>1 DEF TypeOK, ServerState, Receiving
      <3>3. ToSend(c)' = ToSend(c) - 1 /\ ToSend(c)' >= 0 /\ Expecting(c)' /\ ToSend(c) \in Int
        BY <1>1, <2>2, <2>3, <3>1, <3>2 DEF ToSend, Serving, Expecting
      <3>4. /\ File(server.set, Slot(server.next)) \in ClientPacket
            /\ File(server.set, Slot(server.next)).type = "file"
        BY <1>1, <3>1, FileSent
      <3>5. /\ InOrder(toClient'[c])
            /\ FilesIn(toClient'[c]) = FilesIn(toClient[c]) + 1
            /\ Owed(toClient'[c], download) = Owed(toClient[c], download)
            /\ Has(toClient'[c], {"header"}) <=> Has(toClient[c], {"header"})
        BY <2>4, <3>1, <3>4
      <3>6. Owed(toClient'[c], download) <= FilesIn(toClient'[c]) + ToSend(c)'
        BY <2>2, <3>3, <3>5
      <3>7. QED
        BY <1>3, <2>2, <2>3, <3>3, <3>5, <3>6 DEF Delivery, Counted, download
    <2>6. CASE ServerSent
      <3>1. /\ server.at = "send" /\ server.next > fileCount /\ server.next \in Int
            /\ server' = [at |-> "wait", client |-> c] /\ toClient' = toClient
        BY <1>1, <2>6, SentAllIs, ServedClient
      <3>2. ToSend(c) = 0 /\ ToSend(c)' = 0 /\ Expecting(c)'
        BY <1>1, <2>2, <3>1 DEF ToSend, Serving, Expecting, Receiving
      <3>3. QED
        BY <1>3, <2>1, <2>2, <2>3, <3>1, <3>2 DEF Delivery, Counted, download
    <2>7. CASE ServerWaited
      <3>1. /\ SentToClientIs(c, FilesFinished) /\ server.at = "wait"
            /\ server' = Receiving
        BY <1>1, <2>7, WaitedIs
      <3>2. ToSend(c) = 0 /\ ToSend(c)' = 0
        BY <3>1 DEF ToSend, Serving
      <3>3. FilesFinished \in ClientPacket /\ FilesFinished.type = "filesFinished"
        BY SentTypes
      <3>4. /\ InOrder(toClient'[c])
            /\ FilesIn(toClient'[c]) = FilesIn(toClient[c]) + 0
            /\ Owed(toClient'[c], download) = Owed(toClient[c], download)
            /\ Has(toClient'[c], {"header"}) <=> Has(toClient[c], {"header"})
            /\ Has(toClient'[c], {"filesFinished"})
        BY <2>4, <3>1, <3>3
      <3>5. Owed(toClient'[c], download) <= FilesIn(toClient'[c]) + ToSend(c)'
        BY <2>2, <3>2, <3>4
      <3>6. QED
        BY <1>3, <2>2, <2>3, <3>2, <3>4, <3>5 DEF Delivery, Counted, Expecting, download
    <2>8. QED  BY <2>5, <2>6, <2>7 DEF ServerSends
  <1>4. QED  BY <1>2, <1>3

\* Nothing is expected before and after a step.
LEMMA NothingExpected ==
    ASSUME NEW c \in Client, link'[c] # "closed",
           link'[c] = "up" =>
               /\ ~Serving(c)' /\ ~Has(toClient'[c], {"filesFinished"})
               /\ ~Has(toClient'[c], {"header", "file"})
               /\ Has(toServer'[c], {"clientFileSend"}) =>
                     client'[c].download.at = "header"
    PROVE  Delivery(c)'
  BY DEF Delivery, Expecting

\* UpdateServer takes a packet of c: at ID_CLIENTFILESEND it owes what it will
\* send.
LEMMA DeliveryServed ==
    ASSUME TypeOK, TypeOK', NEW c \in Client, Ends(c), OneTurn(c), Started(c) => Later(c),
           Delivery(c), ServerServes(c)
    PROVE  Delivery(c)'
  <1>1. CASE ServerFileStructure(c) \/ ServerSendFile(c) \/ ServerClosed(c)
    <2>1. PICK type : Served(c, type) /\ toClient'[c] = toClient[c] /\ server' = server
      BY <1>1, FileStructureIs, SendFileIs, ClosedIs
    <2>2. Has(toServer'[c], {"clientFileSend"}) => Has(toServer[c], {"clientFileSend"})
      BY <2>1, ServerTook
    <2>3. UNCHANGED <<client, link, fileCount>> /\ fileCount \in Int
      BY <2>1 DEF Served, TypeOK
    <2>4. fileCount' >= fileCount
      BY <2>3
    <2>5. QED  BY <2>1, <2>2, <2>3, <2>4, DeliveryKept
  <1>2. CASE ServerNewConnection(c)
    <2>1. /\ Served(c, "new") /\ SentToClientIs(c, SendFile(nextSet))
          /\ server' = server
      BY <1>2, NewConnectionIs
    <2>2. /\ Has(toServer[c], EarlyPacket)
          /\ Has(toServer'[c], {"clientFileSend"}) => Has(toServer[c], {"clientFileSend"})
      <3>1. "new" \in EarlyPacket
        BY DEF EarlyPacket
      <3>2. QED  BY <2>1, <3>1, ServerTook
    <2>3. ~Expecting(c) /\ link[c] # "closed"
      BY <2>2, ExpectingStarted DEF Later
    <2>4. \A types : Has(toClient'[c], types) =>
             Has(toClient[c], types) \/ "sendFile" \in types
      BY <2>1, SentTypes, ToClientAfter
    <2>5. ~Serving(c)' /\ UNCHANGED <<client, link>>
      BY <2>1, <2>3 DEF Served, Expecting, Serving
    <2>6. QED  BY <2>2, <2>3, <2>4, <2>5, NothingExpected DEF Delivery, Expecting
  <1>3. CASE ServerFileSend(c)
    <2>1. /\ Served(c, "clientFileSend") /\ SentToClientIs(c, Header(FirstSet, fileCount))
          /\ server' = [at |-> "send", client |-> c, set |-> FirstSet, next |-> 1]
          /\ UNCHANGED <<client, link, fileCount>>
      BY <1>3, FileSendIs DEF Served
    <2>2. Has(toServer[c], {"clientFileSend"})
      BY <2>1, ServerTook
    <2>3. CASE link[c] = "up"
      <3>1. /\ ~Expecting(c) /\ toClient[c] = <<>>
            /\ client[c].download.at = "header"
        BY <2>2, <2>3, NothingElse, ExpectingStarted DEF Delivery, Later, OneTurn, Expecting,
           Counted, Has, TurnPacket
      <3> DEFINE packet == Header(FirstSet, fileCount)
                 q == <<packet>>
      <3>2. packet.type = "header" /\ packet.count = fileCount /\ fileCount \in Nat
        BY DEF Header, TypeOK
      <3>3. toClient'[c] = q
        BY <2>1, <2>3, <3>1 DEF SentToClientIs
      <3>4. Len(q) = 1 /\ q[1] = packet
        OBVIOUS
      <3> HIDE DEF packet, q
      <3>5. InOrder(q) /\ Has(q, {"header"}) /\ ~Has(q, {"filesFinished"})
        BY <3>2, <3>4 DEF InOrder, Has
      <3>6. FilesIn(q) = 0 /\ Owed(q, client[c].download) = fileCount
        BY <3>2, <3>4, <3>5 DEF FilesIn, Ahead, Owed
      <3>7. ToSend(c)' = fileCount /\ Expecting(c)'
        BY <2>1, <3>2 DEF ToSend, Serving, Expecting, Receiving
      <3>8. Counted(c)'
        BY <2>1, <3>1, <3>2, <3>3, <3>5, <3>6, <3>7 DEF Counted
      <3>9. QED  BY <2>1, <2>3, <3>7, <3>8 DEF Delivery
    <2>4. CASE link[c] # "up"
      BY <2>1, <2>4 DEF Delivery, SentToClientIs
    <2>5. QED  BY <2>3, <2>4
  <1>4. QED  BY <1>1, <1>2, <1>3 DEF ServerServes

\* A step of the thread of c.
LEMMA DeliveryReader ==
    ASSUME TypeOK, NEW c \in Client, Started(c) => Later(c), Delivery(c), ReaderThread(c)
    PROVE  Delivery(c)'
  <1>1. /\ ReaderOnly /\ Busy(c)
        /\ \/ toClient'[c] = toClient[c]
           \/ SentToClientIs(c, CanFilesBeSent(reader[c].toDelete))
    BY ReadIs, InsertIs, ReplyIs DEF ReaderThread, Busy
  <1>2. ~Expecting(c) /\ link[c] # "closed"
    BY <1>1, ExpectingStarted DEF Later
  <1>3. \A types : Has(toClient'[c], types) =>
           Has(toClient[c], types) \/ "canFilesBeSent" \in types
    BY <1>1, SentTypes, ToClientAfter
  <1>4. ~Serving(c)' /\ UNCHANGED <<client, link, toServer>>
    BY <1>1, <1>2 DEF ReaderOnly, Expecting, Serving
  <1>5. QED  BY <1>2, <1>3, <1>4, NothingExpected DEF Delivery, Expecting

LEMMA AwaitingIs ==
    ASSUME NEW download \in Download, NEW n
    PROVE  /\ Awaiting(download, n).left = n
           /\ Awaiting(download, n).at \in {"files", "complete"}
  BY DEF Awaiting, Download

\* The client takes a packet of a transfer, or the end of its connection.
LEMMA DeliveryTook ==
    ASSUME TypeOK, NEW c \in Client, Ends(c), OneTurn(c), SetsZero(c), Delivery(c),
           link[c] = "up", Expecting(c),
           ClientHeader(c) \/ ClientFile(c) \/ ClientFilesFinished(c)
    PROVE  Delivery(c)'
  <1> DEFINE q == toClient[c]
             download == client[c].download
  <1>1. /\ q \in Seq(ClientPacket) /\ q # <<>> /\ client[c].at = "run"
        /\ Head(q).type \in {"header", "file", "filesFinished"}
        /\ UNCHANGED <<server, fileCount>>
    BY HeaderIs, FileIs, FilesFinishedIs DEF Took, TypeOK
  <1>2. /\ InOrder(q) /\ ToSend(c) >= 0
        /\ IF Has(q, {"header"}) THEN download.at = "header"
           ELSE download.at \in {"files", "complete"}
        /\ Owed(q, download) <= FilesIn(q) + ToSend(c)
    BY DEF Delivery, Counted
  <1>3. /\ FilesIn(q) \in Int /\ Owed(q, download) \in Int /\ ToSend(c) \in Int
        /\ download \in Download
    BY <1>2, OwedType DEF TypeOK, ClientState
  <1> DEFINE rest == Tail(q)
  <1>4. /\ InOrder(rest) /\ ~Has(rest, {"header"}) /\ FilesIn(rest) \in Nat
        /\ Head(q) = q[1]
        /\ Head(q).type = "header" => Has(q, {"header"}) /\ FilesIn(rest) = FilesIn(q)
        /\ Head(q).type = "file" => ~Has(q, {"header"}) /\ FilesIn(rest) = FilesIn(q) - 1
        /\ Head(q).type = "filesFinished" =>
              rest = <<>> /\ ~Has(q, {"header"}) /\ FilesIn(q) = 0
    BY <1>1, <1>2, TransferTail
  <1>5. ToSend(c)' = ToSend(c) /\ (Serving(c)' <=> Serving(c))
    BY <1>1 DEF ToSend, Serving
  <1>6. /\ Has(q, {"filesFinished"}) <=>
              Head(q).type \in {"filesFinished"} \/ Has(rest, {"filesFinished"})
    BY <1>1, HasTail
  <1> HIDE DEF rest
  <1>7. ASSUME toClient'[c] = rest, link'[c] = link[c], Head(q).type # "filesFinished",
               client'[c].download.at \in {"files", "complete"},
               client'[c].download.left <= FilesIn(rest) + ToSend(c)
        PROVE  Delivery(c)'
    <2>1. Expecting(c)'
      BY <1>5, <1>6, <1>7 DEF Expecting
    <2>2. Owed(rest, client'[c].download) = client'[c].download.left
      BY <1>4 DEF Owed
    <2>3. Counted(c)'
      BY <1>2, <1>4, <1>5, <1>7, <2>2 DEF Counted
    <2>4. QED  BY <1>7, <2>1, <2>3 DEF Delivery
  <1>8. CASE ClientHeader(c)
    <2>1. /\ Head(q).type = "header" /\ toClient'[c] = rest /\ link' = link
          /\ client'[c].download =
                IF download.at = "header" /\ Head(q).set = download.set
                THEN Awaiting(download, Head(q).count) ELSE download
      BY <1>8, HeaderIs DEF Took, rest
    <2>2. Has(q, {"header"}) /\ download.at = "header" /\ Owed(q, download) = Head(q).count
      BY <1>2, <1>4, <2>1 DEF Owed
    <2>3. Head(q).set = download.set
      <3>1. /\ Only(q, OfFirstSet)
            /\ Has(q, {"header", "file"}) => download.set = FirstSet
        BY <1>1 DEF SetsZero
      <3>2. Has(q, {"header", "file"}) /\ 1 \in 1 .. Len(q)
        BY <2>2 DEF Has
      <3>3. Head(q).set = FirstSet
        BY <1>4, <2>1, <3>1, <3>2 DEF Only, OfFirstSet
      <3>4. QED  BY <3>1, <3>2, <3>3
    <2>4. /\ client'[c].download.at \in {"files", "complete"}
          /\ client'[c].download.left = Head(q).count
      BY <1>3, <2>1, <2>2, <2>3, AwaitingIs
    <2>5. QED  BY <1>2, <1>4, <1>7, <2>1, <2>2, <2>4
  <1>9. CASE ClientFile(c)
    <2>1. /\ Head(q).type = "file" /\ toClient'[c] = rest /\ link' = link
          /\ IF download.at = "files" /\ Head(q).set = download.set
             THEN client'[c].download = Awaiting(download, download.left - 1)
             ELSE client'[c] = client[c]
      BY <1>9, FileIs DEF Took, rest
    <2>2. ~Has(q, {"header"}) /\ Owed(q, download) = download.left
      BY <1>4, <2>1 DEF Owed
    <2>3. Head(q).set = download.set
      <3>1. /\ Only(q, OfFirstSet)
            /\ Has(q, {"header", "file"}) => download.set = FirstSet
        BY <1>1 DEF SetsZero
      <3>2. 1 \in 1 .. Len(q)
        BY <1>1
      <3>3. Has(q, {"header", "file"})
        BY <1>4, <2>1, <3>2 DEF Has
      <3>4. Head(q).set = FirstSet
        BY <1>4, <2>1, <3>1, <3>2 DEF Only, OfFirstSet
      <3>5. QED  BY <3>1, <3>3, <3>4
    <2>4. CASE download.at = "files"
      <3>1. /\ client'[c].download.at \in {"files", "complete"}
            /\ client'[c].download.left = download.left - 1
        BY <1>3, <2>1, <2>3, <2>4, AwaitingIs
      <3>2. QED  BY <1>2, <1>3, <1>4, <1>7, <2>1, <2>2, <3>1
    <2>5. CASE download.at = "complete"
      <3>1. client'[c].download = download /\ download.left = 0
        BY <1>3, <2>1, <2>5 DEF Download
      <3>2. QED  BY <1>2, <1>3, <1>4, <1>7, <2>1, <2>5, <3>1
    <2>6. QED  BY <1>2, <2>2, <2>4, <2>5
  <1>10. CASE ClientFilesFinished(c)
    <2>1. /\ Head(q).type = "filesFinished" /\ link'[c] = "closed"
          /\ toClient'[c] = rest \o <<Disconnected>>
          /\ client'[c].download = download
      BY <1>10, FilesFinishedIs DEF Took, rest
    <2>2. toClient'[c] = <<Disconnected>>
      <3>1. rest = <<>> /\ <<>> \o <<Disconnected>> = <<Disconnected>>
        BY <1>4, <2>1
      <3>2. QED  BY <2>1, <3>1
    <2>3. Has(q, TurnPacket)
      <3>1. "filesFinished" \in TurnPacket
        BY DEF TurnPacket
      <3>2. QED  BY <1>1, <2>1, <3>1, HasTail
    <2>4. ToSend(c) = 0
      BY <2>3 DEF OneTurn, ToSend
    <2>5. download.left <= 0 /\ download.at \in {"files", "complete"}
      BY <1>2, <1>4, <2>1, <2>4 DEF Owed
    <2>6. download.at = "complete"
      BY <1>3, <2>5 DEF Download
    <2>7. QED  BY <2>1, <2>2, <2>6 DEF Delivery, Only
  <1>11. QED  BY <1>8, <1>9, <1>10

\* A step of the message loop of c.
LEMMA DeliveryLoop ==
    ASSUME TypeOK, TypeOK', NEW c \in Client, Ends(c), OneTurn(c), Started(c) => Later(c),
           SetsZero(c), Delivery(c), ClientLoop(c)
    PROVE  Delivery(c)'
  <1> DEFINE rest == Tail(toClient[c])
  <1>1. PICK type : Took(c, type)
    BY ClientSendFileIs, CanFilesBeSentIs, HeaderIs, FileIs, FilesFinishedIs, DisconnectedIs,
       ConnectionLostIs DEF ClientLoop
  <1>2. /\ UNCHANGED <<server, fileCount>> /\ (Serving(c)' <=> Serving(c))
    BY <1>1 DEF Took, Serving
  <1> HIDE DEF rest
  <1>3. CASE ClientSendFile(c) \/ ClientCanFilesBeSent(c)
    <2>1. /\ Took(c, "sendFile") \/ Took(c, "canFilesBeSent")
          /\ toClient'[c] = rest /\ link' = link
      BY <1>3, ClientSendFileIs, CanFilesBeSentIs DEF rest
    <2>2. /\ Has(toClient[c], EarlyPacket)
          /\ \A types : Has(rest, types) => Has(toClient[c], types)
      <3>1. "sendFile" \in EarlyPacket /\ "canFilesBeSent" \in EarlyPacket
        BY DEF EarlyPacket
      <3>2. QED  BY <2>1, <3>1, ClientTook DEF rest
    <2>3. ~Expecting(c) /\ link[c] # "closed" /\ ~Has(toServer[c], {"clientFileSend"})
      BY <2>2, ExpectingStarted DEF Later
    <2>4. link[c] = "up" /\ Has(toServer'[c], {"clientFileSend"}) =>
             client'[c].download.at = "header"
      <3>1. CASE ClientSendFile(c)
        BY <2>3, <3>1, UploadAfter
      <3>2. CASE ClientCanFilesBeSent(c)
        BY <3>2, CanFilesBeSentIs
      <3>3. QED  BY <1>3, <3>1, <3>2
    <2>5. QED
      BY <1>2, <2>1, <2>2, <2>3, <2>4, NothingExpected DEF Delivery, Expecting
  <1>4. CASE ClientHeader(c) \/ ClientFile(c) \/ ClientFilesFinished(c)
    <2>1. PICK k \in {"header", "file", "filesFinished"} : Took(c, k)
      BY <1>4, HeaderIs, FileIs, FilesFinishedIs
    <2>2. /\ Has(toClient[c], {k})
          /\ toClient[c] # <<>> /\ Head(toClient[c]).type = k
          /\ toClient[c] \in Seq(ClientPacket)
      <3>1. \A types : Has(toClient[c], types) <=>
               k \in types \/ Has(Tail(toClient[c]), types)
        BY <2>1, ClientTook
      <3>2. k \in {k}
        OBVIOUS
      <3>3. Has(toClient[c], {k})
        BY <3>1, <3>2
      <3>4. QED  BY <2>1, <3>3 DEF Took, TypeOK
    <2>3. CASE link[c] = "up"
      <3>1. Expecting(c)
        BY <2>2, <2>3, HasMore DEF Delivery, Expecting
      <3>2. QED  BY <1>4, <2>3, <3>1, DeliveryTook
    <2>4. CASE link[c] = "closed"
      <3>1. 1 \in 1 .. Len(toClient[c]) /\ toClient[c][1].type = k
        BY <2>2
      <3>2. toClient[c][1] = Disconnected
        BY <2>4, <3>1 DEF Delivery, Only
      <3>3. QED  BY <3>1, <3>2 DEF Disconnected
    <2>5. CASE link[c] \notin {"up", "closed"}
      <3>1. link'[c] = link[c]
        BY <1>4, <2>5, HeaderIs, FileIs, FilesFinishedIs
      <3>2. QED  BY <2>5, <3>1 DEF Delivery
    <2>6. QED  BY <2>3, <2>4, <2>5
  <1>5. CASE ClientDisconnected(c)
    <2>1. /\ Took(c, "disconnected") /\ toClient'[c] = <<>> /\ link' = link
          /\ client'[c].download = client[c].download
      BY <1>5, DisconnectedIs
    <2>2. Has(toClient[c], {"disconnected"})
      BY <2>1, ClientTook
    <2>3. link[c] = "closed"
      BY <2>2 DEF Ends
    <2>4. QED  BY <2>1, <2>3 DEF Delivery, Only
  <1>6. CASE ClientConnectionLost(c)
    <2>1. Took(c, "lost") /\ link' = link
      BY <1>6, ConnectionLostIs
    <2>2. Has(toClient[c], {"lost"})
      BY <2>1, ClientTook
    <2>3. link[c] = "lost"
      BY <2>2 DEF Ends
    <2>4. QED  BY <2>1, <2>3 DEF Delivery
  <1>7. QED  BY <1>3, <1>4, <1>5, <1>6 DEF ClientLoop

\* Connections come, break and are refused; processes begin and end.
LEMMA DeliveryOutside ==
    ASSUME TypeOK, TypeOK', NEW c \in Client, Opening(c), Ends(c), Delivery(c),
           ClientStart(c) \/ ClientConnected(c) \/ GiveUp(c) \/ Environment(c)
    PROVE  Delivery(c)'
  <1>1. CASE ClientStart(c) \/ ClientConnected(c)
    <2>1. /\ ServerKept /\ UNCHANGED <<link, toServer, toClient>>
          /\ client'[c].download = client[c].download
      BY <1>1, StartIs, ConnectedIs
    <2>2. fileCount' >= fileCount
      BY <2>1 DEF ServerKept, TypeOK
    <2>3. QED  BY <2>1, <2>2, DeliveryKept DEF ServerKept
  <1>2. CASE GiveUp(c) \/ ClientDies(c)
    <2>1. /\ toClient'[c] = <<>> /\ client'[c].download = client[c].download
          /\ \/ link'[c] = "lost"
             \/ link[c] # "up" /\ link'[c] = link[c]
      BY <1>2, ProcessEndsIs
    <2>2. QED  BY <2>1 DEF Delivery, Only
  <1>3. CASE LinkLost(c) \/ Refuse(c)
    <2>1. link'[c] \in {"lost", "refused"}
      BY <1>3, LinkLostIs, RefuseIs
    <2>2. QED  BY <2>1 DEF Delivery
  <1>4. CASE Accept(c)
    <2>1. /\ ServerKept /\ UNCHANGED <<client, toClient>>
          /\ link[c] = "none" /\ link'[c] = "up"
          /\ toServer'[c] = Append(toServer[c], NewConnection)
      BY <1>4, AcceptIs
    <2>2. /\ toServer'[c] = <<NewConnection>> /\ toClient'[c] = <<>> /\ ~Serving(c)
      <3>1. toServer[c] = <<>> /\ toClient[c] = <<>> /\ ~Serving(c)
        BY <2>1 DEF Opening, Ends
      <3>2. QED  BY <2>1, <3>1
    <2>3. ~Has(<<NewConnection>>, {"clientFileSend"})
      BY DEF Has, NewConnection
    <2>4. ~Serving(c)'
      BY <2>1, <2>2 DEF ServerKept, Serving
    <2>5. QED  BY <2>1, <2>2, <2>3, <2>4, HasNothing, NothingExpected
  <1>5. QED  BY <1>1, <1>2, <1>3, <1>4 DEF Environment

LEMMA DeliveryStep ==
    ASSUME TypeOK, TypeOK', NEW c \in Client, Opening(c), Ends(c), OneTurn(c),
           Started(c) => Later(c), SetsZero(c), Delivery(c), [Next]_vars,
           fileCount' >= fileCount
    PROVE  Delivery(c)'
  <1>1. CASE Kept(c)
    BY <1>1, DeliveryKept DEF Kept, Untouched
  <1>2. CASE Serving(c) /\ ServerSends
    BY <1>2, DeliverySends
  <1>3. CASE ClientStep(c)
    BY <1>3, DeliveryServed, DeliveryReader, DeliveryLoop, DeliveryOutside
    DEF ClientStep, ClientProcess
  <1>4. QED  BY <1>1, <1>2, <1>3, StepOf

\* UpdateServer's list does not lose slots.
NeverShrinks == [][fileCount' >= fileCount]_vars

\* Every client's delivery is in order.
Deliveries == \A c \in Client : Delivery(c)

LEMMA DeliveriesHold == Spec /\ NeverShrinks => []Deliveries
  <1>1. Init => Deliveries
    <2>1. SUFFICES ASSUME Init, NEW c \in Client
                   PROVE  Delivery(c)
      BY DEF Deliveries
    <2>2. link[c] = "none"
      BY <2>1 DEF Init
    <2>3. QED  BY <2>2 DEF Delivery
  <1>2. /\ TypeOK /\ TypeOK' /\ UploadFirst /\ Turns /\ Deliveries /\ [Next]_vars
        /\ [fileCount' >= fileCount]_vars
        => Deliveries'
    <2>1. SUFFICES ASSUME TypeOK, TypeOK', UploadFirst, Turns, Deliveries, [Next]_vars,
                          [fileCount' >= fileCount]_vars, NEW c \in Client
                   PROVE  Delivery(c)'
      BY DEF Deliveries
    <2>2. fileCount' >= fileCount
      BY <2>1 DEF vars, listVars, TypeOK
    <2>3. QED  BY <2>1, <2>2, DeliveryStep DEF UploadFirst, Turns, Deliveries
  <1>3. QED
    BY <1>1, <1>2, TypeCorrect, UploadFirstHolds, TurnsHold, PTL DEF Spec, NeverShrinks

\* A client that was told that the files are finished has read as many as were
\* announced to it, whenever the list does not shrink while it is sent.
THEOREM FinishedAfterWholeSetHolds == Spec /\ NeverShrinks => []FinishedAfterWholeSet
  <1>1. Deliveries => FinishedAfterWholeSet
    BY DEF Deliveries, Delivery, FinishedAfterWholeSet
  <1>2. QED  BY <1>1, DeliveriesHold, PTL

-----------------------------------------------------------------------------
(* Threads that insert one after the other.                                *)

\* The thread of c has stored a file and not yet the size of the list.
Inserting(c) == reader[c].at \in {"inserted", "counted"}

\* No two threads do.
Alone == \A c, d \in Client : Inserting(c) /\ Inserting(d) => c = d

\* The size that a thread has read is still the size of the list.
CountsTrue == \A c \in Client : reader[c].at = "counted" => reader[c].count = fileCount

\* Who changes the list, or its own place in it.
LEMMA ListStep ==
    ASSUME TypeOK, [Next]_vars
    PROVE  \/ /\ UNCHANGED <<fileList, fileCount>>
              /\ \A d \in Client : reader'[d].at \in {"inserted", "counted"} =>
                    reader'[d] = reader[d]
           \/ \E c \in Client : ReaderAdd(c) \/ ReaderLoad(c) \/ ReaderStore(c)
  <1>1. CASE UNCHANGED vars
    BY <1>1 DEF vars, listVars
  <1>2. CASE ServerSends
    <2>1. SendsOnly
      BY <1>2, SendNextIs, SentAllIs, WaitedIs DEF ServerSends
    <2>2. QED  BY <2>1 DEF SendsOnly
  <1>3. ASSUME NEW c \in Client, ServerServes(c)
        PROVE  /\ UNCHANGED <<fileList, fileCount>>
               /\ \A d \in Client : reader'[d].at \in {"inserted", "counted"} =>
                     reader'[d] = reader[d]
    <2>1. UNCHANGED <<fileList, fileCount>>
      BY <1>3 DEF ServerServes, ServerNewConnection, ServerFileStructure, ServerSendFile,
         ServerFileSend, ServerClosed, ServerReceives, listVars
    <2>2. \/ reader' = reader
          \/ reader' = [reader EXCEPT ![c] = [IdleReader EXCEPT !.at = "read"]]
      BY <1>3 DEF ServerServes, ServerNewConnection, ServerFileStructure, ServerSendFile,
         ServerFileSend, ServerClosed
    <2>3. QED  BY <2>1, <2>2, Domains DEF IdleReader
  <1>4. ASSUME NEW c \in Client, ReaderRead(c) \/ ReaderReply(c)
        PROVE  /\ UNCHANGED <<fileList, fileCount>>
               /\ \A d \in Client : reader'[d].at \in {"inserted", "counted"} =>
                     reader'[d] = reader[d]
    <2>1. UNCHANGED <<fileList, fileCount>> /\ reader'[c].at \in {"add", "idle"}
      BY <1>4, ReadIs, ReplyIs DEF IdleReader
    <2>2. \A d \in Client : d # c => reader'[d] = reader[d]
      BY <1>4, Domains DEF ReaderRead, ReaderReply
    <2>3. QED  BY <2>1, <2>2
  <1>5. ASSUME NEW c \in Client, ClientProcess(c) \/ Environment(c)
        PROVE  UNCHANGED <<fileList, fileCount, reader>>
    <2>1. CASE ClientLoop(c)
      BY <2>1 DEF ClientLoop, ClientSendFile, ClientCanFilesBeSent, ClientHeader,
         ClientFile, ClientFilesFinished, ClientDisconnected, ClientConnectionLost,
         ClientReceives, listVars
    <2>2. CASE ClientStart(c) \/ ClientConnected(c) \/ GiveUp(c) \/ Environment(c)
      BY <2>2, AcceptIs, RefuseIs, LinkLostIs, ProcessEndsIs, StartIs, ConnectedIs
      DEF Environment, ServerKept
    <2>3. QED  BY <1>5, <2>1, <2>2 DEF ClientProcess
  <1>6. QED  BY <1>1, <1>2, <1>3, <1>4, <1>5 DEF Next, ReaderThread

\* The three steps of an insertion.
LEMMA AddIs ==
    ASSUME TypeOK, TypeOK', NEW c \in Client, ReaderAdd(c)
    PROVE  /\ reader[c].at = "add" /\ fileCount' = fileCount
           /\ \A d \in Client : d # c => reader'[d] = reader[d]
           /\ \E p \in reader[c].toAdd :
                 /\ reader'[c].toAdd = reader[c].toAdd \ {p}
                 /\ \/ /\ serverDisk[p] = Absent
                          \/ \E i \in 1 .. fileCount : Slot(i) = <<p, serverDisk[p]>>
                       /\ reader'[c].at = "add" /\ fileList' = fileList
                    \/ /\ reader'[c].at = "inserted"
                       /\ Slot(fileCount + 1)' = <<p, serverDisk[p]>>
           /\ \A i \in 1 .. fileCount : Slot(i)' = Slot(i)
  <1> DEFINE slot == fileCount + 1
             last == IF slot > Len(fileList) THEN slot ELSE Len(fileList)
  <1>1. /\ reader[c] \in ReaderState /\ DOMAIN reader = Client
        /\ fileCount \in Nat /\ Len(fileList) \in Nat
        /\ Len(fileList') \in Nat /\ DOMAIN fileList' = 1 .. Len(fileList')
    BY DEF TypeOK
  <1>2. PICK p \in reader[c].toAdd :
           IF serverDisk[p] = Absent \/ \E i \in 1 .. fileCount : Slot(i) = <<p, serverDisk[p]>>
           THEN /\ reader' = [reader EXCEPT ![c].toAdd = @ \ {p}]
                /\ UNCHANGED fileList
           ELSE /\ reader' = [reader EXCEPT ![c].toAdd = @ \ {p}, ![c].at = "inserted"]
                /\ fileList' = [i \in 1 .. last |->
                                  IF i = slot THEN <<p, serverDisk[p]>> ELSE Slot(i)]
    BY DEF ReaderAdd
  <1>3. reader[c].at = "add" /\ fileCount' = fileCount
    BY DEF ReaderAdd, ReaderStep
  <1>4. /\ \A d \in Client : d # c => reader'[d] = reader[d]
        /\ reader'[c].toAdd = reader[c].toAdd \ {p}
    BY <1>1, <1>2 DEF ReaderState
  <1> DEFINE there == serverDisk[p] = Absent
                     \/ \E i \in 1 .. fileCount : Slot(i) = <<p, serverDisk[p]>>
  <1>5. CASE there
    <2>1. reader' = [reader EXCEPT ![c].toAdd = @ \ {p}] /\ fileList' = fileList
      BY <1>2, <1>5
    <2>2. reader'[c].at = "add"
      BY <1>1, <1>3, <2>1 DEF ReaderState
    <2>3. \A i \in 1 .. fileCount : Slot(i)' = Slot(i)
      BY <2>1 DEF Slot
    <2>4. QED  BY <1>3, <1>4, <1>5, <2>1, <2>2, <2>3
  <1>6. CASE ~there
    <2> DEFINE entry == <<p, serverDisk[p]>>
    <2> HIDE DEF entry
    <2>1. /\ reader' = [reader EXCEPT ![c].toAdd = @ \ {p}, ![c].at = "inserted"]
          /\ fileList' = [i \in 1 .. last |-> IF i = slot THEN entry ELSE Slot(i)]
      BY <1>2, <1>6 DEF entry
    <2>2. reader'[c].at = "inserted"
      BY <1>1, <2>1 DEF ReaderState
    <2>3. last \in Nat /\ slot \in 1 .. last /\ \A i \in 1 .. fileCount : i \in 1 .. last /\ i # slot
      BY <1>1
    <2> HIDE DEF last
    <2>4. Len(fileList') = last
      <3>1. DOMAIN fileList' = 1 .. last
        BY <2>1
      <3>2. last \in 1 .. last /\ last \in 1 .. Len(fileList')
        BY <1>1, <2>3, <3>1
      <3>3. Len(fileList') \in 1 .. Len(fileList')
        BY <1>1, <3>2
      <3>4. Len(fileList') \in 1 .. last
        BY <1>1, <3>1, <3>3
      <3>5. last <= Len(fileList') /\ Len(fileList') <= last
            /\ last \in Nat /\ Len(fileList') \in Nat
        BY <1>1, <2>3, <3>2, <3>4
      <3>6. QED  BY ONLY <3>5
    <2>5. \A i \in 1 .. last : Slot(i)' = IF i = slot THEN entry ELSE Slot(i)
      BY <2>1, <2>3, <2>4 DEF Slot
    <2>6. \A i \in 1 .. fileCount : Slot(i)' = Slot(i)
      BY <2>3, <2>5
    <2>7. Slot(fileCount + 1)' = entry
      <3>1. slot \in 1 .. last /\ slot = fileCount' + 1
        BY <1>3, <2>3
      <3>2. QED  BY <2>5, <3>1
    <2>8. QED  BY <1>3, <1>4, <2>2, <2>6, <2>7 DEF entry
  <1>7. QED  BY <1>5, <1>6

LEMMA LoadIs ==
    ASSUME TypeOK, NEW c \in Client, ReaderLoad(c)
    PROVE  /\ reader[c].at = "inserted" /\ reader'[c].at = "counted"
           /\ reader'[c].count = fileCount /\ reader'[c].toAdd = reader[c].toAdd
           /\ UNCHANGED <<fileList, fileCount>>
           /\ \A d \in Client : d # c => reader'[d] = reader[d]
  <1>1. reader[c] \in ReaderState /\ DOMAIN reader = Client
    BY DEF TypeOK
  <1>2. QED  BY <1>1 DEF ReaderLoad, ReaderStep, ReaderState, listVars

LEMMA StoreIs ==
    ASSUME TypeOK, NEW c \in Client, ReaderStore(c)
    PROVE  /\ reader[c].at = "counted" /\ reader'[c].at = "add"
           /\ reader'[c].toAdd = reader[c].toAdd
           /\ fileCount' = reader[c].count + 1 /\ fileList' = fileList
           /\ \A d \in Client : d # c => reader'[d] = reader[d]
  <1>1. reader[c] \in ReaderState /\ DOMAIN reader = Client
    BY DEF TypeOK
  <1>2. QED  BY <1>1 DEF ReaderStore, ReaderStep, ReaderState

\* While threads insert one after the other, files stay where they are and the
\* list grows by one.
LEMMA ListGrows ==
    ASSUME TypeOK, TypeOK', Alone, CountsTrue, [Next]_vars
    PROVE  /\ CountsTrue'
           /\ fileCount' >= fileCount
           /\ \A i \in 1 .. fileCount : Slot(i)' = Slot(i)
           /\ \A c \in Client : ReaderStore(c) => fileCount' = fileCount + 1
  <1>1. fileCount \in Nat
    BY DEF TypeOK
  <1>2. ASSUME NEW c \in Client, ReaderStore(c)
        PROVE  /\ fileCount' = fileCount + 1 /\ CountsTrue'
               /\ \A i \in 1 .. fileCount : Slot(i)' = Slot(i)
    <2>1. /\ reader[c].at = "counted" /\ reader'[c].at = "add"
          /\ fileCount' = reader[c].count + 1 /\ fileList' = fileList
          /\ \A d \in Client : d # c => reader'[d] = reader[d]
      BY <1>2, StoreIs
    <2>2. fileCount' = fileCount + 1
      BY <2>1 DEF CountsTrue
    <2>3. ASSUME NEW d \in Client, reader'[d].at = "counted"
          PROVE  FALSE
      <3>1. d # c /\ reader[d].at = "counted"
        BY <2>1, <2>3
      <3>2. QED  BY <2>1, <3>1 DEF Alone, Inserting
    <2>4. QED  BY <2>1, <2>2, <2>3 DEF CountsTrue, Slot
  <1>3. ASSUME NEW c \in Client, ReaderAdd(c) \/ ReaderLoad(c)
        PROVE  /\ fileCount' = fileCount /\ CountsTrue'
               /\ \A i \in 1 .. fileCount : Slot(i)' = Slot(i)
    <2>1. CASE ReaderAdd(c)
      <3>1. /\ fileCount' = fileCount /\ reader'[c].at # "counted"
            /\ \A d \in Client : d # c => reader'[d] = reader[d]
            /\ \A i \in 1 .. fileCount : Slot(i)' = Slot(i)
        BY <2>1, AddIs
      <3>2. QED  BY <3>1 DEF CountsTrue
    <2>2. CASE ReaderLoad(c)
      <3>1. /\ UNCHANGED <<fileList, fileCount>> /\ reader'[c].count = fileCount
            /\ \A d \in Client : d # c => reader'[d] = reader[d]
        BY <2>2, LoadIs
      <3>2. QED  BY <3>1 DEF CountsTrue, Slot
    <2>3. QED  BY <1>3, <2>1, <2>2
  <1>4. CASE /\ UNCHANGED <<fileList, fileCount>>
             /\ \A d \in Client : reader'[d].at \in {"inserted", "counted"} =>
                   reader'[d] = reader[d]
    BY <1>1, <1>4, StoreIs DEF CountsTrue, Slot
  <1>5. \A c \in Client : ReaderStore(c) => fileCount' = fileCount + 1
    BY <1>2
  <1>6. QED
    <2>1. CASE \E c \in Client : ReaderAdd(c) \/ ReaderLoad(c) \/ ReaderStore(c)
      BY <1>1, <1>2, <1>3, <1>5, <2>1
    <2>2. QED  BY <1>1, <1>4, <1>5, <2>1, ListStep

LEMMA CountsTrueHolds == Spec /\ []Alone => []CountsTrue
  <1>1. Init => CountsTrue
    BY DEF Init, CountsTrue, IdleReader
  <1>2. TypeOK /\ TypeOK' /\ Alone /\ CountsTrue /\ [Next]_vars => CountsTrue'
    BY ListGrows
  <1>3. QED  BY <1>1, <1>2, TypeCorrect, PTL DEF Spec

\* The list never shrinks while threads insert one after the other.
THEOREM AloneNeverShrinks == Spec /\ []Alone => NeverShrinks
  <1>1. TypeOK /\ TypeOK' /\ Alone /\ CountsTrue /\ [Next]_vars => [fileCount' >= fileCount]_vars
    BY ListGrows
  <1>2. QED  BY <1>1, TypeCorrect, CountsTrueHolds, PTL DEF Spec, NeverShrinks

\* A server that is asked by one client at a time ...
LEMMA OneClientAlone ==
    ASSUME \A c, d \in Client : c = d
    PROVE  Spec => []Alone
  <1>1. Alone
    BY DEF Alone
  <1>2. QED  BY <1>1, PTL

\* ... keeps what it announces.
COROLLARY OneClientFinishes ==
    ASSUME \A c, d \in Client : c = d
    PROVE  Spec => []FinishedAfterWholeSet
  <1>1. Spec => []Alone
    BY OneClientAlone
  <1>2. QED  BY <1>1, AloneNeverShrinks, FinishedAfterWholeSetHolds, PTL

-----------------------------------------------------------------------------
(* What is sent is of the server.                                          *)

\* The server's directory stays as it is.
LEMMA HostKept == ASSUME TypeOK, [Next]_vars PROVE UNCHANGED <<serverDisk, serverHashes>>
  <1>1. ASSUME NEW c \in Client
        PROVE  UNCHANGED <<serverDisk, serverHashes>>
    <2>1. CASE Kept(c)
      BY <2>1 DEF Kept
    <2>2. CASE ServerSends
      BY <2>2, SendNextIs, SentAllIs, WaitedIs DEF ServerSends, SendsOnly
    <2>3. CASE ServerServes(c)
      BY <2>3, NewConnectionIs, FileStructureIs, SendFileIs, FileSendIs, ClosedIs
      DEF ServerServes, Served
    <2>4. CASE ReaderThread(c)
      BY <2>4, ReadIs, InsertIs, ReplyIs DEF ReaderThread, ReaderOnly
    <2>5. CASE ClientLoop(c)
      BY <2>5, ClientSendFileIs, CanFilesBeSentIs, HeaderIs, FileIs, FilesFinishedIs,
         DisconnectedIs, ConnectionLostIs DEF ClientLoop, Took
    <2>6. CASE ClientStart(c) \/ ClientConnected(c) \/ GiveUp(c) \/ Environment(c)
      BY <2>6, AcceptIs, RefuseIs, LinkLostIs, ProcessEndsIs, StartIs, ConnectedIs
      DEF Environment, ServerKept
    <2>7. QED
      BY <2>1, <2>2, <2>3, <2>4, <2>5, <2>6, StepOf DEF ClientStep, ClientProcess
  <1>2. CASE Client = {}
    BY <1>2 DEF Next, vars, hostVars, ServerSends, ServerSendNext, ServerSent, ServerWaited
  <1>3. QED  BY <1>1, <1>2

\* A slot of fileList holds a file of the server or was never written.
ServerEntry == {Hole} \cup {<<p, serverDisk[p]>> : p \in Files(serverDisk)}

OfServer == {p \in ClientPacket : p.type = "file" => p.entry \in ServerEntry}

ListReal == \A i \in 1 .. Len(fileList) : fileList[i] \in ServerEntry

\* The same is true of the files on their way.
Real(c) == Only(toClient[c], OfServer)

LEMMA SlotReal == ASSUME ListReal, NEW i \in Nat \ {0} PROVE Slot(i) \in ServerEntry
  BY DEF ListReal, Slot, ServerEntry

\* Packets that are not files.
LEMMA RealPackets ==
    ASSUME NEW p \in ClientPacket, p.type # "file"
    PROVE  p \in OfServer
  BY DEF OfServer

LEMMA RealSent ==
    ASSUME TypeOK, NEW c \in Client, Real(c), NEW p \in ClientPacket, SentToClientIs(c, p),
           p \in OfServer
    PROVE  Only(toClient'[c], OfServer)
  <1>1. toClient[c] \in Seq(ClientPacket)
    BY DEF TypeOK
  <1>2. Only(toClient[c] \o <<p>>, OfServer)
    BY <1>1, OnlySent DEF Real
  <1>3. QED  BY <1>2 DEF SentToClientIs, Real

LEMMA RealTook ==
    ASSUME TypeOK, NEW c \in Client, Real(c), NEW type, Took(c, type)
    PROVE  Head(toClient[c]) \in OfServer /\ Only(Tail(toClient[c]), OfServer)
  <1>1. toClient[c] \in Seq(ClientPacket) /\ toClient[c] # <<>>
    BY DEF TypeOK, Took
  <1>2. QED  BY <1>1, OnlyTail DEF Real

LEMMA RealCut ==
    ASSUME TypeOK, TypeOK', NEW c \in Client, Real(c), IsCut(toClient'[c], toClient[c])
    PROVE  Only(toClient'[c], OfServer)
  <1>1. toClient[c] \in Seq(ClientPacket) /\ toClient'[c] \in Seq(ClientPacket)
    BY DEF TypeOK
  <1>2. \A p \in ClientPacket : p.type = "lost" => p \in OfServer
    BY DEF OfServer
  <1>3. QED  BY <1>1, <1>2, OnlyCut DEF Real

LEMMA RealStep ==
    ASSUME TypeOK, TypeOK', ListReal, NEW c \in Client, Real(c), [Next]_vars
    PROVE  Real(c)'
  <1>1. OfServer' = OfServer
    BY HostKept DEF OfServer, ServerEntry, Files
  <1>2. Only(<<>>, OfServer)
    BY DEF Only
  <1>3. CASE Kept(c)
    BY <1>1, <1>3 DEF Real, Kept, Untouched
  <1>4. CASE Serving(c) /\ ServerSends
    <2>1. CASE ServerSendNext
      <3>1. /\ server # Receiving /\ server.at = "send" /\ server.client = c
            /\ SentToClientIs(c, File(server.set, Slot(server.next)))
        BY <1>4, <2>1, SendNextIs DEF Serving
      <3>2. /\ File(server.set, Slot(server.next)) \in ClientPacket
            /\ File(server.set, Slot(server.next)).entry = Slot(server.next)
            /\ server.next \in Nat \ {0}
        BY <3>1, FileSent, ServedClient DEF File
      <3>3. File(server.set, Slot(server.next)) \in OfServer
        BY <3>2, SlotReal DEF OfServer
      <3>4. QED  BY <1>1, <3>1, <3>2, <3>3, RealSent DEF Real
    <2>2. CASE ServerSent
      BY <1>1, <2>2, SentAllIs DEF Real
    <2>3. CASE ServerWaited
      <3>1. SentToClientIs(c, FilesFinished)
        BY <1>4, <2>3, WaitedIs DEF Serving
      <3>2. QED  BY <1>1, <3>1, SentTypes, RealPackets, RealSent DEF Real
    <2>4. QED  BY <1>4, <2>1, <2>2, <2>3 DEF ServerSends
  <1>5. CASE ServerServes(c)
    <2>1. \/ toClient'[c] = toClient[c]
          \/ SentToClientIs(c, SendFile(nextSet))
          \/ SentToClientIs(c, Header(FirstSet, fileCount))
      BY <1>5, NewConnectionIs, FileStructureIs, SendFileIs, FileSendIs, ClosedIs
      DEF ServerServes
    <2>2. QED  BY <1>1, <2>1, SentTypes, RealPackets, RealSent DEF Real
  <1>6. CASE ReaderThread(c)
    <2>1. \/ toClient'[c] = toClient[c]
          \/ SentToClientIs(c, CanFilesBeSent(reader[c].toDelete))
      BY <1>6, ReadIs, InsertIs, ReplyIs DEF ReaderThread
    <2>2. QED  BY <1>1, <2>1, SentTypes, RealPackets, RealSent DEF Real
  <1>7. CASE ClientLoop(c)
    <2>1. CASE ClientFilesFinished(c)
      <3> DEFINE rest == Tail(toClient[c])
      <3>1. /\ Took(c, "filesFinished")
            /\ toClient'[c] = rest \/ toClient'[c] = rest \o <<Disconnected>>
        BY <2>1, FilesFinishedIs
      <3>2. rest \in Seq(ClientPacket) /\ Only(rest, OfServer)
        BY <3>1, RealTook, HeadTailType DEF Took, TypeOK
      <3>3. Disconnected \in OfServer /\ Disconnected \in ClientPacket
        BY SentTypes, RealPackets
      <3> HIDE DEF rest
      <3>4. Only(rest \o <<Disconnected>>, OfServer)
        BY <3>2, <3>3, OnlySent
      <3>5. QED  BY <1>1, <3>1, <3>2, <3>4 DEF Real
    <2>2. CASE ClientDisconnected(c)
      BY <1>1, <1>2, <2>2, DisconnectedIs DEF Real
    <2>3. CASE /\ ~ClientFilesFinished(c) /\ ~ClientDisconnected(c)
      <3>1. PICK type : Took(c, type) /\ toClient'[c] = Tail(toClient[c])
        BY <1>7, <2>3, ClientSendFileIs, CanFilesBeSentIs, HeaderIs, FileIs, ConnectionLostIs
        DEF ClientLoop
      <3>2. QED  BY <1>1, <3>1, RealTook DEF Real
    <2>4. QED  BY <2>1, <2>2, <2>3
  <1>8. CASE ClientStart(c) \/ ClientConnected(c) \/ GiveUp(c) \/ Environment(c)
    <2>1. \/ toClient'[c] = toClient[c] \/ toClient'[c] = <<>>
          \/ IsCut(toClient'[c], toClient[c])
      BY <1>8, AcceptIs, RefuseIs, LinkLostIs, ProcessEndsIs, StartIs, ConnectedIs
      DEF Environment
    <2>2. QED  BY <1>1, <1>2, <2>1, RealCut DEF Real
  <1>9. QED
    BY <1>3, <1>4, <1>5, <1>6, <1>7, <1>8, StepOf DEF ClientStep, ClientProcess

\* A thread stores files of the server.
LEMMA ListRealStep ==
    ASSUME TypeOK, TypeOK', ListReal, [Next]_vars
    PROVE  ListReal'
  <1>1. ASSUME NEW c \in Client, ReaderAdd(c)
        PROVE  ListReal'
    <2> DEFINE slot == fileCount + 1
               last == IF slot > Len(fileList) THEN slot ELSE Len(fileList)
    <2>1. PICK p \in reader[c].toAdd :
             \/ fileList' = fileList
             \/ /\ serverDisk[p] # Absent
                /\ fileList' = [i \in 1 .. last |->
                                  IF i = slot THEN <<p, serverDisk[p]>> ELSE Slot(i)]
      BY <1>1 DEF ReaderAdd
    <2>2. ServerEntry' = ServerEntry
      BY HostKept DEF ServerEntry, Files
    <2>3. p \in Path
      BY DEF TypeOK, ReaderState
    <2>4. CASE fileList' = fileList
      BY <2>2, <2>4 DEF ListReal
    <2>5. CASE /\ serverDisk[p] # Absent
               /\ fileList' = [i \in 1 .. last |->
                                 IF i = slot THEN <<p, serverDisk[p]>> ELSE Slot(i)]
      <3>1. <<p, serverDisk[p]>> \in ServerEntry
        BY <2>3, <2>5 DEF ServerEntry, Files
      <3>2. last \in Nat /\ \A i \in 1 .. last : i \in Nat \ {0}
        BY DEF TypeOK
      <3>3. \A i \in 1 .. last : fileList'[i] \in ServerEntry
        BY <2>5, <3>1, <3>2, SlotReal
      <3>4. 1 .. Len(fileList') = 1 .. last
        <4>1. DOMAIN fileList' = 1 .. last
          BY <2>5
        <4>2. fileList' \in Seq(Entry \cup {Hole})
          BY DEF TypeOK
        <4>3. QED  BY <4>1, <4>2
      <3>5. QED  BY <2>2, <3>3, <3>4 DEF ListReal
    <2>6. QED  BY <2>1, <2>4, <2>5
  <1>2. ASSUME NEW c \in Client, ReaderLoad(c) \/ ReaderStore(c)
        PROVE  ListReal'
    <2>1. fileList' = fileList
      BY <1>2, LoadIs, StoreIs
    <2>2. QED  BY <2>1, HostKept DEF ListReal, ServerEntry, Files
  <1>3. CASE UNCHANGED <<fileList, fileCount>>
    BY <1>3, HostKept DEF ListReal, ServerEntry, Files
  <1>4. QED  BY <1>1, <1>2, <1>3, ListStep

\* The list that clients are compared with is that of the directory.
Published == serverHashes = CreateAllHashFiles(serverDisk)

LEMMA RealHolds == Spec => [](Published /\ ListReal /\ \A c \in Client : Real(c))
  <1> DEFINE All == Published /\ ListReal /\ \A c \in Client : Real(c)
  <1>1. Init => All
    BY DEF Init, Published, ListReal, Real, Only
  <1>2. TypeOK /\ TypeOK' /\ All /\ [Next]_vars => All'
    <2>1. SUFFICES ASSUME TypeOK, TypeOK', All, [Next]_vars
                   PROVE  All'
      OBVIOUS
    <2>2. UNCHANGED <<serverDisk, serverHashes>>
      BY <2>1, HostKept
    <2>3. Published'
      BY <2>1, <2>2 DEF Published, CreateAllHashFiles, Files, HashFile
    <2>4. QED  BY <2>1, <2>3, ListRealStep, RealStep
  <1> HIDE DEF All
  <1>3. Spec => []All
    BY <1>1, <1>2, TypeCorrect, PTL DEF Spec
  <1>4. QED  BY <1>3 DEF All

-----------------------------------------------------------------------------
(* The sessions implement UpdateService.                                   *)

Announced(c) == client[c].download.at \in {"files", "complete"}

\* Nothing that UpdateService sees of c changes.
Same(c) ==
    /\ client'[c].disk = client[c].disk /\ PhaseOf(c)' = PhaseOf(c)
    /\ Announced(c)' = Announced(c) /\ client'[c].download.left = client[c].download.left

\* What a step of c is to UpdateService.
BeginsAt(c) ==
    /\ PhaseOf(c) = "before" /\ PhaseOf(c)' = "updating"
    /\ client'[c].disk = client[c].disk
    /\ Announced(c)' = Announced(c) /\ client'[c].download.left = client[c].download.left

RemovesAt(c) ==
    /\ PhaseOf(c) = "updating" /\ PhaseOf(c)' = "updating"
    /\ ~Announced(c) /\ ~Announced(c)'
    /\ client'[c].download.left = client[c].download.left
    /\ \E gone \in SUBSET (Files(client[c].disk) \ {ClientExe}) :
          /\ \A p \in gone :
                HashFile(p, client[c].disk[p]) \notin CreateAllHashFiles(serverDisk)
          /\ client'[c].disk =
                [p \in Path |-> IF p \in gone THEN Absent ELSE client[c].disk[p]]

AnnouncesAt(c) ==
    /\ PhaseOf(c) = "updating" /\ PhaseOf(c)' = "updating"
    /\ ~Announced(c) /\ Announced(c)'
    /\ client'[c].download.left \in Nat
    /\ client'[c].disk = client[c].disk

ReceivesAt(c) ==
    /\ PhaseOf(c) = "updating" /\ PhaseOf(c)' = "updating"
    /\ Announced(c) /\ Announced(c)'
    /\ client[c].download.left > 0
    /\ client'[c].download.left = client[c].download.left - 1
    /\ \/ client'[c].disk = client[c].disk
       \/ \E p \in Files(serverDisk) \ {ClientExe} :
             client'[c].disk = [client[c].disk EXCEPT ![p] = serverDisk[p]]

FinishesAt(c) ==
    /\ PhaseOf(c) = "updating" /\ PhaseOf(c)' = "updated"
    /\ Announced(c) /\ Announced(c)'
    /\ client[c].download.left = 0 /\ client'[c].download.left = 0
    /\ client'[c].disk = client[c].disk

FailsAt(c) ==
    /\ PhaseOf(c) \in {"before", "updating"} /\ PhaseOf(c)' = "failed"
    /\ client'[c].disk = client[c].disk
    /\ \/ /\ Announced(c)' = Announced(c)
          /\ client'[c].download.left = client[c].download.left
       \/ ~Announced(c)' /\ client'[c].download.left = 0

\* UpdateService hashes like the sessions.
LEMMA SameHashes ==
    /\ \A disk : Service!Files(disk) = Files(disk)
    /\ \A p, content : Service!HashFile(p, content) = HashFile(p, content)
    /\ \A disk : Service!CreateAllHashFiles(disk) = CreateAllHashFiles(disk)
  BY DEF Service!Files, Files, Service!HashFile, HashFile, Service!CreateAllHashFiles,
     CreateAllHashFiles

\* A step that is one of these at c and nothing elsewhere is one of the service.
LEMMA ServiceStep ==
    ASSUME TypeOK, TypeOK', NEW c \in Client, serverDisk' = serverDisk,
           \A d \in Client : d # c => Same(d),
           \/ BeginsAt(c) \/ RemovesAt(c) \/ AnnouncesAt(c) \/ ReceivesAt(c)
           \/ FinishesAt(c) \/ FailsAt(c)
    PROVE  Service!Next
  <1> DEFINE directory == [d \in Client |-> client[d].disk]
             phase == [d \in Client |-> PhaseOf(d)]
             announced == [d \in Client |-> Announced(d)]
             awaited == [d \in Client |-> client[d].download.left]
  <1>1. /\ directory' = [directory EXCEPT ![c] = client'[c].disk]
        /\ phase' = [phase EXCEPT ![c] = PhaseOf(c)']
        /\ announced' = [announced EXCEPT ![c] = Announced(c)']
        /\ awaited' = [awaited EXCEPT ![c] = client'[c].download.left]
    BY DEF Same
  <1>2. /\ directory[c] = client[c].disk /\ phase[c] = PhaseOf(c)
        /\ announced[c] = Announced(c) /\ awaited[c] = client[c].download.left
        /\ awaited'[c] = client'[c].download.left
    OBVIOUS
  <1>b. Announced(c) \in BOOLEAN /\ Announced(c)' \in BOOLEAN
    BY DEF Announced
  <1>0. /\ directory[c] = client'[c].disk => directory' = directory
        /\ phase[c] = PhaseOf(c)' => phase' = phase
        /\ announced[c] = Announced(c)' => announced' = announced
        /\ awaited[c] = client'[c].download.left => awaited' = awaited
    BY <1>1
  <1> HIDE DEF directory, phase, announced, awaited
  <1>3. CASE BeginsAt(c)
    <2>1. /\ directory' = directory /\ announced' = announced /\ awaited' = awaited
          /\ phase[c] = "before" /\ phase' = [phase EXCEPT ![c] = "updating"]
      BY <1>1, <1>2, <1>3, <1>0 DEF BeginsAt
    <2>2. Service!Begin(c)
      BY <2>1 DEF Service!Begin, directory, phase, announced, awaited, Announced
    <2>3. QED  BY <2>2 DEF Service!Next
  <1>4. CASE RemovesAt(c)
    <2>1. /\ phase' = phase /\ announced' = announced /\ awaited' = awaited
          /\ phase[c] = "updating" /\ ~announced[c]
      BY <1>1, <1>2, <1>4, <1>0, <1>b DEF RemovesAt
    <2>2. PICK gone \in SUBSET (Files(client[c].disk) \ {ClientExe}) :
             /\ \A p \in gone :
                   HashFile(p, client[c].disk[p]) \notin CreateAllHashFiles(serverDisk)
             /\ client'[c].disk =
                   [p \in Path |-> IF p \in gone THEN Absent ELSE client[c].disk[p]]
      BY <1>4 DEF RemovesAt
    <2>3. directory' = [directory EXCEPT ![c] =
                          [p \in Path |-> IF p \in gone THEN Absent ELSE @[p]]]
      BY <1>1, <1>2, <2>2
    <2>4. \E some \in SUBSET (Files(directory[c]) \ {ClientExe}) :
             /\ \A p \in some :
                   HashFile(p, directory[c][p]) \notin CreateAllHashFiles(serverDisk)
             /\ directory' = [directory EXCEPT ![c] =
                                [p \in Path |-> IF p \in some THEN Absent ELSE @[p]]]
      BY <1>2, <2>2, <2>3
    <2>5. Service!Remove(c)
      BY <2>1, <2>4, SameHashes
      DEF Service!Remove, directory, phase, announced, awaited, Announced
    <2>6. QED  BY <2>5 DEF Service!Next
  <1>5. CASE AnnouncesAt(c)
    <2>1. /\ phase' = phase /\ directory' = directory
          /\ phase[c] = "updating" /\ ~announced[c]
          /\ announced' = [announced EXCEPT ![c] = TRUE]
          /\ awaited'[c] \in Nat /\ awaited' = [awaited EXCEPT ![c] = awaited'[c]]
      BY <1>1, <1>2, <1>5, <1>0 DEF AnnouncesAt
    <2>2. Service!Announce(c)
      BY <2>1 DEF Service!Announce, directory, phase, announced, awaited, Announced
    <2>3. QED  BY <2>2 DEF Service!Next
  <1>6. CASE ReceivesAt(c)
    <2>1. /\ phase' = phase /\ announced' = announced
          /\ phase[c] = "updating" /\ announced[c] /\ awaited[c] > 0
          /\ awaited' = [awaited EXCEPT ![c] = @ - 1]
      BY <1>1, <1>2, <1>6, <1>0 DEF ReceivesAt
    <2>2. \/ directory' = directory
          \/ \E p \in Files(serverDisk) \ {ClientExe} :
                directory' = [directory EXCEPT ![c][p] = serverDisk[p]]
      BY <1>1, <1>2, <1>6, <1>0 DEF ReceivesAt
    <2>3. Service!Receive(c)
      BY <2>1, <2>2, SameHashes
      DEF Service!Receive, directory, phase, announced, awaited, Announced
    <2>4. QED  BY <2>3 DEF Service!Next
  <1>7. CASE FinishesAt(c)
    <2>1. /\ directory' = directory /\ announced' = announced /\ awaited' = awaited
          /\ phase[c] = "updating" /\ announced[c] /\ awaited[c] = 0
          /\ phase' = [phase EXCEPT ![c] = "updated"]
      BY <1>1, <1>2, <1>7, <1>0 DEF FinishesAt
    <2>2. Service!Finish(c)
      BY <2>1 DEF Service!Finish, directory, phase, announced, awaited, Announced
    <2>3. QED  BY <2>2 DEF Service!Next
  <1>8. CASE FailsAt(c)
    <2>1. /\ directory' = directory
          /\ phase[c] \in {"before", "updating"}
          /\ phase' = [phase EXCEPT ![c] = "failed"]
      BY <1>1, <1>2, <1>8, <1>0, <1>b DEF FailsAt
    <2>2. \/ announced' = announced /\ awaited' = awaited
          \/ /\ announced' = [announced EXCEPT ![c] = FALSE]
             /\ awaited' = [awaited EXCEPT ![c] = 0]
      BY <1>1, <1>2, <1>8, <1>0, <1>b DEF FailsAt
    <2>3. Service!Fail(c)
      BY <2>1, <2>2 DEF Service!Fail, directory, phase, announced, awaited, Announced
    <2>4. QED  BY <2>3 DEF Service!Next
  <1>9. QED  BY <1>3, <1>4, <1>5, <1>6, <1>7, <1>8

\* Nothing happens to the process or the connection of c, or only to packets of
\* a connection that is not lost.
LEMMA SameKept ==
    ASSUME NEW c \in Client, link'[c] = link[c], client'[c].at = client[c].at,
           client'[c].disk = client[c].disk, client'[c].download = client[c].download,
           link[c] = "lost" /\ client[c].at = "run" =>
              (toClient'[c] = <<>> <=> toClient[c] = <<>>)
    PROVE  Same(c)
  <1>1. PhaseOf(c)' = PhaseOf(c)
    BY DEF PhaseOf
  <1>2. QED  BY <1>1 DEF Same, Announced

\* What the server does changes nothing: it sends and waits.
LEMMA ServiceServer ==
    ASSUME TypeOK, NEW c \in Client,
           ServerServes(c) \/ ReaderThread(c) \/ (Serving(c) /\ ServerSends)
    PROVE  Same(c)
  <1>1. /\ client' = client /\ link' = link
        /\ toClient'[c] = toClient[c] \/ \E p : SentToClientIs(c, p)
    <2>1. CASE ServerServes(c)
      BY <2>1, NewConnectionIs, FileStructureIs, SendFileIs, FileSendIs, ClosedIs
      DEF ServerServes, Served
    <2>2. CASE ReaderThread(c)
      BY <2>2, ReadIs, InsertIs, ReplyIs DEF ReaderThread, ReaderOnly
    <2>3. CASE Serving(c) /\ ServerSends
      BY <2>3, SendNextIs, SentAllIs, WaitedIs DEF Serving, ServerSends, SendsOnly
    <2>4. QED  BY <2>1, <2>2, <2>3
  <1>2. link[c] = "lost" => toClient'[c] = toClient[c]
    BY <1>1 DEF SentToClientIs
  <1>3. QED  BY <1>1, <1>2, SameKept

\* A packet that is not the end of its connection leaves a client updating.
LEMMA PhaseTook ==
    ASSUME TypeOK, NEW c \in Client, Ends(c), NEW type, Took(c, type), type \notin EndPacket,
           link[c] # "closed", link'[c] = link[c], toClient'[c] = Tail(toClient[c]),
           client'[c].at = client[c].at
    PROVE  PhaseOf(c) = "updating" /\ PhaseOf(c)' = "updating"
  <1>1. client[c].at = "run" /\ toClient[c] # <<>>
    BY DEF Took
  <1>2. PhaseOf(c) = "updating"
    BY <1>1 DEF PhaseOf
  <1>3. link[c] = "lost" => Tail(toClient[c]) # <<>>
    <2>1. SUFFICES ASSUME link[c] = "lost"
                   PROVE  Tail(toClient[c]) # <<>>
      OBVIOUS
    <2>2. Has(toClient[c], {"lost"})
      BY <1>1, <2>1 DEF Ends
    <2>3. type \notin {"lost"}
      BY DEF EndPacket
    <2>4. Has(Tail(toClient[c]), {"lost"})
      BY <2>2, <2>3, ClientTook
    <2>5. QED  BY <2>4, HasNothing
  <1>4. PhaseOf(c)' = "updating"
    BY <1>1, <1>3 DEF PhaseOf
  <1>5. QED  BY <1>2, <1>4

\* A client that has closed its connection only reads of that.
LEMMA ClosedTook ==
    ASSUME TypeOK, NEW c \in Client, Delivery(c), NEW type, Took(c, type),
           type # "disconnected"
    PROVE  link[c] # "closed"
  <1>1. toClient[c] \in Seq(ClientPacket) /\ toClient[c] # <<>> /\ Head(toClient[c]).type = type
    BY DEF TypeOK, Took
  <1>2. 1 \in 1 .. Len(toClient[c]) /\ Head(toClient[c]) = toClient[c][1]
    BY <1>1
  <1>3. link[c] = "closed" => Head(toClient[c]) = Disconnected
    BY <1>2 DEF Delivery, Only
  <1>4. QED  BY <1>1, <1>3 DEF Disconnected

\* What a client deletes the server does not list.
LEMMA ServiceRemoves ==
    ASSUME TypeOK, TypeOK', NEW c \in Client, Ends(c), Started(c) => Later(c), Delivery(c),
           Published, DeleteListsStale, ClientCanFilesBeSent(c)
    PROVE  RemovesAt(c)
  <1> DEFINE disk == client[c].disk
             told == Head(toClient[c]).hashes
  <1>1. /\ Took(c, "canFilesBeSent") /\ toClient'[c] = Tail(toClient[c])
        /\ link' = link /\ client'[c].at = client[c].at
        /\ client'[c].download =
              IF link[c] = "up" THEN [at |-> "header", set |-> FirstSet, left |-> 0]
              ELSE client[c].download
    BY CanFilesBeSentIs DEF ProcessKept
  <1>2. PICK hashes \in ReadDeleteList(told) : client'[c].disk = DeleteFiles(disk, hashes, ClientExe)
    BY CanFilesBeSentIs
  <1>3. PhaseOf(c) = "updating" /\ PhaseOf(c)' = "updating"
    BY <1>1, PhaseTook, ClosedTook DEF EndPacket
  <1>4. client[c].download.at = "none" /\ client[c].download.left = 0
    <2>1. Has(toClient[c], EarlyPacket)
      <3>1. "canFilesBeSent" \in EarlyPacket
        BY DEF EarlyPacket
      <3>2. QED  BY <1>1, <3>1, ClientTook
    <2>2. client[c].download.at = "none"
      BY <2>1 DEF Started, Later
    <2>3. client[c].download \in Download
      BY DEF TypeOK, ClientState
    <2>4. QED  BY <2>2, <2>3 DEF Download
  <1>5. /\ ~Announced(c) /\ ~Announced(c)'
        /\ client'[c].download.left = client[c].download.left
    BY <1>1, <1>4 DEF Announced
  <1>6. told \cap CreateAllHashFiles(serverDisk) = {}
    <2>1. toClient[c] # <<>> /\ Head(toClient[c]).type = "canFilesBeSent"
          /\ toClient[c] \in Seq(ClientPacket)
      BY <1>1 DEF Took, TypeOK
    <2>2. 1 \in 1 .. Len(toClient[c]) /\ Head(toClient[c]) = toClient[c][1]
      BY <2>1
    <2>3. StaleList(told)
      BY <2>1, <2>2 DEF DeleteListsStale
    <2>4. QED  BY <2>3 DEF StaleList, Published
  <1>7. hashes \subseteq told
    BY <1>2 DEF ReadDeleteList
  <1> DEFINE gone == {p \in Path : /\ disk[p] # Absent /\ p # ClientExe
                                   /\ HashFile(p, disk[p]) \in hashes}
  <1>8. gone \in SUBSET (Files(disk) \ {ClientExe})
    BY DEF Files
  <1>9. \A p \in gone : HashFile(p, disk[p]) \notin CreateAllHashFiles(serverDisk)
    BY <1>6, <1>7
  <1>10. client'[c].disk = [p \in Path |-> IF p \in gone THEN Absent ELSE disk[p]]
    BY <1>2 DEF DeleteFiles
  <1> HIDE DEF gone
  <1>11. QED  BY <1>3, <1>5, <1>8, <1>9, <1>10 DEF RemovesAt

\* A header for which the client has a receiver announces the files ...
LEMMA ServiceAnnounces ==
    ASSUME TypeOK, NEW c \in Client, Ends(c), Delivery(c), ClientHeader(c)
    PROVE  Same(c) \/ AnnouncesAt(c)
  <1> DEFINE download == client[c].download
             packet == Head(toClient[c])
  <1>1. /\ Took(c, "header") /\ toClient'[c] = Tail(toClient[c])
        /\ link' = link /\ client'[c].at = client[c].at
        /\ client'[c].disk = client[c].disk
        /\ client'[c].download =
              IF download.at = "header" /\ packet.set = download.set
              THEN Awaiting(download, packet.count) ELSE download
    BY HeaderIs DEF ProcessKept
  <1>2. PhaseOf(c) = "updating" /\ PhaseOf(c)' = "updating"
    BY <1>1, PhaseTook, ClosedTook DEF EndPacket
  <1>3. CASE download.at = "header" /\ packet.set = download.set
    <2>1. packet.count \in Nat
      <3>1. packet \in ClientPacket /\ packet.type = "header"
        BY <1>1 DEF TypeOK, Took
      <3>2. QED  BY <3>1, ClientPacketFields
    <2>2. download \in Download
      BY DEF TypeOK, ClientState
    <2>3. /\ client'[c].download.at \in {"files", "complete"}
          /\ client'[c].download.left = packet.count
      BY <1>1, <1>3, <2>2, AwaitingIs
    <2>4. QED  BY <1>1, <1>2, <1>3, <2>1, <2>3 DEF AnnouncesAt, Announced
  <1>4. CASE ~(download.at = "header" /\ packet.set = download.set)
    BY <1>1, <1>2, <1>4 DEF Same, Announced
  <1>5. QED  BY <1>3, <1>4

\* ... each of which is one of the server's when it arrives, ...
LEMMA ServiceReceives ==
    ASSUME TypeOK, NEW c \in Client, Ends(c), Delivery(c), Real(c), ClientFile(c)
    PROVE  Same(c) \/ ReceivesAt(c)
  <1> DEFINE download == client[c].download
             packet == Head(toClient[c])
  <1>1. /\ Took(c, "file") /\ toClient'[c] = Tail(toClient[c])
        /\ link' = link /\ client'[c].at = client[c].at
        /\ IF download.at = "files" /\ packet.set = download.set
           THEN /\ client'[c].disk = Written(client[c].disk, packet.entry)
                /\ client'[c].download = Awaiting(download, download.left - 1)
           ELSE client'[c] = client[c]
    BY FileIs DEF ProcessKept
  <1>2. PhaseOf(c) = "updating" /\ PhaseOf(c)' = "updating"
    BY <1>1, PhaseTook, ClosedTook DEF EndPacket
  <1>3. CASE download.at = "files" /\ packet.set = download.set
    <2>1. packet.entry \in ServerEntry
      <3>1. packet.type = "file" /\ packet \in OfServer
        BY <1>1, RealTook DEF Took
      <3>2. QED  BY <3>1 DEF OfServer
    <2>2. download \in Download /\ download.left > 0
      <3>1. download \in Download
        BY DEF TypeOK, ClientState
      <3>2. QED  BY <1>3, <3>1 DEF Download
    <2>3. /\ client'[c].download.at \in {"files", "complete"}
          /\ client'[c].download.left = download.left - 1
      BY <1>1, <1>3, <2>2, AwaitingIs
    <2>4. \/ client'[c].disk = client[c].disk
          \/ \E p \in Files(serverDisk) \ {ClientExe} :
                client'[c].disk = [client[c].disk EXCEPT ![p] = serverDisk[p]]
      <3>1. client'[c].disk = Written(client[c].disk, packet.entry)
        BY <1>1, <1>3
      <3>2. CASE packet.entry = Hole \/ packet.entry[1] = ClientExe
        BY <3>1, <3>2 DEF Written
      <3>3. CASE ~(packet.entry = Hole \/ packet.entry[1] = ClientExe)
        <4>1. PICK p \in Files(serverDisk) : packet.entry = <<p, serverDisk[p]>>
          BY <2>1, <3>3 DEF ServerEntry
        <4>2. p # ClientExe
          BY <3>3, <4>1
        <4>3. client'[c].disk = [client[c].disk EXCEPT ![p] = serverDisk[p]]
          BY <3>1, <3>3, <4>1 DEF Written
        <4>4. QED  BY <4>2, <4>3
      <3>4. QED  BY <3>2, <3>3
    <2>5. QED  BY <1>2, <1>3, <2>2, <2>3, <2>4 DEF ReceivesAt, Announced
  <1>4. CASE ~(download.at = "files" /\ packet.set = download.set)
    BY <1>1, <1>2, <1>4 DEF Same, Announced
  <1>5. QED  BY <1>3, <1>4

\* ... and none is missing when the client closes the connection.
LEMMA ServiceFinishes ==
    ASSUME TypeOK, TypeOK', NEW c \in Client, Ends(c), Delivery(c), Delivery(c)',
           ClientFilesFinished(c)
    PROVE  Same(c) \/ FinishesAt(c)
  <1>1. /\ Took(c, "filesFinished")
        /\ link'[c] = IF link[c] = "up" THEN "closed" ELSE link[c]
        /\ link[c] # "up" => toClient'[c] = Tail(toClient[c])
        /\ client'[c].at = client[c].at /\ client'[c].disk = client[c].disk
        /\ client'[c].download = client[c].download
    BY FilesFinishedIs DEF ProcessKept
  <1>2. CASE link[c] = "up"
    <2>1. client[c].download.at = "complete" /\ client[c].download \in Download
      BY <1>1, <1>2 DEF Delivery, TypeOK, ClientState
    <2>2. client[c].download.left = 0
      BY <2>1 DEF Download
    <2>3. PhaseOf(c) = "updating" /\ PhaseOf(c)' = "updated"
      BY <1>1, <1>2 DEF PhaseOf, Took
    <2>4. QED  BY <1>1, <2>1, <2>2, <2>3 DEF FinishesAt, Announced
  <1>3. CASE link[c] # "up"
    <2>1. PhaseOf(c) = "updating" /\ PhaseOf(c)' = "updating"
      BY <1>1, <1>3, PhaseTook, ClosedTook DEF EndPacket
    <2>2. QED  BY <1>1, <2>1 DEF Same, Announced
  <1>4. QED  BY <1>2, <1>3

\* A step of the message loop of a client.
LEMMA ServiceLoop ==
    ASSUME TypeOK, TypeOK', NEW c \in Client, Ends(c), Started(c) => Later(c), Delivery(c),
           Delivery(c)', Real(c), Published, DeleteListsStale, ClientLoop(c)
    PROVE  \/ Same(c) \/ BeginsAt(c) \/ RemovesAt(c) \/ AnnouncesAt(c) \/ ReceivesAt(c)
           \/ FinishesAt(c) \/ FailsAt(c)
  <1>1. CASE ClientSendFile(c)
    <2>1. /\ Took(c, "sendFile") /\ toClient'[c] = Tail(toClient[c])
          /\ client' = client /\ link' = link
      BY <1>1, ClientSendFileIs
    <2>2. PhaseOf(c) = "updating" /\ PhaseOf(c)' = "updating"
      BY <2>1, PhaseTook, ClosedTook DEF EndPacket
    <2>3. Same(c)
      BY <2>1, <2>2 DEF Same, Announced
    <2>4. QED  BY <2>3
  <1>2. CASE ClientCanFilesBeSent(c) \/ ClientHeader(c) \/ ClientFile(c) \/ ClientFilesFinished(c)
    BY <1>2, ServiceRemoves, ServiceAnnounces, ServiceReceives, ServiceFinishes
  <1>3. CASE ClientDisconnected(c)
    <2>1. /\ Took(c, "disconnected") /\ link' = link
          /\ client'[c].disk = client[c].disk /\ client'[c].download = client[c].download
      BY <1>3, DisconnectedIs
    <2>2. Has(toClient[c], {"disconnected"})
      BY <2>1, ClientTook
    <2>3. link[c] = "closed"
      BY <2>2 DEF Ends
    <2>4. PhaseOf(c) = "updated" /\ PhaseOf(c)' = "updated"
      BY <2>1, <2>3 DEF PhaseOf
    <2>5. Same(c)
      BY <2>1, <2>4 DEF Same, Announced
    <2>6. QED  BY <2>5
  <1>4. CASE ClientConnectionLost(c)
    <2>1. /\ Took(c, "lost") /\ toClient'[c] = Tail(toClient[c])
          /\ link' = link /\ client'[c].at = client[c].at
          /\ client'[c].disk = client[c].disk /\ client'[c].download = NoDownload
      BY <1>4, ConnectionLostIs DEF ProcessKept
    <2>2. Has(toClient[c], {"lost"})
      BY <2>1, ClientTook
    <2>3. link[c] = "lost" /\ client[c].at = "run" /\ toClient[c] # <<>>
      BY <2>1, <2>2 DEF Ends, Took
    <2>4. Tail(toClient[c]) = <<>>
      <3>1. toClient[c] \in Seq(ClientPacket) /\ Head(toClient[c]).type \in EndPacket
        BY <2>1 DEF TypeOK, Took, EndPacket
      <3>2. QED  BY <2>3, <3>1, EndedQueue DEF Ends
    <2>5. PhaseOf(c) = "updating" /\ PhaseOf(c)' = "failed"
      BY <2>1, <2>3, <2>4 DEF PhaseOf
    <2>6. ~Announced(c)' /\ client'[c].download.left = 0
      BY <2>1 DEF Announced, NoDownload
    <2>7. FailsAt(c)
      BY <2>1, <2>5, <2>6 DEF FailsAt
    <2>8. QED  BY <2>7
  <1>5. QED  BY <1>1, <1>2, <1>3, <1>4 DEF ClientLoop

\* Connections and processes begin and end.
LEMMA ServiceOutside ==
    ASSUME TypeOK, NEW c \in Client, Ends(c),
           ClientStart(c) \/ ClientConnected(c) \/ GiveUp(c) \/ Environment(c)
    PROVE  Same(c) \/ BeginsAt(c) \/ FailsAt(c)
  <1>1. CASE ClientStart(c)
    <2>1. /\ link' = link /\ client[c].at = "off" /\ client'[c].at = "connecting"
          /\ client'[c].disk = client[c].disk /\ client'[c].download = client[c].download
      BY <1>1, StartIs
    <2>2. PhaseOf(c) = "before" /\ PhaseOf(c)' = "before"
      BY <2>1 DEF PhaseOf, Ends
    <2>3. QED  BY <2>1, <2>2 DEF Same, Announced
  <1>2. CASE ClientConnected(c)
    <2>1. /\ link' = link /\ link[c] = "up"
          /\ client[c].at = "connecting" /\ client'[c].at = "run"
          /\ client'[c].disk = client[c].disk /\ client'[c].download = client[c].download
      BY <1>2, ConnectedIs
    <2>2. PhaseOf(c) = "before" /\ PhaseOf(c)' = "updating"
      BY <2>1 DEF PhaseOf
    <2>3. QED  BY <2>1, <2>2 DEF BeginsAt, Announced
  <1>3. CASE Accept(c)
    <2>1. client' = client /\ client[c].at = "connecting" /\ link[c] = "none" /\ link'[c] = "up"
      BY <1>3, AcceptIs
    <2>2. PhaseOf(c) = "before" /\ PhaseOf(c)' = "before"
      BY <2>1 DEF PhaseOf
    <2>3. QED  BY <2>1, <2>2 DEF Same, Announced
  <1>4. CASE Refuse(c)
    <2>1. /\ client' = client /\ toClient' = toClient
          /\ link[c] = "none" /\ link'[c] = "refused"
      BY <1>4, RefuseIs
    <2>2. PhaseOf(c)' = PhaseOf(c)
      BY <2>1 DEF PhaseOf
    <2>3. QED  BY <2>1, <2>2 DEF Same, Announced
  <1>5. CASE LinkLost(c)
    <2>1. /\ client' = client /\ link[c] = "up" /\ link'[c] = "lost"
          /\ IsCut(toClient'[c], toClient[c])
      BY <1>5, LinkLostIs
    <2>2. toClient'[c] # <<>>
      <3>1. PICK k \in 0 .. Len(toClient[c]) : Len(toClient'[c]) = k + 1
        BY <2>1 DEF IsCut
      <3>2. Len(<<>>) = 0 /\ k + 1 # 0
        BY DEF TypeOK
      <3>3. QED  BY <3>1, <3>2
    <2>3. PhaseOf(c)' = PhaseOf(c)
      BY <2>1, <2>2 DEF PhaseOf, Ends
    <2>4. QED  BY <2>1, <2>3 DEF Same, Announced
  <1>6. CASE GiveUp(c) \/ ClientDies(c)
    <2>1. /\ client[c].at \in {"connecting", "run"} /\ client'[c].at \in {"failed", "dead"}
          /\ client'[c].disk = client[c].disk /\ client'[c].download = client[c].download
          /\ \/ link[c] = "up" /\ link'[c] = "lost"
             \/ link[c] # "up" /\ link'[c] = link[c]
          /\ toClient'[c] = <<>>
      BY <1>6, ProcessEndsIs
    <2>2. CASE link[c] = "closed"
      <3>1. PhaseOf(c) = "updated" /\ PhaseOf(c)' = "updated"
        BY <2>1, <2>2 DEF PhaseOf
      <3>2. QED  BY <2>1, <3>1 DEF Same, Announced
    <2>3. CASE link[c] # "closed"
      <3>1. PhaseOf(c)' = "failed"
        BY <2>1, <2>3 DEF PhaseOf
      <3>2. PhaseOf(c) \in {"before", "updating", "failed"}
        BY <2>1, <2>3 DEF PhaseOf
      <3>3. QED  BY <2>1, <3>1, <3>2 DEF Same, FailsAt, Announced
    <2>4. QED  BY <2>2, <2>3
  <1>7. QED  BY <1>1, <1>2, <1>3, <1>4, <1>5, <1>6 DEF Environment

LEMMA ServiceInit == Init => Service!Init
  <1>1. SUFFICES ASSUME Init
                 PROVE  Service!Init
    OBVIOUS
  <1>2. PICK disks \in ClientDisks :
           client = [c \in Client |-> [at |-> "off", disk |-> disks[c], hashes |-> {},
                                       structure |-> FALSE, download |-> NoDownload]]
    BY <1>1 DEF Init
  <1>3. [c \in Client |-> client[c].disk] \in ClientDisks
    <2>1. disks \in [Client -> Disk]
      BY UpdateSessionAssumption
    <2>2. [c \in Client |-> client[c].disk] = disks
      BY <1>2, <2>1
    <2>3. QED  BY <2>2
  <1>4. \A c \in Client : PhaseOf(c) = "before"
    BY <1>1, <1>2 DEF Init, PhaseOf
  <1>5. [c \in Client |-> PhaseOf(c)] = [c \in Client |-> "before"]
    BY <1>4
  <1>6. /\ [c \in Client |-> client[c].download.at \in {"files", "complete"}] =
              [c \in Client |-> FALSE]
        /\ [c \in Client |-> client[c].download.left] = [c \in Client |-> 0]
    <2>1. \A c \in Client : client[c].download = NoDownload
      BY <1>2
    <2>2. \A c \in Client : /\ (client[c].download.at \in {"files", "complete"}) = FALSE
                            /\ client[c].download.left = 0
      BY <2>1 DEF NoDownload
    <2>3. QED  BY <2>2
  <1>7. serverDisk \in ServerDisks
    BY <1>1 DEF Init
  <1>8. QED  BY <1>3, <1>5, <1>6, <1>7 DEF Service!Init

\* What the proofs say of the sessions before a step.
ServiceInv ==
    /\ TypeOK /\ Turns /\ Deliveries /\ DeleteListsStale
    /\ Published /\ ListReal /\ \A c \in Client : Real(c)

\* A step that nothing can be seen of.
LEMMA ServiceStutter ==
    ASSUME \A c \in Client : Same(c), serverDisk' = serverDisk
    PROVE  UNCHANGED Service!vars
  <1>1. /\ [c \in Client |-> client[c].disk]' = [c \in Client |-> client[c].disk]
        /\ [c \in Client |-> PhaseOf(c)]' = [c \in Client |-> PhaseOf(c)]
        /\ [c \in Client |-> client[c].download.at \in {"files", "complete"}]' =
              [c \in Client |-> client[c].download.at \in {"files", "complete"}]
        /\ [c \in Client |-> client[c].download.left]' =
              [c \in Client |-> client[c].download.left]
    BY DEF Same, Announced
  <1>2. QED  BY <1>1 DEF Service!vars

\* What a step is at one client.
LEMMA ServiceAt ==
    ASSUME ServiceInv, ServiceInv', [Next]_vars, NEW c \in Client
    PROVE  \/ Same(c) \/ BeginsAt(c) \/ RemovesAt(c) \/ AnnouncesAt(c) \/ ReceivesAt(c)
           \/ FinishesAt(c) \/ FailsAt(c)
  <1>1. /\ TypeOK /\ TypeOK' /\ Ends(c) /\ (Started(c) => Later(c))
        /\ Delivery(c) /\ Delivery(c)' /\ Real(c) /\ Published /\ DeleteListsStale
    BY DEF ServiceInv, Turns, Deliveries
  <1>2. CASE Kept(c)
    <2>1. client'[c] = client[c] /\ link'[c] = link[c] /\ toClient'[c] = toClient[c]
      BY <1>2 DEF Kept, Untouched
    <2>2. QED  BY <2>1, SameKept
  <1>3. CASE Serving(c) /\ ServerSends
    BY <1>1, <1>3, ServiceServer
  <1>4. CASE ClientStep(c)
    BY <1>1, <1>4, ServiceServer, ServiceLoop, ServiceOutside DEF ClientStep, ClientProcess
  <1>5. QED  BY <1>1, <1>2, <1>3, <1>4, StepOf

\* Every step is one of UpdateService or changes nothing it knows of.
LEMMA ServiceNext ==
    ASSUME ServiceInv, ServiceInv', [Next]_vars
    PROVE  [Service!Next]_Service!vars
  <1>1. TypeOK /\ TypeOK' /\ serverDisk' = serverDisk
    BY HostKept DEF ServiceInv
  <1>2. ASSUME NEW c \in Client, ~Same(c)
        PROVE  [Service!Next]_Service!vars
    <2>1. ClientStep(c)
      <3>1. Kept(c) => Same(c)
        BY SameKept DEF Kept, Untouched
      <3>2. QED  BY <1>1, <1>2, <3>1, StepOf, ServiceServer
    <2>2. \A d \in Client : d # c => Same(d)
      <3>1. SUFFICES ASSUME NEW d \in Client, d # c
                     PROVE  Same(d)
        OBVIOUS
      <3>2. Kept(d)
        BY <1>1, <2>1, <3>1, KeptElsewhere
      <3>3. QED  BY <3>2, SameKept DEF Kept, Untouched
    <2>3. QED  BY <1>1, <1>2, <2>2, ServiceAt, ServiceStep
  <1>3. CASE \A c \in Client : Same(c)
    BY <1>1, <1>3, ServiceStutter
  <1>4. QED  BY <1>2, <1>3

LEMMA ServiceInvHolds == Spec /\ NeverShrinks => []ServiceInv
  <1>1. Spec => []DeleteListsStale
    BY DeleteListsStaleInit, DeleteListsStaleNext, TypeCorrect, PTL DEF Spec
  <1>2. TypeOK /\ Turns /\ Deliveries /\ DeleteListsStale
        /\ (Published /\ ListReal /\ \A c \in Client : Real(c)) => ServiceInv
    BY DEF ServiceInv
  <1>3. QED  BY <1>1, <1>2, TypeCorrect, TurnsHold, DeliveriesHold, RealHolds, PTL

\* Whatever threads, connections and processes do, a client's directory changes
\* as UpdateService allows, as long as the server's list does not shrink.
THEOREM ImplementsServiceHolds == Spec /\ NeverShrinks => ImplementsService
  <1>1. ServiceInv /\ ServiceInv' /\ [Next]_vars => [Service!Next]_Service!vars
    BY ServiceNext
  <1>2. QED
    BY <1>1, ServiceInit, ServiceInvHolds, PTL DEF Spec, ImplementsService, Service!Spec

\* So it does for threads that insert one after the other.
COROLLARY AloneImplementsService == Spec /\ []Alone => ImplementsService
  BY AloneNeverShrinks, ImplementsServiceHolds, PTL

-----------------------------------------------------------------------------
(* Every file that a client lacks comes.                                   *)

\* The file p of the server as its list holds it; ...
Current(p) == <<p, serverDisk[p]>>

\* ... the files that c does not have as the server has them; ...
Lacking(c) ==
    {p \in Files(serverDisk) \ {ServerExe, ClientExe} : client[c].disk[p] # serverDisk[p]}

\* ... and one that is in the list.
Listed(p) == \E i \in 1 .. fileCount : Slot(i) = Current(p)

\* An entry among the first n files of a transfer.
Coming(q, entry, n) ==
    \E j \in 1 .. Len(q) :
        q[j].type = "file" /\ q[j].entry = entry /\ j - Ahead(q, "header") <= n

\* The file p is on its way to c, or UpdateServer will send it, as one of those
\* that c still reads.
Arrives(c, p) ==
    LET owed == Owed(toClient[c], client[c].download)
    IN \/ Coming(toClient[c], Current(p), owed)
       \/ /\ Serving(c) /\ server.at = "send"
          /\ \E i \in server.next .. fileCount :
                /\ Slot(i) = Current(p)
                /\ FilesIn(toClient[c]) + 1 + i - server.next <= owed

\* A client's list shows what it lacks ...
Known(c) ==
    client[c].at # "off" =>
        \A p \in Lacking(c) : HashFile(p, serverDisk[p]) \notin client[c].hashes

\* ... to the thread, which has each such file in the list or still to do; ...
Queued(c) ==
    reader[c].at \in {"add", "inserted", "counted"} =>
        \A p \in Lacking(c) :
            \/ p \in reader[c].toAdd \/ Listed(p)
            \/ Inserting(c) /\ Slot(fileCount + 1) = Current(p)

\* ... all are in the list when the client is told that files can be sent, ...
AllListed(c) ==
    Has(toClient[c], {"canFilesBeSent"}) \/ Started(c) =>
        \A p \in Lacking(c) : Listed(p)

\* ... come when they are sent, and have come when it is told that they were.
AllArrive(c) ==
    /\ link[c] = "up" /\ Expecting(c) => \A p \in Lacking(c) : Arrives(c, p)
    /\ link[c] = "closed" => Lacking(c) = {}

\* Different contents have different first tokens.
DifferentTokens == \A x, y \in Content : FirstToken[x] = FirstToken[y] => x = y

\* What a client has like the server it keeps, and what else it gets is the
\* server's.
LEMMA LackingShrinks ==
    ASSUME ServiceInv, ServiceInv', [Next]_vars, NEW c \in Client
    PROVE  Lacking(c)' \subseteq Lacking(c)
  <1>1. TypeOK /\ TypeOK' /\ serverDisk' = serverDisk /\ Files(serverDisk)' = Files(serverDisk)
    BY HostKept DEF ServiceInv, Files
  <1>2. SUFFICES ASSUME NEW p \in Lacking(c)', p \notin Lacking(c)
                 PROVE  FALSE
    OBVIOUS
  <1>3. /\ p \in Path /\ p \in Files(serverDisk)
        /\ client[c].disk[p] = serverDisk[p] /\ client'[c].disk[p] # serverDisk[p]
    BY <1>1, <1>2 DEF Lacking, Files
  <1>4. client[c].disk \in [Path -> Content \cup {Absent}]
    BY <1>1 DEF TypeOK, ClientState, Disk
  <1>5. CASE client'[c].disk = client[c].disk
    BY <1>3, <1>5
  <1>6. CASE ReceivesAt(c)
    <2>1. PICK r \in Files(serverDisk) :
             client'[c].disk = [client[c].disk EXCEPT ![r] = serverDisk[r]]
      BY <1>3, <1>6 DEF ReceivesAt
    <2>2. QED  BY <1>3, <1>4, <2>1
  <1>7. CASE RemovesAt(c)
    <2>1. PICK gone \in SUBSET Path :
             /\ \A r \in gone :
                   HashFile(r, client[c].disk[r]) \notin CreateAllHashFiles(serverDisk)
             /\ client'[c].disk =
                   [r \in Path |-> IF r \in gone THEN Absent ELSE client[c].disk[r]]
      BY <1>7 DEF RemovesAt, Files
    <2>2. p \in gone
      BY <1>3, <2>1
    <2>3. HashFile(p, serverDisk[p]) \in CreateAllHashFiles(serverDisk)
      BY <1>3 DEF CreateAllHashFiles
    <2>4. QED  BY <1>3, <2>1, <2>2, <2>3
  <1>8. QED
    BY <1>5, <1>6, <1>7, ServiceAt DEF Same, BeginsAt, AnnouncesAt, FinishesAt, FailsAt

\* main makes the client's list once.
LEMMA HashesKept ==
    ASSUME TypeOK, [Next]_vars, NEW c \in Client, ~ClientStart(c)
    PROVE  /\ client'[c].hashes = client[c].hashes
           /\ client[c].at = "off" => client'[c].at = "off"
  <1>1. CASE Kept(c)
    BY <1>1 DEF Kept
  <1>2. CASE Serving(c) /\ ServerSends
    BY <1>2, SendNextIs, SentAllIs, WaitedIs DEF ServerSends, SendsOnly
  <1>3. CASE ServerServes(c)
    BY <1>3, NewConnectionIs, FileStructureIs, SendFileIs, FileSendIs, ClosedIs
    DEF ServerServes, Served
  <1>4. CASE ReaderThread(c)
    BY <1>4, ReadIs, InsertIs, ReplyIs DEF ReaderThread, ReaderOnly
  <1>5. CASE ClientLoop(c)
    BY <1>5, ClientSendFileIs, CanFilesBeSentIs, HeaderIs, FileIs, FilesFinishedIs,
       DisconnectedIs, ConnectionLostIs DEF ClientLoop, Took, ProcessKept
  <1>6. CASE ClientConnected(c) \/ GiveUp(c) \/ Environment(c)
    BY <1>6, AcceptIs, RefuseIs, LinkLostIs, ProcessEndsIs, ConnectedIs DEF Environment
  <1>7. QED
    BY <1>1, <1>2, <1>3, <1>4, <1>5, <1>6, StepOf DEF ClientStep, ClientProcess

LEMMA KnownStep ==
    ASSUME DifferentTokens, TypeOK, TypeOK', [Next]_vars, NEW c \in Client, Known(c),
           Lacking(c)' \subseteq Lacking(c)
    PROVE  Known(c)'
  <1>1. serverDisk' = serverDisk
    BY HostKept
  <1>2. CASE ClientStart(c)
    <2>1. client'[c].hashes = CreateAllHashFiles(client[c].disk)
      BY <1>2, StartIs
    <2>2. SUFFICES ASSUME NEW p \in Lacking(c),
                          HashFile(p, serverDisk[p]) \in CreateAllHashFiles(client[c].disk)
                   PROVE  FALSE
      BY <1>1, <2>1 DEF Known
    <2>3. PICK r \in Files(client[c].disk) :
             HashFile(p, serverDisk[p]) = HashFile(r, client[c].disk[r])
      BY <2>2 DEF CreateAllHashFiles
    <2>4. r = p /\ FirstToken[serverDisk[p]] = FirstToken[client[c].disk[p]]
      BY <2>3 DEF HashFile
    <2>5. serverDisk[p] \in Content /\ client[c].disk[p] \in Content
      <3>1. p \in Path /\ serverDisk[p] # Absent /\ client[c].disk[p] # Absent
        BY <2>3, <2>4 DEF Lacking, Files
      <3>2. serverDisk \in Disk /\ client[c].disk \in Disk
        BY DEF TypeOK, ClientState
      <3>3. QED  BY <3>1, <3>2 DEF Disk
    <2>6. QED  BY <2>2, <2>4, <2>5 DEF DifferentTokens, Lacking
  <1>3. CASE ~ClientStart(c)
    BY <1>1, <1>3, HashesKept DEF Known, HashFile
  <1>4. QED  BY <1>2, <1>3

\* A file that is in the list stays there ...
LEMMA ListedStays ==
    ASSUME TypeOK, TypeOK', Alone, CountsTrue, [Next]_vars, NEW p, Listed(p)
    PROVE  Listed(p)'
  <1>1. PICK i \in 1 .. fileCount : Slot(i) = Current(p)
    BY DEF Listed
  <1>2. serverDisk' = serverDisk /\ Slot(i)' = Slot(i)
    BY HostKept, ListGrows
  <1>3. fileCount' >= fileCount /\ fileCount \in Nat /\ fileCount' \in Nat
    BY ListGrows DEF TypeOK
  <1>4. i \in 1 .. fileCount'
    BY <1>3
  <1>5. QED  BY <1>1, <1>2, <1>4 DEF Listed, Current

\* ... and one that a thread has stored waits behind it.
LEMMA StoredStays ==
    ASSUME TypeOK, TypeOK', Alone, Alone', [Next]_vars, NEW c \in Client, Inserting(c),
           Inserting(c)'
    PROVE  fileCount' = fileCount /\ Slot(fileCount + 1)' = Slot(fileCount + 1)
  <1>1. CASE UNCHANGED <<fileList, fileCount>>
    BY <1>1 DEF Slot
  <1>2. ASSUME NEW d \in Client, ReaderAdd(d)
        PROVE  UNCHANGED <<fileList, fileCount>>
    <2>1. /\ reader[d].at = "add" /\ fileCount' = fileCount
          /\ reader'[d].at = "inserted" \/ fileList' = fileList
      BY <1>2, AddIs
    <2>2. d # c
      BY <2>1 DEF Inserting
    <2>3. reader'[d].at # "inserted"
      BY <2>2 DEF Alone, Inserting
    <2>4. QED  BY <2>1, <2>3
  <1>3. ASSUME NEW d \in Client, ReaderLoad(d)
        PROVE  UNCHANGED <<fileList, fileCount>>
    BY <1>3, LoadIs
  <1>4. ASSUME NEW d \in Client, ReaderStore(d)
        PROVE  FALSE
    <2>1. reader[d].at = "counted" /\ reader'[d].at = "add"
      BY <1>4, StoreIs
    <2>2. d = c
      BY <2>1 DEF Alone, Inserting
    <2>3. QED  BY <2>1, <2>2 DEF Inserting
  <1>5. QED  BY <1>1, <1>2, <1>3, <1>4, ListStep

\* Only its own thread, and the packet that starts it, change its place.
LEMMA ReaderMoves ==
    ASSUME TypeOK, [Next]_vars, NEW c \in Client
    PROVE  reader'[c] = reader[c] \/ ReaderThread(c) \/ reader'[c].at = "read"
  <1>1. CASE Kept(c)
    BY <1>1 DEF Kept, Untouched
  <1>2. CASE Serving(c) /\ ServerSends
    BY <1>2, SendNextIs, SentAllIs, WaitedIs DEF ServerSends, SendsOnly
  <1>3. CASE ServerServes(c)
    BY <1>3, NewConnectionIs, FileStructureIs, SendFileIs, FileSendIs, ClosedIs
    DEF ServerServes, IdleReader
  <1>4. CASE ClientLoop(c)
    BY <1>4, ClientSendFileIs, CanFilesBeSentIs, HeaderIs, FileIs, FilesFinishedIs,
       DisconnectedIs, ConnectionLostIs DEF ClientLoop, Took
  <1>5. CASE ClientStart(c) \/ ClientConnected(c) \/ GiveUp(c) \/ Environment(c)
    BY <1>5, AcceptIs, RefuseIs, LinkLostIs, ProcessEndsIs, StartIs, ConnectedIs
    DEF Environment, ServerKept
  <1>6. QED
    BY <1>1, <1>2, <1>3, <1>4, <1>5, StepOf DEF ClientStep, ClientProcess

\* The thread of a client loses none of the files that it has to insert.
LEMMA QueuedStep ==
    ASSUME TypeOK, TypeOK', Alone, Alone', CountsTrue, [Next]_vars, NEW c \in Client,
           Opening(c), Ends(c), Own(c), Published, Known(c), Queued(c),
           Lacking(c)' \subseteq Lacking(c)
    PROVE  Queued(c)'
  <1>1. serverDisk' = serverDisk /\ \A p : Current(p)' = Current(p)
    BY HostKept DEF Current
  <1>2. SUFFICES ASSUME NEW p \in Lacking(c), reader'[c].at \in {"add", "inserted", "counted"}
                 PROVE  \/ p \in reader'[c].toAdd \/ Listed(p)'
                        \/ Inserting(c)' /\ Slot(fileCount + 1)' = Current(p)
    BY <1>1 DEF Queued
  <1>3. Listed(p) => Listed(p)'
    BY ListedStays
  <1>4. ASSUME reader[c].at \in {"add", "inserted", "counted"}
        PROVE  \/ p \in reader[c].toAdd \/ Listed(p)'
               \/ Inserting(c) /\ Slot(fileCount + 1) = Current(p)
    BY <1>2, <1>3, <1>4 DEF Queued
  <1>5. CASE reader'[c] = reader[c]
    <2>1. Inserting(c)' <=> Inserting(c)
      BY <1>5 DEF Inserting
    <2>2. QED  BY <1>2, <1>4, <1>5, <2>1, StoredStays
  <1>6. CASE ReaderRead(c)
    <2> DEFINE h == HashFile(p, serverDisk[p])
               hashList == manifests[IpOf[c]].hashes
    <2>1. /\ reader[c].at = "read"
          /\ reader'[c].toAdd =
                {f[1] : f \in FindMissingFiles(hashList, serverHashes)} \ {ServerExe}
      BY <1>6, ReadIs
    <2>2. hashList = client[c].hashes
      BY <2>1 DEF Own, Mine
    <2>3. client[c].at # "off"
      BY <2>1 DEF Opening, Ends
    <2>4. h \notin client[c].hashes
      BY <1>2, <2>3 DEF Known
    <2>5. h \in serverHashes /\ h[1] = p /\ p # ServerExe
      BY <1>2 DEF Published, CreateAllHashFiles, Lacking, HashFile
    <2> HIDE DEF h, hashList
    <2>6. h \in FindMissingFiles(hashList, serverHashes)
      BY <2>2, <2>4, <2>5 DEF FindMissingFiles
    <2>7. QED  BY <2>1, <2>5, <2>6
  <1>7. CASE ReaderAdd(c)
    <2>1. /\ reader[c].at = "add" /\ fileCount' = fileCount
          /\ \E r \in reader[c].toAdd :
                /\ reader'[c].toAdd = reader[c].toAdd \ {r}
                /\ \/ serverDisk[r] = Absent
                   \/ \E i \in 1 .. fileCount : Slot(i) = <<r, serverDisk[r]>>
                   \/ reader'[c].at = "inserted" /\ Slot(fileCount + 1)' = <<r, serverDisk[r]>>
      BY <1>7, AddIs
    <2>2. PICK r \in reader[c].toAdd :
             /\ reader'[c].toAdd = reader[c].toAdd \ {r}
             /\ \/ serverDisk[r] = Absent \/ Listed(r)
                \/ reader'[c].at = "inserted" /\ Slot(fileCount + 1)' = Current(r)
      BY <2>1 DEF Listed, Current
    <2>3. ~Inserting(c)
      BY <2>1 DEF Inserting
    <2>4. p \in reader[c].toAdd \/ Listed(p)'
      BY <1>4, <2>1, <2>3
    <2>5. CASE p = r
      <3>1. serverDisk[p] # Absent
        BY <1>2 DEF Lacking, Files
      <3>2. QED  BY <1>3, <2>2, <2>5, <3>1 DEF Inserting
    <2>6. CASE p # r
      BY <2>2, <2>4, <2>6
    <2>7. QED  BY <2>5, <2>6
  <1>8. CASE ReaderLoad(c)
    <2>1. /\ reader[c].at = "inserted" /\ reader'[c].at = "counted"
          /\ reader'[c].toAdd = reader[c].toAdd
      BY <1>8, LoadIs
    <2>2. Inserting(c) /\ Inserting(c)'
      BY <2>1 DEF Inserting
    <2>3. QED  BY <1>4, <2>1, <2>2, StoredStays
  <1>9. CASE ReaderStore(c)
    <2>1. /\ reader[c].at = "counted" /\ reader'[c].toAdd = reader[c].toAdd
          /\ fileList' = fileList /\ fileCount' = fileCount + 1 /\ fileCount \in Nat
      BY <1>9, StoreIs, ListGrows DEF TypeOK
    <2>2. CASE Slot(fileCount + 1) = Current(p)
      <3>1. \A i \in Nat : Slot(i)' = Slot(i)
        BY <2>1 DEF Slot
      <3>2. PICK i \in 1 .. fileCount' : i = fileCount + 1
        BY <2>1
      <3>3. Slot(i)' = Current(p)'
        BY <1>1, <2>1, <2>2, <3>1, <3>2
      <3>4. QED  BY <3>2, <3>3 DEF Listed
    <2>3. QED  BY <1>4, <2>1, <2>2
  <1>10. ~ReaderReply(c) /\ reader'[c].at # "read"
    BY <1>2, ReplyIs DEF IdleReader
  <1>11. QED
    BY <1>5, <1>6, <1>7, <1>8, <1>9, <1>10, ReaderMoves DEF ReaderThread

\* Only the thread of c tells it that files can be sent.
LEMMA ToldBy ==
    ASSUME TypeOK, [Next]_vars, NEW c \in Client, Opening(c), ~ReaderReply(c),
           Has(toClient'[c], {"canFilesBeSent"})
    PROVE  Has(toClient[c], {"canFilesBeSent"})
  <1> DEFINE told == {"canFilesBeSent"}
  <1>1. ASSUME NEW p \in ClientPacket, SentToClientIs(c, p), p.type # "canFilesBeSent"
        PROVE  Has(toClient[c], told)
    BY <1>1, ToClientAfter
  <1>2. CASE Kept(c)
    BY <1>2 DEF Kept, Untouched
  <1>3. CASE Serving(c) /\ ServerSends
    <2>1. \/ toClient' = toClient \/ SentToClientIs(c, FilesFinished)
          \/ \E p \in ClientPacket : SentToClientIs(c, p) /\ p.type = "file"
      <3>1. CASE ServerSendNext
        BY <1>3, <3>1, SendNextIs, FileSent DEF Serving
      <3>2. QED  BY <1>3, <3>1, SentAllIs, WaitedIs DEF Serving, ServerSends
    <2>2. QED  BY <1>1, <2>1, SentTypes
  <1>4. CASE ServerServes(c)
    <2>1. \/ toClient'[c] = toClient[c]
          \/ SentToClientIs(c, SendFile(nextSet))
          \/ SentToClientIs(c, Header(FirstSet, fileCount))
      BY <1>4, NewConnectionIs, FileStructureIs, SendFileIs, FileSendIs, ClosedIs
      DEF ServerServes
    <2>2. QED  BY <1>1, <2>1, SentTypes
  <1>5. CASE ReaderThread(c)
    BY <1>5, ReadIs, InsertIs DEF ReaderThread
  <1>6. CASE ClientLoop(c)
    <2>1. CASE ClientFilesFinished(c)
      <3> DEFINE rest == Tail(toClient[c])
      <3>1. /\ Took(c, "filesFinished")
            /\ toClient'[c] = rest \/ toClient'[c] = rest \o <<Disconnected>>
        BY <2>1, FilesFinishedIs
      <3>2. "filesFinished" \notin told
        OBVIOUS
      <3>3. Disconnected \in ClientPacket /\ Disconnected.type \notin told
        BY SentTypes
      <3>4. rest \in Seq(ClientPacket)
        BY <3>1, HeadTailType DEF Took, TypeOK
      <3> HIDE DEF rest, told
      <3>5. Has(rest \o <<Disconnected>>, told) <=> Has(rest, told)
        BY <3>3, <3>4, HasSent
      <3>6. Has(toClient[c], told) <=> Has(rest, told)
        BY <3>1, <3>2, ClientTook DEF rest
      <3>7. QED  BY <3>1, <3>5, <3>6 DEF told
    <2>2. CASE ClientDisconnected(c)
      BY <2>2, DisconnectedIs, HasNothing
    <2>3. CASE ~ClientFilesFinished(c) /\ ~ClientDisconnected(c)
      <3>1. PICK type : Took(c, type) /\ toClient'[c] = Tail(toClient[c])
        BY <1>6, <2>3, ClientSendFileIs, CanFilesBeSentIs, HeaderIs, FileIs, ConnectionLostIs
        DEF ClientLoop
      <3>2. QED  BY <3>1, ClientTook
    <2>4. QED  BY <2>1, <2>2, <2>3
  <1>7. CASE ClientStart(c) \/ ClientConnected(c) \/ GiveUp(c) \/ Environment(c)
    <2>1. \/ toClient'[c] = toClient[c] \/ toClient'[c] = <<>>
          \/ IsCut(toClient'[c], toClient[c])
      BY <1>7, AcceptIs, RefuseIs, LinkLostIs, ProcessEndsIs, StartIs, ConnectedIs
      DEF Environment
    <2>2. QED  BY <2>1, HasNothing, CutAfter
  <1>8. QED
    BY <1>2, <1>3, <1>4, <1>5, <1>6, <1>7, StepOf DEF ClientStep, ClientProcess

\* When the client is told, the thread has nothing left to insert.
LEMMA AllListedStep ==
    ASSUME TypeOK, TypeOK', Alone, CountsTrue, [Next]_vars, NEW c \in Client,
           Opening(c), Ends(c), Queued(c), AllListed(c), Lacking(c)' \subseteq Lacking(c)
    PROVE  AllListed(c)'
  <1>1. SUFFICES ASSUME Has(toClient'[c], {"canFilesBeSent"}) \/ Started(c)', NEW p \in Lacking(c)
                 PROVE  Listed(p)
    BY ListedStays DEF AllListed
  <1>2. CASE ReaderReply(c)
    <2>1. reader[c].at = "add" /\ reader[c].toAdd = {}
      BY <1>2, ReplyIs
    <2>2. QED  BY <1>1, <2>1 DEF Queued, Inserting
  <1>3. CASE Has(toClient[c], {"canFilesBeSent"}) \/ Started(c)
    BY <1>1, <1>3 DEF AllListed
  <1>4. CASE ClientCanFilesBeSent(c)
    <2>1. Has(toClient[c], {"canFilesBeSent"})
      BY <1>4, CanFilesBeSentIs, ClientTook
    <2>2. QED  BY <1>3, <2>1
  <1>5. QED  BY <1>1, <1>2, <1>3, <1>4, ToldBy, NotYetStarted

\* A transfer of which the first packet is taken still brings the others ...
LEMMA ComingTail ==
    ASSUME NEW S, NEW q \in Seq(S), q # <<>>, InOrder(q), NEW entry, NEW n \in Int,
           Coming(q, entry, n)
    PROVE  /\ Head(q).type # "filesFinished"
           /\ Head(q).type = "header" => Coming(Tail(q), entry, n)
           /\ Head(q).type = "file" =>
                 (Head(q).entry = entry /\ 1 <= n) \/ Coming(Tail(q), entry, n - 1)
  <1> DEFINE rest == Tail(q)
  <1>1. PICK j \in 1 .. Len(q) :
           q[j].type = "file" /\ q[j].entry = entry /\ j - Ahead(q, "header") <= n
    BY DEF Coming
  <1>2. /\ Head(q) = q[1] /\ Len(q) \in Nat
        /\ \A i \in 2 .. Len(q) : i - 1 \in 1 .. Len(rest) /\ rest[i - 1] = q[i]
    BY TailIs
  <1>3. /\ ~Has(rest, {"header"})
        /\ Head(q).type = "header" => Has(q, {"header"})
        /\ Head(q).type = "file" => ~Has(q, {"header"})
    BY TransferTail
  <1>4. Head(q).type = "filesFinished" => Len(q) = 1
    BY <1>1, <1>2 DEF InOrder
  <1> HIDE DEF rest
  <1>5. /\ Ahead(rest, "header") = 0
        /\ Head(q).type = "header" => Ahead(q, "header") = 1
        /\ Head(q).type = "file" => Ahead(q, "header") = 0
    BY <1>3 DEF Ahead
  <1>6. CASE j = 1
    BY <1>1, <1>2, <1>5, <1>6
  <1>7. CASE j # 1
    <2>1. j - 1 \in 1 .. Len(rest) /\ rest[j - 1] = q[j]
      BY <1>1, <1>2, <1>7
    <2>2. Head(q).type = "header" => Coming(rest, entry, n)
      <3>1. Head(q).type = "header" => (j - 1) - Ahead(rest, "header") <= n
        BY <1>1, <1>5
      <3>2. QED  BY <1>1, <2>1, <3>1 DEF Coming
    <2>3. Head(q).type = "file" => Coming(rest, entry, n - 1)
      <3>1. Head(q).type = "file" => (j - 1) - Ahead(rest, "header") <= n - 1
        BY <1>1, <1>5
      <3>2. QED  BY <1>1, <2>1, <3>1 DEF Coming
    <2>4. Len(q) # 1
      BY <1>1, <1>7
    <2>5. QED  BY <1>4, <2>2, <2>3, <2>4 DEF rest
  <1>8. QED  BY <1>6, <1>7

\* ... and one of which the next packet is sent brings that too.
LEMMA ComingSent ==
    ASSUME NEW S, NEW q \in Seq(S), NEW p \in S, InOrder(q), ~Has(q, {"filesFinished"}),
           p.type \in {"file", "filesFinished"}, NEW entry, NEW n \in Int
    PROVE  /\ Coming(q, entry, n) => Coming(q \o <<p>>, entry, n)
           /\ p.type = "file" /\ p.entry = entry /\ FilesIn(q) + 1 <= n =>
                 Coming(q \o <<p>>, entry, n)
  <1> DEFINE longer == q \o <<p>>
  <1>1. /\ Len(longer) = Len(q) + 1 /\ Len(q) \in Nat
        /\ \A i \in 1 .. Len(q) : longer[i] = q[i]
        /\ longer[Len(q) + 1] = p
    BY SnocIs
  <1>2. Has(longer, {"header"}) <=> Has(q, {"header"})
    BY TransferSent
  <1> HIDE DEF longer
  <1>3. Ahead(longer, "header") = Ahead(q, "header") /\ Ahead(q, "header") \in Int
    BY <1>2 DEF Ahead
  <1>4. ASSUME Coming(q, entry, n)
        PROVE  Coming(longer, entry, n)
    <2>1. PICK j \in 1 .. Len(q) :
             q[j].type = "file" /\ q[j].entry = entry /\ j - Ahead(q, "header") <= n
      BY <1>4 DEF Coming
    <2>2. j \in 1 .. Len(longer) /\ longer[j] = q[j]
      BY <1>1
    <2>3. QED  BY <1>3, <2>1, <2>2 DEF Coming
  <1>5. ASSUME p.type = "file", p.entry = entry, FilesIn(q) + 1 <= n
        PROVE  Coming(longer, entry, n)
    <2>1. FilesIn(q) = Len(q) - Ahead(q, "header")
      BY <1>1, <1>3 DEF FilesIn, Ahead
    <2>2. Len(longer) - Ahead(longer, "header") <= n
      BY <1>1, <1>3, <1>5, <2>1
    <2>3. Len(longer) \in 1 .. Len(longer) /\ longer[Len(longer)] = p
      BY <1>1
    <2>4. QED  BY <1>5, <2>2, <2>3 DEF Coming
  <1>6. QED  BY <1>4, <1>5 DEF longer

\* Nothing that is sent or read changes what arrives.
LEMMA ArrivesKept ==
    ASSUME TypeOK, TypeOK', Alone, CountsTrue, [Next]_vars, NEW c \in Client,
           toClient'[c] = toClient[c], client'[c].download = client[c].download,
           Serving(c) \/ Serving(c)' => server' = server, NEW p, Arrives(c, p)
    PROVE  Arrives(c, p)'
  <1> DEFINE owed == Owed(toClient[c], client[c].download)
  <1>1. Current(p)' = Current(p) /\ owed' = owed
    BY HostKept DEF Current, Owed
  <1>2. CASE Coming(toClient[c], Current(p), owed)
    BY <1>1, <1>2 DEF Arrives
  <1>3. CASE /\ Serving(c) /\ server.at = "send"
             /\ \E i \in server.next .. fileCount :
                   Slot(i) = Current(p) /\ FilesIn(toClient[c]) + 1 + i - server.next <= owed
    <2>1. PICK i \in server.next .. fileCount :
             Slot(i) = Current(p) /\ FilesIn(toClient[c]) + 1 + i - server.next <= owed
      BY <1>3
    <2>2. server' = server /\ Serving(c)' /\ server.next \in Nat \ {0}
      BY <1>3, ServedClient DEF Serving
    <2>3. fileCount \in Nat /\ fileCount' \in Nat /\ fileCount' >= fileCount
      BY ListGrows DEF TypeOK
    <2>4. i \in 1 .. fileCount /\ i \in server.next .. fileCount'
      BY <2>1, <2>2, <2>3
    <2>5. Slot(i)' = Slot(i)
      BY <2>4, ListGrows
    <2> HIDE DEF owed
    <2>6. \E k \in server'.next .. fileCount' :
             /\ Slot(k)' = Current(p)'
             /\ FilesIn(toClient'[c]) + 1 + k - server'.next <= owed'
      BY <1>1, <2>1, <2>2, <2>4, <2>5
    <2>7. QED  BY <1>3, <2>2, <2>6 DEF Arrives, owed
  <1>4. QED  BY <1>2, <1>3 DEF Arrives

\* UpdateServer puts the next file behind those that are on their way.
LEMMA ArrivesSent ==
    ASSUME TypeOK, TypeOK', [Next]_vars, NEW c \in Client, OneTurn(c), Delivery(c),
           link[c] = "up", Serving(c), ServerSends, NEW p, Arrives(c, p)
    PROVE  Arrives(c, p)'
  <1> DEFINE download == client[c].download
             owed == Owed(toClient[c], download)
  <1>1. /\ SendsOnly /\ client' = client /\ fileCount' = fileCount /\ fileList' = fileList
        /\ server # Receiving /\ server.client = c
    BY SendNextIs, SentAllIs, WaitedIs DEF ServerSends, Serving, SendsOnly
  <1>2. /\ InOrder(toClient[c]) /\ ~Has(toClient[c], {"filesFinished"})
        /\ toClient[c] \in Seq(ClientPacket)
    <2>1. Has(toClient[c], {"filesFinished"}) => Has(toClient[c], TurnPacket)
      BY DEF Has, TurnPacket
    <2>2. QED  BY <2>1 DEF Delivery, Expecting, Counted, OneTurn, TypeOK
  <1>3. owed \in Int /\ FilesIn(toClient[c]) \in Int /\ fileCount \in Int
    BY <1>2, OwedType DEF TypeOK
  <1>4. Current(p)' = Current(p) /\ \A i : Slot(i)' = Slot(i)
    BY <1>1, HostKept DEF Current, Slot
  <1>5. ASSUME NEW packet \in ClientPacket, SentToClientIs(c, packet),
               packet.type \in {"file", "filesFinished"}
        PROVE  /\ Owed(toClient'[c], client'[c].download) = owed
               /\ FilesIn(toClient'[c]) =
                     FilesIn(toClient[c]) + (IF packet.type = "file" THEN 1 ELSE 0)
               /\ Coming(toClient[c], Current(p), owed) => Coming(toClient'[c], Current(p), owed)
               /\ packet.type = "file" /\ packet.entry = Current(p)
                     /\ FilesIn(toClient[c]) + 1 <= owed
                  => Coming(toClient'[c], Current(p), owed)
    <2>1. toClient'[c] = toClient[c] \o <<packet>>
      BY <1>5 DEF SentToClientIs
    <2>2. Owed(toClient[c] \o <<packet>>, download) = owed
      BY <1>2, <1>5, TransferSent DEF Owed
    <2> HIDE DEF owed
    <2>3. QED  BY <1>1, <1>2, <1>3, <1>5, <2>1, <2>2, TransferSent, ComingSent
  <1> HIDE DEF download, owed
  <1>6. CASE ServerSendNext
    <2> DEFINE packet == File(server.set, Slot(server.next))
    <2>1. /\ SentToClientIs(c, packet)
          /\ server.at = "send" /\ server.next <= fileCount /\ server.next \in Int
          /\ server' = [server EXCEPT !.next = @ + 1]
      BY <1>1, <1>6, SendNextIs, ServedClient
    <2>2. /\ server' # Receiving /\ server'.client = c /\ server'.at = "send"
          /\ server'.next = server.next + 1
      BY <1>1, <2>1 DEF TypeOK, ServerState, Receiving
    <2>3. packet \in ClientPacket /\ packet.type = "file" /\ packet.entry = Slot(server.next)
      BY <1>1, <2>1, FileSent DEF File
    <2> HIDE DEF packet
    <2>4. /\ Owed(toClient'[c], client'[c].download) = owed
          /\ FilesIn(toClient'[c]) = FilesIn(toClient[c]) + 1
          /\ Coming(toClient[c], Current(p), owed) => Coming(toClient'[c], Current(p), owed)
          /\ packet.entry = Current(p) /\ FilesIn(toClient[c]) + 1 <= owed
             => Coming(toClient'[c], Current(p), owed)
      BY <1>5, <2>1, <2>3
    <2>5. CASE Coming(toClient[c], Current(p), owed)
      BY <1>4, <2>4, <2>5 DEF Arrives
    <2>6. CASE \E i \in server.next .. fileCount :
                  Slot(i) = Current(p) /\ FilesIn(toClient[c]) + 1 + i - server.next <= owed
      <3>1. PICK i \in server.next .. fileCount :
               Slot(i) = Current(p) /\ FilesIn(toClient[c]) + 1 + i - server.next <= owed
        BY <2>6
      <3>2. CASE i = server.next
        <4>1. packet.entry = Current(p) /\ FilesIn(toClient[c]) + 1 <= owed
          BY <1>3, <2>1, <2>3, <3>1, <3>2
        <4>2. QED  BY <1>4, <2>4, <4>1 DEF Arrives
      <3>3. CASE i # server.next
        <4>1. i \in server'.next .. fileCount'
          BY <1>1, <1>3, <2>1, <2>2, <3>1, <3>3
        <4>2. FilesIn(toClient'[c]) + 1 + i - server'.next <= owed
          BY <1>3, <2>1, <2>2, <2>4, <3>1
        <4>3. QED  BY <1>4, <2>2, <2>4, <3>1, <4>1, <4>2 DEF Arrives, Serving
      <3>4. QED  BY <3>2, <3>3
    <2>7. QED  BY <2>5, <2>6 DEF Arrives, owed, download
  <1>7. CASE ServerSent
    <2>1. /\ server.at = "send" /\ server.next > fileCount /\ server.next \in Int
          /\ toClient' = toClient
      BY <1>1, <1>7, SentAllIs, ServedClient
    <2>2. Coming(toClient[c], Current(p), owed)
      BY <1>3, <2>1 DEF Arrives, owed, download
    <2>3. QED  BY <1>1, <1>4, <2>1, <2>2 DEF Arrives, owed, download
  <1>8. CASE ServerWaited
    <2>1. SentToClientIs(c, FilesFinished) /\ server.at = "wait"
      BY <1>1, <1>8, WaitedIs
    <2>2. Coming(toClient[c], Current(p), owed)
      BY <2>1 DEF Arrives, owed, download
    <2>3. FilesFinished \in ClientPacket /\ FilesFinished.type = "filesFinished"
      BY SentTypes
    <2>4. /\ Owed(toClient'[c], client'[c].download) = owed
          /\ Coming(toClient'[c], Current(p), owed)
      BY <1>5, <2>1, <2>2, <2>3
    <2>5. QED  BY <1>4, <2>4 DEF Arrives
  <1>9. QED  BY <1>6, <1>7, <1>8 DEF ServerSends

\* What a client that reads a transfer is still owed.
LEMMA TookOwed ==
    ASSUME TypeOK, NEW c \in Client, SetsZero(c), Delivery(c), link[c] = "up", Expecting(c),
           ClientHeader(c) \/ ClientFile(c)
    PROVE  /\ toClient[c] \in Seq(ClientPacket) /\ toClient[c] # <<>> /\ InOrder(toClient[c])
           /\ toClient'[c] = Tail(toClient[c]) /\ link' = link
           /\ UNCHANGED <<server, fileList, fileCount>>
           /\ Head(toClient[c]).type \in {"header", "file"}
           /\ Owed(toClient[c], client[c].download) \in Int
           /\ Head(toClient[c]).type = "header" =>
                 Owed(toClient'[c], client'[c].download) =
                    Owed(toClient[c], client[c].download)
           /\ Head(toClient[c]).type = "file" /\ Owed(toClient[c], client[c].download) >= 1 =>
                 /\ Owed(toClient'[c], client'[c].download) =
                       Owed(toClient[c], client[c].download) - 1
                 /\ client'[c].disk = Written(client[c].disk, Head(toClient[c]).entry)
  <1> DEFINE q == toClient[c]
             download == client[c].download
             rest == Tail(q)
  <1>1. /\ q \in Seq(ClientPacket) /\ q # <<>> /\ client[c].at = "run"
        /\ Head(q).type \in {"header", "file"}
        /\ toClient'[c] = rest /\ link' = link
        /\ UNCHANGED <<server, fileList, fileCount>>
    BY HeaderIs, FileIs DEF Took, TypeOK
  <1>2. /\ InOrder(q)
        /\ IF Has(q, {"header"}) THEN download.at = "header"
           ELSE download.at \in {"files", "complete"}
    BY DEF Delivery, Counted
  <1>3. Owed(q, download) \in Int /\ download \in Download
    BY <1>2, OwedType DEF TypeOK, ClientState
  <1>4. /\ ~Has(rest, {"header"}) /\ Head(q) = q[1]
        /\ Head(q).type = "header" => Has(q, {"header"})
        /\ Head(q).type = "file" => ~Has(q, {"header"})
    BY <1>1, <1>2, TransferTail
  <1>5. Head(q).set = download.set
    <2>1. /\ Only(q, OfFirstSet)
          /\ Has(q, {"header", "file"}) => download.set = FirstSet
      BY <1>1 DEF SetsZero
    <2>2. 1 \in 1 .. Len(q)
      BY <1>1
    <2>3. Has(q, {"header", "file"})
      BY <1>1, <1>4, <2>2 DEF Has
    <2>4. Head(q).set = FirstSet
      BY <1>1, <1>4, <2>1, <2>2 DEF Only, OfFirstSet
    <2>5. QED  BY <2>1, <2>3, <2>4
  <1>6. Owed(rest, client'[c].download) = client'[c].download.left
    BY <1>4 DEF Owed
  <1>7. ASSUME Head(q).type = "header"
        PROVE  Owed(rest, client'[c].download) = Owed(q, download)
    <2>1. ~ClientFile(c)
      BY <1>7, FileIs DEF Took
    <2>2. client'[c].download = Awaiting(download, Head(q).count)
      BY <1>2, <1>4, <1>5, <1>7, <2>1, HeaderIs
    <2>3. Owed(q, download) = Head(q).count
      BY <1>4, <1>7 DEF Owed
    <2>4. client'[c].download.left = Head(q).count
      BY <1>3, <2>2, AwaitingIs
    <2>5. QED  BY <1>6, <2>3, <2>4
  <1>8. ASSUME Head(q).type = "file", Owed(q, download) >= 1
        PROVE  /\ Owed(rest, client'[c].download) = Owed(q, download) - 1
               /\ client'[c].disk = Written(client[c].disk, Head(q).entry)
    <2>1. ~ClientHeader(c)
      BY <1>8, HeaderIs DEF Took
    <2>2. Owed(q, download) = download.left
      BY <1>4, <1>8 DEF Owed
    <2>3. download.at = "files"
      BY <1>2, <1>3, <1>4, <1>8, <2>2 DEF Download
    <2>4. /\ client'[c].download = Awaiting(download, download.left - 1)
          /\ client'[c].disk = Written(client[c].disk, Head(q).entry)
      BY <1>5, <2>1, <2>3, FileIs
    <2>5. client'[c].download.left = download.left - 1
      BY <1>3, <2>4, AwaitingIs
    <2>6. QED  BY <1>6, <2>2, <2>4, <2>5
  <1>9. QED  BY <1>1, <1>2, <1>3, <1>7, <1>8

\* A client that reads a file has it or still waits for it.
LEMMA ArrivesTook ==
    ASSUME TypeOK, TypeOK', [Next]_vars, NEW c \in Client, SetsZero(c), Delivery(c),
           link[c] = "up", Expecting(c), ClientHeader(c) \/ ClientFile(c),
           NEW p \in Lacking(c), Arrives(c, p)
    PROVE  Arrives(c, p)' \/ p \notin Lacking(c)'
  <1> DEFINE q == toClient[c]
             rest == Tail(q)
             owed == Owed(q, client[c].download)
             left == Owed(rest, client'[c].download)
             entry == Current(p)
  <1>1. /\ q \in Seq(ClientPacket) /\ q # <<>> /\ InOrder(q)
        /\ toClient'[c] = rest /\ UNCHANGED <<server, fileList, fileCount>>
        /\ Head(q).type \in {"header", "file"} /\ owed \in Int
        /\ Head(q).type = "header" => left = owed
        /\ Head(q).type = "file" /\ owed >= 1 =>
              /\ left = owed - 1
              /\ client'[c].disk = Written(client[c].disk, Head(q).entry)
    BY TookOwed
  <1>2. /\ FilesIn(q) \in Nat /\ FilesIn(rest) \in Nat
        /\ Head(q).type = "header" => FilesIn(rest) = FilesIn(q)
        /\ Head(q).type = "file" => FilesIn(rest) = FilesIn(q) - 1 /\ ~Has(q, {"header"})
    BY <1>1, TransferTail
  <1>3. Current(p)' = entry /\ (\A i : Slot(i)' = Slot(i)) /\ serverDisk' = serverDisk
    BY <1>1, HostKept DEF Current, Slot
  <1>4. Coming(q, entry, owed) =>
           /\ Head(q).type = "header" => Coming(rest, entry, owed)
           /\ Head(q).type = "file" =>
                 (Head(q).entry = entry /\ 1 <= owed) \/ Coming(rest, entry, owed - 1)
    BY <1>1, ComingTail
  <1>5. /\ fileCount \in Nat
        /\ Serving(c) /\ server.at = "send" => server.next \in Nat \ {0}
    BY ServedClient DEF TypeOK, Serving
  <1>6. \/ Coming(q, entry, owed)
        \/ /\ Serving(c) /\ server.at = "send"
           /\ \E i \in server.next .. fileCount :
                 Slot(i) = entry /\ FilesIn(q) + 1 + i - server.next <= owed
    BY DEF Arrives
  <1>7. Head(q).type = "file" => owed >= 1
    <2>1. SUFFICES ASSUME Head(q).type = "file"
                   PROVE  owed >= 1
      OBVIOUS
    <2>2. CASE Coming(q, entry, owed)
      <3>1. PICK j \in 1 .. Len(q) : j - Ahead(q, "header") <= owed
        BY <2>2 DEF Coming
      <3>2. Ahead(q, "header") = 0
        BY <1>2, <2>1 DEF Ahead
      <3> HIDE DEF owed
      <3>3. QED  BY <1>1, <3>1, <3>2
    <2>3. CASE /\ Serving(c) /\ server.at = "send"
               /\ \E i \in server.next .. fileCount :
                     FilesIn(q) + 1 + i - server.next <= owed
      <3> HIDE DEF owed
      <3>1. QED  BY <1>1, <1>2, <1>5, <2>3
    <2>4. QED  BY <1>6, <2>2, <2>3
  <1>8. Head(q).type = "file" /\ Head(q).entry = entry => p \notin Lacking(c)'
    <2>1. SUFFICES ASSUME Head(q).type = "file", Head(q).entry = entry
                   PROVE  client'[c].disk[p] = serverDisk[p]
      BY <1>3 DEF Lacking
    <2>2. p \in Path /\ serverDisk[p] # Absent /\ p # ClientExe
      BY DEF Lacking, Files
    <2>3. serverDisk[p] \in Content
      BY <2>2 DEF TypeOK, Disk
    <2>4. entry # Hole /\ entry[1] = p /\ entry[2] = serverDisk[p]
      BY <2>2, <2>3, UpdateSessionAssumption DEF Current
    <2>5. client'[c].disk = [client[c].disk EXCEPT ![p] = serverDisk[p]]
      <3>1. client'[c].disk = Written(client[c].disk, entry)
        BY <1>1, <1>7, <2>1
      <3>2. QED  BY <2>2, <2>4, <3>1 DEF Written
    <2>6. client[c].disk \in [Path -> Content \cup {Absent}]
      BY DEF TypeOK, ClientState, Disk
    <2>7. QED  BY <2>2, <2>5, <2>6
  <1>9. left \in Int /\ (Head(q).type = "file" => left = owed - 1)
    BY <1>1, <1>7
  <1> HIDE DEF owed, left, rest, entry, q
  <1>10. CASE Coming(q, entry, owed)
    <2>1. Coming(rest, entry, left) \/ p \notin Lacking(c)'
      BY <1>1, <1>4, <1>8, <1>9, <1>10
    <2>2. QED  BY <1>1, <1>3, <2>1 DEF Arrives, left
  <1>11. CASE /\ Serving(c) /\ server.at = "send"
              /\ \E i \in server.next .. fileCount :
                    Slot(i) = entry /\ FilesIn(q) + 1 + i - server.next <= owed
    <2>1. PICK i \in server.next .. fileCount :
             Slot(i) = entry /\ FilesIn(q) + 1 + i - server.next <= owed
      BY <1>11
    <2>2. /\ i \in Int /\ server.next \in Int /\ owed \in Int
          /\ FilesIn(q) \in Int /\ FilesIn(rest) \in Int
      BY <1>1, <1>2, <1>5, <1>11, <2>1
    <2>3. FilesIn(rest) + 1 + i - server.next <= left
      <3>1. CASE Head(q).type = "header"
        BY ONLY <1>1, <1>2, <2>1, <2>2, <3>1
      <3>2. CASE Head(q).type = "file"
        BY ONLY <1>2, <1>9, <2>1, <2>2, <3>2
      <3>3. QED  BY <1>1, <3>1, <3>2
    <2>4. Serving(c)' /\ server' = server /\ fileCount' = fileCount
      BY <1>1, <1>11 DEF Serving
    <2>5. QED  BY <1>1, <1>3, <1>11, <2>1, <2>3, <2>4 DEF Arrives, left
  <1>12. QED  BY <1>6, <1>10, <1>11

\* With ID_FILESFINISHED nothing more arrives.
LEMMA NothingArrives ==
    ASSUME TypeOK, NEW c \in Client, OneTurn(c), Delivery(c), link[c] = "up",
           ClientFilesFinished(c), NEW p
    PROVE  Expecting(c) /\ ~Arrives(c, p)
  <1> DEFINE q == toClient[c]
             owed == Owed(q, client[c].download)
  <1>1. q \in Seq(ClientPacket) /\ q # <<>> /\ Head(q).type = "filesFinished"
    BY FilesFinishedIs DEF Took, TypeOK
  <1>2. Has(q, {"filesFinished"}) /\ Has(q, TurnPacket)
    <2>1. "filesFinished" \in TurnPacket
      BY DEF TurnPacket
    <2>2. QED  BY <1>1, <2>1, HasTail
  <1>3. Expecting(c) /\ ~Serving(c)
    BY <1>2 DEF Expecting, OneTurn
  <1>4. InOrder(q) /\ owed \in Int
    BY <1>3, OwedType DEF Delivery, Counted
  <1>5. ~Coming(q, Current(p), owed)
    BY <1>1, <1>4, ComingTail
  <1>6. QED  BY <1>3, <1>5 DEF Arrives

\* At ID_CLIENTFILESEND all that a client lacks is in the list, and all that is
\* in the list is announced.
LEMMA ArrivesAnnounced ==
    ASSUME TypeOK, TypeOK', [Next]_vars, NEW c \in Client, Ends(c), OneTurn(c),
           Started(c) => Later(c), Delivery(c), link[c] = "up", ServerFileSend(c),
           NEW p, Listed(p)
    PROVE  Arrives(c, p)'
  <1>1. /\ Served(c, "clientFileSend") /\ SentToClientIs(c, Header(FirstSet, fileCount))
        /\ server' = [at |-> "send", client |-> c, set |-> FirstSet, next |-> 1]
        /\ UNCHANGED <<client, link, fileList, fileCount>>
    BY FileSendIs DEF Served
  <1>2. Has(toServer[c], {"clientFileSend"})
    BY <1>1, ServerTook
  <1>3. toClient[c] = <<>>
    BY <1>2, NothingElse, ExpectingStarted DEF Delivery, Later, OneTurn, Expecting,
       Counted, Has, TurnPacket
  <1> DEFINE packet == Header(FirstSet, fileCount)
             q == <<packet>>
  <1>4. packet.type = "header" /\ packet.count = fileCount /\ fileCount \in Nat
    BY DEF Header, TypeOK
  <1>5. toClient'[c] = q
    BY <1>1, <1>3 DEF SentToClientIs
  <1>6. Len(q) = 1 /\ q[1] = packet
    OBVIOUS
  <1> HIDE DEF packet, q
  <1>7. Has(q, {"header"}) /\ ~Has(q, {"filesFinished"})
    BY <1>4, <1>6 DEF Has
  <1>8. FilesIn(q) = 0 /\ Owed(q, client'[c].download) = fileCount
    BY <1>4, <1>6, <1>7 DEF FilesIn, Ahead, Owed
  <1>9. PICK i \in 1 .. fileCount : Slot(i) = Current(p)
    BY DEF Listed
  <1>10. /\ server' # Receiving /\ server'.client = c /\ server'.at = "send"
         /\ server'.next = 1 /\ Slot(i)' = Slot(i) /\ Current(p)' = Current(p)
    BY <1>1, HostKept DEF Receiving, Slot, Current
  <1>11. FilesIn(q) + 1 + i - server'.next <= Owed(q, client'[c].download)
    BY <1>4, <1>8, <1>9, <1>10
  <1>12. QED  BY <1>1, <1>5, <1>9, <1>10, <1>11 DEF Arrives, Serving

\* Nothing is expected after a step, or nothing changes in what comes.
LEMMA AllArriveKept ==
    ASSUME TypeOK, TypeOK', Alone, CountsTrue, [Next]_vars, NEW c \in Client,
           AllArrive(c), Lacking(c)' \subseteq Lacking(c),
           link'[c] = "closed" => link[c] = "closed",
           \/ link'[c] # "up"
           \/ ~Serving(c)' /\ ~Has(toClient'[c], {"filesFinished"})
           \/ /\ link[c] = "up" /\ toClient'[c] = toClient[c]
              /\ client'[c].download = client[c].download
              /\ Serving(c) \/ Serving(c)' => server' = server
    PROVE  AllArrive(c)'
  <1>1. SUFFICES ASSUME link'[c] = "up", Expecting(c)', NEW p \in Lacking(c)'
                 PROVE  Arrives(c, p)'
    BY DEF AllArrive
  <1>2. /\ link[c] = "up" /\ toClient'[c] = toClient[c]
        /\ client'[c].download = client[c].download
        /\ Serving(c) \/ Serving(c)' => server' = server
    BY <1>1 DEF Expecting
  <1>3. Expecting(c)
    BY <1>1, <1>2 DEF Expecting, Serving
  <1>4. Arrives(c, p)
    BY <1>1, <1>2, <1>3 DEF AllArrive
  <1>5. QED  BY <1>2, <1>4, ArrivesKept

\* UpdateServer takes a packet of c.
LEMMA AllArriveServed ==
    ASSUME TypeOK, TypeOK', Alone, CountsTrue, [Next]_vars, NEW c \in Client, Ends(c),
           OneTurn(c), Started(c) => Later(c), Delivery(c), AllListed(c), AllArrive(c),
           Lacking(c)' \subseteq Lacking(c), ServerServes(c)
    PROVE  AllArrive(c)'
  <1>1. CASE ServerFileStructure(c) \/ ServerSendFile(c) \/ ServerClosed(c)
    <2>1. /\ \E type : Served(c, type)
          /\ toClient'[c] = toClient[c] /\ server' = server
      BY <1>1, FileStructureIs, SendFileIs, ClosedIs
    <2>2. QED  BY <2>1, AllArriveKept DEF Served
  <1>2. CASE ServerNewConnection(c)
    <2>1. /\ Served(c, "new") /\ SentToClientIs(c, SendFile(nextSet))
          /\ server' = server
      BY <1>2, NewConnectionIs
    <2>2. Has(toServer[c], EarlyPacket)
      <3>1. "new" \in EarlyPacket
        BY DEF EarlyPacket
      <3>2. QED  BY <2>1, <3>1, ServerTook
    <2>3. ~Expecting(c)
      BY <2>2, ExpectingStarted DEF Later
    <2>4. ~Has(toClient'[c], {"filesFinished"})
      BY <2>1, <2>3, SentTypes, ToClientAfter DEF Expecting
    <2>5. ~Serving(c)' /\ link' = link
      BY <2>1, <2>3 DEF Served, Expecting, Serving
    <2>6. QED  BY <2>4, <2>5, AllArriveKept
  <1>3. CASE ServerFileSend(c)
    <2>1. Served(c, "clientFileSend") /\ link' = link
      BY <1>3, FileSendIs DEF Served
    <2>2. Has(toServer[c], {"clientFileSend"})
      BY <2>1, ServerTook
    <2>3. \A p \in Lacking(c) : Listed(p)
      BY <2>2, ExpectingStarted DEF AllListed
    <2>4. link[c] = "up" => \A p \in Lacking(c) : Arrives(c, p)'
      BY <1>3, <2>3, ArrivesAnnounced
    <2>5. QED  BY <2>1, <2>4 DEF AllArrive
  <1>4. QED  BY <1>1, <1>2, <1>3 DEF ServerServes

\* A step of the thread of c.
LEMMA AllArriveReader ==
    ASSUME TypeOK, TypeOK', Alone, CountsTrue, [Next]_vars, NEW c \in Client,
           Started(c) => Later(c), AllArrive(c), Lacking(c)' \subseteq Lacking(c),
           ReaderThread(c)
    PROVE  AllArrive(c)'
  <1>1. /\ ReaderOnly /\ Busy(c)
        /\ \/ toClient'[c] = toClient[c]
           \/ SentToClientIs(c, CanFilesBeSent(reader[c].toDelete))
    BY ReadIs, InsertIs, ReplyIs DEF ReaderThread, Busy
  <1>2. ~Expecting(c)
    BY <1>1, ExpectingStarted DEF Later
  <1>3. ~Has(toClient'[c], {"filesFinished"})
    BY <1>1, <1>2, SentTypes, ToClientAfter DEF Expecting
  <1>4. ~Serving(c)' /\ link' = link
    BY <1>1, <1>2 DEF ReaderOnly, Expecting, Serving
  <1>5. QED  BY <1>3, <1>4, AllArriveKept

\* A step of the message loop of c.
LEMMA AllArriveLoop ==
    ASSUME TypeOK, TypeOK', Alone, CountsTrue, [Next]_vars, NEW c \in Client, Ends(c),
           OneTurn(c), Started(c) => Later(c), SetsZero(c), Delivery(c), AllArrive(c),
           Lacking(c)' \subseteq Lacking(c), ClientLoop(c)
    PROVE  AllArrive(c)'
  <1>1. PICK type : Took(c, type)
    BY ClientSendFileIs, CanFilesBeSentIs, HeaderIs, FileIs, FilesFinishedIs, DisconnectedIs,
       ConnectionLostIs DEF ClientLoop
  <1>2. Serving(c)' <=> Serving(c)
    BY <1>1 DEF Took, Serving
  <1>3. CASE ClientSendFile(c) \/ ClientCanFilesBeSent(c)
    <2>1. /\ Took(c, "sendFile") \/ Took(c, "canFilesBeSent")
          /\ toClient'[c] = Tail(toClient[c]) /\ link' = link
      BY <1>3, ClientSendFileIs, CanFilesBeSentIs
    <2>2. /\ Has(toClient[c], EarlyPacket)
          /\ Has(toClient'[c], {"filesFinished"}) => Has(toClient[c], {"filesFinished"})
      <3>1. "sendFile" \in EarlyPacket /\ "canFilesBeSent" \in EarlyPacket
        BY DEF EarlyPacket
      <3>2. QED  BY <2>1, <3>1, ClientTook
    <2>3. ~Expecting(c)
      BY <2>2, ExpectingStarted DEF Later
    <2>4. QED  BY <1>2, <2>1, <2>2, <2>3, AllArriveKept DEF Expecting
  <1>4. CASE (ClientHeader(c) \/ ClientFile(c)) /\ link[c] = "up"
    <2>1. PICK k \in {"header", "file"} :
             Took(c, k) /\ toClient'[c] = Tail(toClient[c]) /\ link' = link
      BY <1>4, HeaderIs, FileIs
    <2>2. Has(toClient[c], {"header", "file"})
      BY <2>1, ClientTook
    <2>3. Expecting(c)
      BY <1>4, <2>2 DEF Delivery
    <2>4. ASSUME NEW p \in Lacking(c)'
          PROVE  Arrives(c, p)'
      <3>1. p \in Lacking(c) /\ Arrives(c, p)
        BY <1>4, <2>3, <2>4 DEF AllArrive
      <3>2. QED  BY <1>4, <2>3, <2>4, <3>1, ArrivesTook
    <2>5. QED  BY <1>4, <2>1, <2>4 DEF AllArrive
  <1>5. CASE ClientFilesFinished(c) /\ link[c] = "up"
    <2>1. link'[c] = "closed"
      BY <1>5, FilesFinishedIs
    <2>2. Expecting(c) /\ \A p : ~Arrives(c, p)
      BY <1>5, NothingArrives
    <2>3. Lacking(c)' = {}
      BY <1>5, <2>2 DEF AllArrive
    <2>4. QED  BY <2>1, <2>3 DEF AllArrive
  <1>6. CASE (ClientHeader(c) \/ ClientFile(c) \/ ClientFilesFinished(c)) /\ link[c] # "up"
    <2>1. link'[c] = link[c]
      BY <1>6, HeaderIs, FileIs, FilesFinishedIs
    <2>2. QED  BY <1>6, <2>1, AllArriveKept
  <1>7. CASE ClientDisconnected(c) \/ ClientConnectionLost(c)
    <2>1. /\ Took(c, "disconnected") \/ Took(c, "lost")
          /\ link' = link
      BY <1>7, DisconnectedIs, ConnectionLostIs
    <2>2. Has(toClient[c], {"disconnected"}) \/ Has(toClient[c], {"lost"})
      BY <2>1, ClientTook
    <2>3. QED  BY <2>1, <2>2, AllArriveKept DEF Ends
  <1>8. QED  BY <1>3, <1>4, <1>5, <1>6, <1>7 DEF ClientLoop

\* Connections come, break and are refused; processes begin and end.
LEMMA AllArriveOutside ==
    ASSUME TypeOK, TypeOK', Alone, CountsTrue, [Next]_vars, NEW c \in Client, Opening(c),
           Ends(c), AllArrive(c), Lacking(c)' \subseteq Lacking(c),
           ClientStart(c) \/ ClientConnected(c) \/ GiveUp(c) \/ Environment(c)
    PROVE  AllArrive(c)'
  <1>1. CASE ClientStart(c)
    <2>1. link'[c] = "none"
      BY <1>1, StartIs DEF Ends
    <2>2. QED  BY <2>1, AllArriveKept
  <1>2. CASE ClientConnected(c)
    <2>1. /\ ServerKept /\ link' = link /\ link[c] = "up" /\ toClient' = toClient
          /\ client'[c].download = client[c].download
      BY <1>2, ConnectedIs
    <2>2. QED  BY <2>1, AllArriveKept DEF ServerKept
  <1>3. CASE GiveUp(c) \/ ClientDies(c)
    <2>1. link'[c] # "up" /\ (link'[c] = "lost" \/ link'[c] = link[c])
      BY <1>3, ProcessEndsIs
    <2>2. QED  BY <2>1, AllArriveKept
  <1>4. CASE LinkLost(c) \/ Refuse(c)
    <2>1. link'[c] \in {"lost", "refused"}
      BY <1>4, LinkLostIs, RefuseIs
    <2>2. QED  BY <2>1, AllArriveKept
  <1>5. CASE Accept(c)
    <2>1. /\ ServerKept /\ toClient' = toClient
          /\ link[c] = "none" /\ link'[c] = "up"
      BY <1>5, AcceptIs
    <2>2. toClient[c] = <<>> /\ ~Serving(c)
      BY <2>1 DEF Opening, Ends
    <2>3. ~Serving(c)' /\ ~Has(toClient'[c], {"filesFinished"})
      BY <2>1, <2>2, HasNothing DEF ServerKept, Serving
    <2>4. QED  BY <2>1, <2>3, AllArriveKept
  <1>6. QED  BY <1>1, <1>2, <1>3, <1>4, <1>5 DEF Environment

LEMMA AllArriveStep ==
    ASSUME TypeOK, TypeOK', Alone, CountsTrue, [Next]_vars, NEW c \in Client, Opening(c),
           Ends(c), OneTurn(c), Started(c) => Later(c), SetsZero(c), Delivery(c),
           AllListed(c), AllArrive(c), Lacking(c)' \subseteq Lacking(c)
    PROVE  AllArrive(c)'
  <1>1. CASE Kept(c)
    <2>1. /\ link'[c] = link[c] /\ toClient'[c] = toClient[c] /\ client'[c] = client[c]
          /\ Serving(c) \/ Serving(c)' => server' = server
      BY <1>1 DEF Kept, Untouched
    <2>2. QED  BY <2>1, AllArriveKept
  <1>2. CASE Serving(c) /\ ServerSends
    <2>1. link' = link
      BY <1>2, SendNextIs, SentAllIs, WaitedIs DEF ServerSends, SendsOnly
    <2>2. link[c] = "up" => \A p \in Lacking(c)' : Arrives(c, p)'
      BY <1>2, ArrivesSent DEF AllArrive, Expecting
    <2>3. QED  BY <2>1, <2>2 DEF AllArrive
  <1>3. CASE ClientStep(c)
    BY <1>3, AllArriveServed, AllArriveReader, AllArriveLoop, AllArriveOutside
    DEF ClientStep, ClientProcess
  <1>4. QED  BY <1>1, <1>2, <1>3, StepOf

-----------------------------------------------------------------------------
(* A client that was told that the files are finished has them all.        *)

\* Every file that a client lacks is on its way through the four places.
Coverage == \A c \in Client : Known(c) /\ Queued(c) /\ AllListed(c) /\ AllArrive(c)

LEMMA CoverageInit == Init => Coverage
  <1>1. SUFFICES ASSUME Init, NEW c \in Client
                 PROVE  Known(c) /\ Queued(c) /\ AllListed(c) /\ AllArrive(c)
    BY DEF Coverage
  <1>2. /\ link[c] = "none" /\ client[c].at = "off" /\ reader[c].at = "idle"
        /\ toClient[c] = <<>> /\ ~Started(c)
    <2>1. /\ link[c] = "none" /\ client[c].at = "off" /\ reader[c].at = "idle"
          /\ toClient[c] = <<>>
      BY <1>1 DEF Init, IdleReader
    <2>2. Turns
      BY <1>1, TurnsInit
    <2>3. QED  BY <2>1, <2>2 DEF Turns, Later
  <1>3. ~Has(toClient[c], {"canFilesBeSent"})
    BY <1>2, HasNothing
  <1>4. QED  BY <1>2, <1>3 DEF Known, Queued, AllListed, AllArrive

LEMMA CoverageHolds ==
    ASSUME OwnAddresses, DifferentTokens
    PROVE  Spec /\ []Alone => []Coverage
  <1> DEFINE AllOwn == \A c \in Client : Own(c)
  <1>1. /\ ServiceInv /\ ServiceInv' /\ UploadFirst /\ AllOwn /\ Alone /\ Alone'
        /\ CountsTrue /\ Coverage /\ [Next]_vars
        => Coverage'
    <2>1. SUFFICES ASSUME ServiceInv, ServiceInv', UploadFirst, AllOwn, Alone, Alone',
                          CountsTrue, Coverage, [Next]_vars, NEW c \in Client
                   PROVE  Known(c)' /\ Queued(c)' /\ AllListed(c)' /\ AllArrive(c)'
      BY DEF Coverage
    <2>2. /\ TypeOK /\ TypeOK' /\ Published /\ Opening(c) /\ Ends(c) /\ OneTurn(c)
          /\ Started(c) => Later(c)
          /\ SetsZero(c) /\ Delivery(c) /\ Own(c)
          /\ Known(c) /\ Queued(c) /\ AllListed(c) /\ AllArrive(c)
      BY <2>1 DEF ServiceInv, Turns, Deliveries, UploadFirst, Coverage
    <2>3. Lacking(c)' \subseteq Lacking(c)
      BY <2>1, LackingShrinks
    <2> HIDE DEF AllOwn
    <2>4. Known(c)'
      BY <2>1, <2>2, <2>3, KnownStep
    <2>5. Queued(c)'
      BY <2>1, <2>2, <2>3, QueuedStep
    <2>6. AllListed(c)'
      BY <2>1, <2>2, <2>3, AllListedStep
    <2>7. AllArrive(c)'
      BY <2>1, <2>2, <2>3, AllArriveStep
    <2>8. QED  BY <2>4, <2>5, <2>6, <2>7
  <1> HIDE DEF AllOwn
  <1>2. Spec => []AllOwn
    BY OwnHolds DEF AllOwn
  <1>3. QED
    BY <1>1, <1>2, CoverageInit, AloneNeverShrinks, ServiceInvHolds, UploadFirstHolds,
       CountsTrueHolds, PTL DEF Spec

\* A client that closes its connection has every file of the server, as long as
\* clients have addresses of their own, contents differ in their first token and
\* the threads insert one after the other.
THEOREM DeliveredHolds ==
    ASSUME OwnAddresses, DifferentTokens
    PROVE  Spec /\ []Alone => []Delivered
  <1>1. Coverage => Delivered
    BY DEF Coverage, AllArrive, Lacking, Files, Delivered
  <1>2. QED  BY <1>1, CoverageHolds, PTL

\* A server with one client needs nothing but contents that differ.
COROLLARY OneClientDelivered ==
    ASSUME \A c, d \in Client : c = d, DifferentTokens
    PROVE  Spec => []Delivered
  <1>1. OwnAddresses
    BY DEF OwnAddresses
  <1>2. Spec => []Alone
    BY OneClientAlone
  <1>3. Spec /\ []Alone => []Delivered
    BY <1>1, DeliveredHolds
  <1>4. QED  BY <1>2, <1>3, PTL

=============================================================================
