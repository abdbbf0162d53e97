-------------------------------- MODULE Chat --------------------------------
(***************************************************************************)
(* 20170815: server.c and client.c, a chat in which the server speaks      *)
(* first and both sides alternate.  len is a socklen_t, unsigned: a send   *)
(* or recv that returns -1 is treated as a success, and "receive failed"   *)
(* is never printed.  Writing to a connection that the peer has reset      *)
(* raises SIGPIPE, which kills the process.  Either side may be killed     *)
(* from outside (Ctrl-C).  A message has at most 19 bytes and arrives in   *)
(* one piece.                                                              *)
(***************************************************************************)
EXTENDS Integers, Sequences, FiniteSets

CONSTANTS
    Clients,      \* client processes
    NoClient,     \* newfd is closed
    listnum,      \* connections that may wait for accept
    MaxCrashes    \* bound: clients killed from outside

VARIABLES
    server,       \* "accept", "type", "recv", "close", "ask", "exited", "killed", "crashed"
    newfd,        \* the client being served
    backlog,      \* clients that connected and were not accepted
    client,       \* per client: "off", "recv", "type", "exited", "killed" or "crashed"
    conn,         \* per client: "none", "up", closed by a side, or "reset"
    toClient,     \* per client: is a message on its way to it?
    toServer,     \* per client: is a message on its way from it?
    accepted      \* history: the clients the server has accepted

vars == <<server, newfd, backlog, client, conn, toClient, toServer, accepted>>

Init ==
    /\ server = "accept" /\ newfd = NoClient /\ backlog = <<>>
    /\ client = [c \in Clients |-> "off"]
    /\ conn = [c \in Clients |-> "none"]
    /\ toClient = [c \in Clients |-> FALSE] /\ toServer = [c \in Clients |-> FALSE]
    /\ accepted = {}

Gone == {"exited", "killed", "crashed"}
Set(f, c, v) == [f EXCEPT ![c] = v]

-------------------------------------------------------------------------------
(* client.c                                                                *)

\* connect succeeds as soon as the connection is in the listen queue.
connect(c) ==
    /\ client[c] = "off" /\ server \notin Gone /\ Len(backlog) < listnum
    /\ client' = Set(client, c, "recv") /\ conn' = Set(conn, c, "up")
    /\ backlog' = Append(backlog, c)
    /\ UNCHANGED <<server, newfd, toClient, toServer, accepted>>

\* recv returned -1: len > 0 holds and the client goes on to its prompt.
ClientAfterError == "type"

\* A message is printed; 0 ends the client.
ClientRecv(c) ==
    /\ client[c] = "recv"
    /\ \/ /\ toClient[c]
          /\ toClient' = Set(toClient, c, FALSE)
          /\ client' = Set(client, c, "type") /\ UNCHANGED conn
       \/ /\ ~toClient[c] /\ conn[c] = "reset"
          /\ client' = Set(client, c, ClientAfterError) /\ UNCHANGED <<toClient, conn>>
       \/ /\ ~toClient[c] /\ conn[c] = "serverClosed"
          /\ client' = Set(client, c, "exited")
          /\ conn' = Set(conn, c, "none") /\ UNCHANGED toClient
    /\ UNCHANGED <<server, newfd, backlog, toServer, accepted>>

ClientAfterSend == "recv"

\* fgets gave a word; an empty line is asked for again and changes nothing.
ClientSend(c) ==
    /\ client[c] = "type"
    /\ \/ /\ conn[c] \in {"up", "serverClosed"}
          /\ toServer' = Set(toServer, c, TRUE)
          /\ client' = Set(client, c, ClientAfterSend)
       \/ /\ conn[c] = "reset"
          /\ client' = Set(client, c, "killed") /\ UNCHANGED toServer
    /\ UNCHANGED <<server, newfd, backlog, conn, toClient, accepted>>

\* Closed from the client's side; with nobody left the connection is gone.
ClosedByClient(c) ==
    Set(conn, c, IF conn[c] = "up" THEN "clientClosed" ELSE "none")

\* "quit", or the end of stdin (nothing to send: "send failed"): close.
ClientQuit(c) ==
    /\ client[c] = "type"
    /\ client' = Set(client, c, "exited")
    /\ conn' = ClosedByClient(c)
    /\ UNCHANGED <<server, newfd, backlog, toClient, toServer, accepted>>

Crashes == Cardinality({c \in Clients : client[c] = "crashed"})

\* The client is killed: its kernel closes the connection, with a reset if
\* a message was waiting to be read.
Crash(c) ==
    /\ client[c] \in {"recv", "type"} /\ Crashes < MaxCrashes
    /\ client' = Set(client, c, "crashed")
    /\ conn' = IF toClient[c] /\ conn[c] = "up" THEN Set(conn, c, "reset") ELSE ClosedByClient(c)
    /\ toClient' = Set(toClient, c, FALSE)
    /\ UNCHANGED <<server, newfd, backlog, toServer, accepted>>

-------------------------------------------------------------------------------
(* server.c                                                                *)

accept ==
    /\ server = "accept" /\ backlog # <<>>
    /\ newfd' = Head(backlog) /\ backlog' = Tail(backlog)
    /\ accepted' = accepted \cup {Head(backlog)}
    /\ server' = "type"
    /\ UNCHANGED <<client, conn, toClient, toServer>>

\* Connections whose client is waiting in the listen queue are reset when
\* the server ends.
ListenerClosed ==
    /\ conn' = [c \in Clients |-> IF \E i \in DOMAIN backlog : backlog[i] = c
                                 THEN "reset" ELSE conn[c]]
    /\ backlog' = <<>>

\* The first send to a client that closed succeeds and is answered by a
\* reset; a send on a connection that was reset raises SIGPIPE.
ServerSend ==
    /\ server = "type"
    /\ \/ /\ conn[newfd] = "up"
          /\ toClient' = Set(toClient, newfd, TRUE)
          /\ server' = "recv" /\ UNCHANGED <<conn, backlog>>
       \/ /\ conn[newfd] = "clientClosed"
          /\ conn' = Set(conn, newfd, "clientReset")
          /\ server' = "recv" /\ UNCHANGED <<toClient, backlog>>
       \/ /\ conn[newfd] \in {"reset", "clientReset"}
          /\ server' = "killed" /\ ListenerClosed /\ UNCHANGED toClient
    /\ UNCHANGED <<newfd, client, toServer, accepted>>

\* recv returned -1: len > 0 holds and the server goes on to its prompt.
ServerAfterError == "type"

\* Fault: 0 is taken for a message too.
ServerAfterStopType == "type"

\* recv returned 0: "client stop".
ServerAfterStop == "close"

\* A connection that the client closed reads as 0, reset or not.
ServerRecv ==
    /\ server = "recv"
    /\ \/ /\ toServer[newfd]
          /\ toServer' = Set(toServer, newfd, FALSE) /\ server' = "type"
       \/ /\ ~toServer[newfd] /\ conn[newfd] = "reset"
          /\ server' = ServerAfterError /\ UNCHANGED toServer
       \/ /\ ~toServer[newfd] /\ conn[newfd] \in {"clientClosed", "clientReset"}
          /\ server' = ServerAfterStop /\ UNCHANGED toServer
    /\ UNCHANGED <<newfd, backlog, client, conn, toClient, accepted>>

\* "quit", or the end of stdin (nothing to send: "send failed").
ServerQuit ==
    /\ server = "type" /\ server' = "close"
    /\ UNCHANGED <<newfd, backlog, client, conn, toClient, toServer, accepted>>

ClosedByServer == Set(conn, newfd, IF conn[newfd] = "up" THEN "serverClosed" ELSE "none")

CloseNewfd ==
    /\ server = "close" /\ server' = "ask"
    /\ conn' = ClosedByServer /\ newfd' = NoClient
    /\ UNCHANGED <<backlog, client, toClient, toServer, accepted>>

\* "exit?": anything but y goes back to accept; y closes sockfd.
Answer(yes) ==
    /\ server = "ask"
    /\ IF yes THEN server' = "exited" /\ ListenerClosed
              ELSE server' = "accept" /\ UNCHANGED <<conn, backlog>>
    /\ UNCHANGED <<newfd, client, toClient, toServer, accepted>>

\* The server is killed.  Its kernel closes the connection it serves, with a
\* reset if a message was waiting to be read, and resets those not accepted.
ServerCrash ==
    /\ server \notin Gone /\ server' = "crashed"
    /\ conn' = [c \in Clients |->
                   IF \E i \in DOMAIN backlog : backlog[i] = c THEN "reset"
                   ELSE IF c # newfd THEN conn[c]
                   ELSE IF toServer[c] /\ conn[c] = "up" THEN "reset" ELSE ClosedByServer[c]]
    /\ toServer' = [c \in Clients |-> c # newfd /\ toServer[c]]
    /\ backlog' = <<>>
    /\ UNCHANGED <<newfd, client, toClient, accepted>>

Next ==
    \/ \E c \in Clients : connect(c) \/ ClientRecv(c) \/ ClientSend(c) \/ ClientQuit(c) \/ Crash(c)
    \/ accept \/ ServerSend \/ ServerRecv \/ ServerQuit \/ CloseNewfd
    \/ \E yes \in BOOLEAN : Answer(yes)
    \/ ServerCrash

-------------------------------------------------------------------------------
(* Types.                                                                  *)
TypeOK ==
    /\ server \in {"accept", "type", "recv", "close", "ask", "exited", "killed", "crashed"}
    /\ newfd \in Clients \cup {NoClient} /\ backlog \in Seq(Clients)
    /\ client \in [Clients -> Gone \cup {"off", "recv", "type"}]
    /\ conn \in [Clients -> {"none", "up", "reset", "clientClosed", "clientReset",
                           "serverClosed"}]
    /\ toClient \in [Clients -> BOOLEAN] /\ toServer \in [Clients -> BOOLEAN]
    /\ accepted \subseteq Clients

\* Who may act for the pair: a side at its prompt, or a message under way.
Turns(c) ==
    (IF server \in {"type", "close"} THEN 1 ELSE 0)
    + (IF client[c] = "type" THEN 1 ELSE 0)
    + (IF toClient[c] THEN 1 ELSE 0) + (IF toServer[c] THEN 1 ELSE 0)

(* While a connection is up exactly one side may speak: the two never wait *)
(* for each other, and never both speak, so a recv gets one message.       *)
TakeTurns == newfd # NoClient /\ conn[newfd] = "up" => Turns(newfd) = 1

\* A side that waits for one that is gone.
WaitsForGone(c) ==
    \/ server = "recv" /\ newfd = c /\ client[c] \in Gone
    \/ client[c] = "recv" /\ server \in Gone

(* Only a client that was killed can bring the server down: a client that  *)
(* leaves with "quit" does so while the server receives.                   *)
ServerKilledOnlyByCrash ==
    server = "killed" => client[newfd] = "crashed"

(* SIGPIPE kills a client only on a connection that was reset, and a       *)
(* client the server has accepted only if the server itself was killed     *)
(* while it served that client: a server that leaves with "quit" or dies   *)
(* of SIGPIPE brings down none of those it has talked to.                  *)
ClientKilledOnlyByReset ==
    \A c \in Clients : client[c] = "killed" =>
        /\ conn[c] = "reset" /\ server \in Gone
        /\ c \in accepted => server = "crashed" /\ newfd = c
=============================================================================
