------------------------------ MODULE AppServer ------------------------------
(***************************************************************************)
(* The server of an app, as TPad.java uses it: Server.java accepts the     *)
(* connections adb makes for the device, Client.java polls each in a       *)
(* thread of its own, and TPad.java sends commands to all of them.         *)
(*                                                                         *)
(* The threads are the user interface, which starts and stops the server   *)
(* and sends, the one that accepts, the one that sends keep-alives, and    *)
(* one of each client.  A step is what a thread does to something that     *)
(* another one uses.  The list of the clients may be walked while it       *)
(* changes: a walk goes over the list as it was at its start               *)
(* (CopyOnWriteArrayList).                                                 *)
(*                                                                         *)
(* A peer that has gone is found out late: Client asks only for bytes that *)
(* are available, and the first write after the end is lost without an     *)
(* error.                                                                  *)
(***************************************************************************)
EXTENDS Integers, Sequences, FiniteSets, SequencesExt

CONSTANT Clients    \* the connections, in the order in which they are made

ASSUME AppServerAssumption == Clients = 1 .. Cardinality(Clients)

VARIABLES
    ui,             \* where the thread of the user interface is
    closing,        \* the clients Server.stop has still to close
    tasks,          \* runOnUiThread(freq), waiting
    accepting,      \* the thread that accepts, and the client it deals with
    serverSocket,
    backlog,        \* connections that nobody has accepted
    listener,       \* whether TPad's is in listeners
    clients,        \* Server.clients
    missed,         \* clients of whose connection no listener was told
    conn,           \* the peers
    socket,         \* the socket of a client: whether it is closed
    thread,         \* the thread of a client
    keepAlive,      \* Client.keepAlive
    sender,         \* Server.send, in each of the threads that call it
    isRunning,
    isConnected,
    tuned           \* the peers that were told the frequency

uiVars     == <<ui, closing, listener, isRunning>>
acceptVars == <<accepting, missed>>
clientVars == <<socket, thread, keepAlive>>
vars == <<uiVars, tasks, acceptVars, serverSocket, backlog, clients, conn, clientVars,
          sender, isConnected, tuned>>

Senders == {"ui", "beat"}

Idle == [at |-> "idle", what |-> "", left |-> <<>>]

Init ==
    /\ ui = "start" /\ closing = <<>> /\ tasks = 0
    /\ accepting = [at |-> "off", client |-> 0]
    /\ serverSocket = "none" /\ backlog = <<>>
    /\ listener = FALSE /\ clients = <<>> /\ missed = {}
    /\ conn = [c \in Clients |-> "none"]
    /\ socket = [c \in Clients |-> "open"]
    /\ thread = [c \in Clients |-> "none"]
    /\ keepAlive = [c \in Clients |-> TRUE]
    /\ sender = [t \in Senders |-> Idle]
    /\ isRunning = FALSE /\ isConnected = FALSE /\ tuned = {}

----------------------------------------------------------------------------
(* The peers.  One that goes may leave bytes unread, so that the socket    *)
(* knows at once.                                                          *)

Connect(c) ==
    /\ serverSocket = "open"
    /\ conn[c] = "none" /\ \A d \in 1 .. c - 1 : conn[d] # "none"
    /\ conn' = [conn EXCEPT ![c] = "up"]
    /\ backlog' = Append(backlog, c)
    /\ UNCHANGED <<uiVars, tasks, acceptVars, serverSocket, clients, clientVars,
                   sender, isConnected, tuned>>

Lose(c) ==
    /\ conn[c] = "up"
    /\ \E how \in {"gone", "reset"} : conn' = [conn EXCEPT ![c] = how]
    /\ UNCHANGED <<uiVars, tasks, acceptVars, serverSocket, backlog, clients, clientVars,
                   sender, isConnected, tuned>>

----------------------------------------------------------------------------
(* Client.                                                                 *)

\* close: for whoever calls it.
Close(c) ==
    /\ keepAlive' = [keepAlive EXCEPT ![c] = FALSE]
    /\ socket' = [socket EXCEPT ![c] = "closed"]

\* available throws for a socket that is closed, and may for one that is reset.
Throws(c) ==
    /\ thread[c] = "polls" /\ keepAlive[c]
    /\ socket[c] = "closed" \/ conn[c] = "reset"
    /\ keepAlive' = [keepAlive EXCEPT ![c] = FALSE]
    /\ UNCHANGED <<uiVars, tasks, acceptVars, serverSocket, backlog, clients, conn, socket,
                   thread, sender, isConnected, tuned>>

\* Server.disconnectClient has two steps, for whoever calls it.
TakeOut(c) == clients' = SelectSeq(clients, LAMBDA d : d # c)
TellOfEnd == isConnected' = (isConnected /\ ~listener)

Leaves(c) ==
    /\ thread[c] = "polls" /\ ~keepAlive[c]
    /\ TakeOut(c)
    /\ thread' = [thread EXCEPT ![c] = "leaves"]
    /\ UNCHANGED <<uiVars, tasks, acceptVars, serverSocket, backlog, conn, socket,
                   keepAlive, sender, isConnected, tuned>>

Ends(c) ==
    /\ thread[c] = "leaves"
    /\ TellOfEnd
    /\ thread' = [thread EXCEPT ![c] = "ended"]
    /\ UNCHANGED <<uiVars, tasks, acceptVars, serverSocket, backlog, clients, conn, socket,
                   keepAlive, sender, tuned>>

----------------------------------------------------------------------------
(* Server.send, by one of its threads.                                     *)

Walk(what) == [at |-> "next", what |-> what, left |-> clients]
Target(t)  == Head(sender[t].left)
Fails(c)   == socket[c] = "closed" \/ conn[c] = "reset"

\* The bytes get to a peer that is there, and are lost with one that is gone.
Writes(t) ==
    /\ sender[t].at = "next" /\ sender[t].left # <<>> /\ ~Fails(Target(t))
    /\ LET c == Target(t)
       IN  /\ conn' = [conn EXCEPT ![c] = IF @ = "gone" THEN "reset" ELSE @]
           /\ tuned' = IF sender[t].what = "freq" /\ conn[c] = "up" THEN tuned \cup {c}
                       ELSE tuned
    /\ sender' = [sender EXCEPT ![t].left = Tail(@)]
    /\ UNCHANGED <<uiVars, tasks, acceptVars, serverSocket, backlog, clients, clientVars,
                   isConnected>>

\* The SocketException of Client.send.  (Mutant: the client is taken out of the
\* list, and nothing else.)
Keeps(c) == UNCHANGED <<keepAlive, socket>>
Caught(c) == Close(c)

Breaks(t) ==
    /\ sender[t].at = "next" /\ sender[t].left # <<>> /\ Fails(Target(t))
    /\ Caught(Target(t))
    /\ sender' = [sender EXCEPT ![t].at = "broken"]
    /\ UNCHANGED <<uiVars, tasks, acceptVars, serverSocket, backlog, clients, conn, thread,
                   isConnected, tuned>>

Drops(t) ==
    /\ sender[t].at = "broken"
    /\ TakeOut(Target(t))
    /\ sender' = [sender EXCEPT ![t].at = "dropped"]
    /\ UNCHANGED <<uiVars, tasks, acceptVars, serverSocket, backlog, conn, clientVars,
                   isConnected, tuned>>

Tells(t) ==
    /\ sender[t].at = "dropped"
    /\ TellOfEnd
    /\ sender' = [sender EXCEPT ![t].at = "next", ![t].left = Tail(@)]
    /\ UNCHANGED <<uiVars, tasks, acceptVars, serverSocket, backlog, clients, conn,
                   clientVars, tuned>>

Sent(t) ==
    /\ sender[t].at = "next" /\ sender[t].left = <<>>
    /\ sender' = [sender EXCEPT ![t] = Idle]
    /\ UNCHANGED <<uiVars, tasks, acceptVars, serverSocket, backlog, clients, conn,
                   clientVars, isConnected, tuned>>

Send(t) == Writes(t) \/ Breaks(t) \/ Drops(t) \/ Tells(t) \/ Sent(t)

----------------------------------------------------------------------------
(* The thread that accepts.                                                *)

Accept ==
    /\ accepting.at = "accept" /\ serverSocket = "open" /\ backlog # <<>>
    /\ accepting' = [at |-> "accepted", client |-> Head(backlog)]
    /\ backlog' = Tail(backlog)
    /\ UNCHANGED <<uiVars, tasks, missed, serverSocket, clients, conn, clientVars, sender,
                   isConnected, tuned>>

\* The constructor of Client starts the thread of the client.
Create ==
    /\ accepting.at = "accepted"
    /\ accepting' = [accepting EXCEPT !.at = "created"]
    /\ thread' = [thread EXCEPT ![accepting.client] = "polls"]
    /\ UNCHANGED <<uiVars, tasks, missed, serverSocket, backlog, clients, conn, socket,
                   keepAlive, sender, isConnected, tuned>>

\* The client is in the list before the listeners hear of it.  (Mutant: after.)
AddFirst  == <<"created", "added">>
TellFirst == <<"told", "created">>
Order == AddFirst

Add ==
    /\ accepting.at = Order[1]
    /\ clients' = Append(clients, accepting.client)
    /\ accepting' = [accepting EXCEPT !.at = IF Order = AddFirst THEN "added" ELSE "accept"]
    /\ UNCHANGED <<uiVars, tasks, missed, serverSocket, backlog, conn, clientVars, sender,
                   isConnected, tuned>>

Tell ==
    /\ accepting.at = Order[2]
    /\ IF listener
         THEN isConnected' = TRUE /\ tasks' = tasks + 1 /\ UNCHANGED missed
         ELSE missed' = missed \cup {accepting.client} /\ UNCHANGED <<isConnected, tasks>>
    /\ accepting' = [accepting EXCEPT !.at = IF Order = AddFirst THEN "accept" ELSE "told"]
    /\ UNCHANGED <<uiVars, serverSocket, backlog, clients, conn, clientVars, sender, tuned>>

\* The socket was closed.
Stops ==
    /\ accepting.at = "accept" /\ serverSocket = "closed"
    /\ accepting' = [accepting EXCEPT !.at = "ended"]
    /\ UNCHANGED <<uiVars, tasks, missed, serverSocket, backlog, clients, conn, clientVars,
                   sender, isConnected, tuned>>

Accepts == Accept \/ Create \/ Add \/ Tell \/ Stops

----------------------------------------------------------------------------
(* TPad.run: keep-alives until isRunning is false.                         *)

Beat ==
    /\ ui # "start" /\ ui # "listen" /\ sender["beat"].at = "idle" /\ isRunning
    /\ sender' = [sender EXCEPT !["beat"] = Walk("alive")]
    /\ UNCHANGED <<uiVars, tasks, acceptVars, serverSocket, backlog, clients, conn,
                   clientVars, isConnected, tuned>>

----------------------------------------------------------------------------
(* The user interface.  startTPad: the server runs before the listener is  *)
(* added.                                                                  *)

StartServer ==
    /\ ui = "start" /\ ui' = "listen"
    /\ serverSocket' = "open"
    /\ accepting' = [accepting EXCEPT !.at = "accept"]
    /\ UNCHANGED <<closing, listener, isRunning, tasks, missed, backlog, clients, conn,
                   clientVars, sender, isConnected, tuned>>

AddListener ==
    /\ ui = "listen" /\ ui' = "on"
    /\ listener' = TRUE /\ isRunning' = TRUE
    /\ UNCHANGED <<closing, tasks, acceptVars, serverSocket, backlog, clients, conn,
                   clientVars, sender, isConnected, tuned>>

MaySend == ui = "on" /\ sender["ui"].at = "idle"

\* What onClientConnect left to be run: freq.
Tune ==
    /\ MaySend /\ tasks > 0
    /\ tasks' = tasks - 1
    /\ sender' = [sender EXCEPT !["ui"] = Walk("freq")]
    /\ UNCHANGED <<uiVars, acceptVars, serverSocket, backlog, clients, conn, clientVars,
                   isConnected, tuned>>

\* The app sends a magnitude or a texture.
AppSends ==
    /\ MaySend
    /\ sender' = [sender EXCEPT !["ui"] = Walk("level")]
    /\ UNCHANGED <<uiVars, tasks, acceptVars, serverSocket, backlog, clients, conn,
                   clientVars, isConnected, tuned>>

\* stopTPad waits for the keep-alives, then Server.stop.
StopTPad ==
    /\ MaySend
    /\ ui' = "join" /\ isRunning' = FALSE
    /\ UNCHANGED <<closing, listener, tasks, acceptVars, serverSocket, backlog, clients,
                   conn, clientVars, sender, isConnected, tuned>>

\* Connections that were not accepted are reset.
CloseServer ==
    /\ ui = "join" /\ sender["beat"].at = "idle"
    /\ ui' = "close" /\ closing' = clients
    /\ serverSocket' = "closed" /\ backlog' = <<>>
    /\ conn' = [c \in Clients |-> IF Contains(backlog, c) THEN "reset" ELSE conn[c]]
    /\ UNCHANGED <<listener, isRunning, tasks, acceptVars, clients, clientVars, sender,
                   isConnected, tuned>>

CloseClient ==
    /\ ui = "close" /\ closing # <<>>
    /\ Close(Head(closing))
    /\ closing' = Tail(closing)
    /\ UNCHANGED <<ui, listener, isRunning, tasks, acceptVars, serverSocket, backlog, clients,
                   conn, thread, sender, isConnected, tuned>>

Stopped ==
    /\ ui = "close" /\ closing = <<>>
    /\ ui' = "stopped"
    /\ UNCHANGED <<closing, listener, isRunning, tasks, acceptVars, serverSocket, backlog,
                   clients, conn, clientVars, sender, isConnected, tuned>>

Shutdown == CloseServer \/ CloseClient \/ Stopped

----------------------------------------------------------------------------
Next ==
    \/ StartServer \/ AddListener \/ Tune \/ AppSends \/ StopTPad \/ Shutdown
    \/ Accepts \/ Beat
    \/ \E t \in Senders : Send(t)
    \/ \E c \in Clients : Connect(c) \/ Lose(c) \/ Throws(c) \/ Leaves(c) \/ Ends(c)

\* Every thread runs; the queue of the user interface is served in order, so
\* that the app's own sending does not keep a task from its turn.  Nobody has
\* to connect, to go, or to stop, and a reset need not be noticed by available.
Fairness ==
    /\ WF_vars(StartServer \/ AddListener) /\ WF_vars(Shutdown) /\ SF_vars(Tune)
    /\ WF_vars(Accepts) /\ WF_vars(Beat)
    /\ \A t \in Senders : WF_vars(Send(t))
    /\ \A c \in Clients :
          WF_vars(Throws(c) /\ socket[c] = "closed") /\ WF_vars(Leaves(c) \/ Ends(c))

Spec == Init /\ [][Next]_vars /\ Fairness

----------------------------------------------------------------------------
(* Properties.                                                             *)

\* A device that connects is told the frequency of its TPad, which it does not
\* keep (TPad.java:269-272), unless it goes or the app stops, or it was faster
\* than addListener.
Tuned ==
    \A c \in Clients :
        conn[c] = "up" ~> \/ c \in tuned \cup missed
                          \/ conn[c] # "up" \/ ~isRunning

\* A client the server could not know of when it closed all others.
Late(c) == ui = "stopped" /\ accepting.at = "ended" /\ socket[c] = "open"

\* A client whose peer has gone is found out, taken from the list for good,
\* and its thread ends, though the thread may have taken it from the list
\* before it was added; and when the server stops all threads end.
ClientsEnd ==
    \A c \in Clients :
        thread[c] = "polls" /\ (conn[c] # "up" \/ ui = "stopped")
            ~> \/ thread[c] = "ended" /\ (~Contains(clients, c) \/ ui = "stopped")
               \/ Late(c)
=============================================================================
