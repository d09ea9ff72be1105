-------------------------------- MODULE Echo --------------------------------
(***************************************************************************)
(* boost-asio: three asynchronous echo servers, the client of the one on   *)
(* TLS, a server and a client that block, and the timers; and the plain    *)
(* client of mtls.  What is sent is counted in bytes.                      *)
(***************************************************************************)
EXTENDS Async

CONSTANTS Clients,   \* connections made to a server
          Bytes,     \* the most that a client sends
          Buffer     \* the bytes a server reads at once (1024)

ASSUME EchoAssumption == Clients \in Nat /\ Bytes \in Nat /\ Buffer \in Nat

Client == 1 .. Clients
Server == 0
Echoes == {"asyncEcho", "coroutineEcho", "mtlsEcho"}

\* What each client has sent, whether it has closed its side, what the server
\* has read of it, holds in data, and has written back.
Wire == [sent |-> [c \in Client |-> 0], closed |-> {}, got |-> [c \in Client |-> 0],
         data |-> [c \in Client |-> 0], echoed |-> [c \in Client |-> 0],
         failed |-> {}]

Arrived(c) == mem.sent[c] - mem.got[c]
Failed(c) == [mem EXCEPT !.failed = @ \cup {c}]

EchoInit ==
  /\ demo \in Echoes
  /\ at = [t \in {Server} \cup Client |-> IF t = Server THEN "start" ELSE "idle"]
  /\ mem = Joined(Std, Joined(Operations({Server} \cup Client), Wire))

\* The session of a new client starts; the listener is at then.
Spawns(first, then) ==
  /\ Resumed(Server, "accept", {"ok"})
  /\ \E c \in Client :
       /\ at[c] = "idle" /\ \A b \in 1 .. c - 1 : at[b] # "idle"
       /\ at' = [at EXCEPT ![c] = first, ![Server] = then]
       /\ mem' = [mem EXCEPT !.op[c] = "pending",
                             !.op[Server] = IF then = "done" THEN "none" ELSE "pending"]
       /\ UNCHANGED demo
-----------------------------------------------------------------------------
(* async_echo_server.cpp: one connection, one read, one write.             *)
start ==
  \/ Awaits(Server, "start", "accept", mem)
  \/ Spawns("read", "done")
  \/ Resumed(Server, "accept", {"error"}) /\ Finishes(Server, "accept", mem)

echoOnce(c) ==
  \/ Resumed(c, "read", {"ok"}) /\ Awaits(c, "read", "writeSome", mem)
  \/ Resumed(c, "writeSome", {"ok"}) /\ Finishes(c, "writeSome", mem)
  \/ \E from \in {"read", "writeSome"} :
       Resumed(c, from, {"eof", "error"}) /\ Finishes(c, from, Failed(c))

(* coroutines_echo_server.cpp: the same for every connection, until a      *)
(* signal stops the io_context, sessions and all.                          *)
listener ==
  \/ Awaits(Server, "start", "accept", mem)
  \/ Spawns("read", "accept")
  \/ Resumed(Server, "accept", {"error"}) /\ Awaits(Server, "accept", "accept", mem)

stop ==
  /\ demo = "coroutineEcho"
  /\ at' = [t \in DOMAIN at |-> "stopped"]
  /\ UNCHANGED <<demo, mem>>
-----------------------------------------------------------------------------
(* mtls_server.cpp: echoes until the client closes.                        *)
run_server ==
  \/ Awaits(Server, "start", "accept", mem)
  \/ Spawns("handshake", "accept")
  \/ Resumed(Server, "accept", {"error"}) /\ Finishes(Server, "accept", mem)

handle_client(c) ==
  \/ Resumed(c, "handshake", {"ok"}) /\ Awaits(c, "handshake", "read", mem)
  \/ Resumed(c, "read", {"ok"}) /\ Awaits(c, "read", "writeAll", mem)
  \/ Resumed(c, "read", {"eof"}) /\ Awaits(c, "read", "shutdown", mem)
  \/ Resumed(c, "read", {"error"}) /\ Awaits(c, "read", "shutdown", Failed(c))
  \/ Resumed(c, "writeAll", {"ok"}) /\ Awaits(c, "writeAll", "read", mem)
  \/ \E from \in {"handshake", "writeAll"} :
       Resumed(c, from, {"error"}) /\ Finishes(c, from, Failed(c))
  \/ Ready(c) /\ Finishes(c, "shutdown", mem)
-----------------------------------------------------------------------------
(* The clients and the connections, as the servers see them.               *)
Sends(c) ==
  /\ c \notin mem.closed /\ at[c] \notin {"idle", "done", "stopped"}
  /\ \/ mem.sent[c] < Bytes /\ mem' = [mem EXCEPT !.sent[c] = @ + 1]
     \/ mem' = [mem EXCEPT !.closed = @ \cup {c}]
  /\ UNCHANGED <<demo, at>>

Reads(c) ==
  /\ at[c] = "read" /\ Pending(c)
  /\ \/ \E n \in 1 .. Min({Arrived(c), Buffer}) :
          mem' = [mem EXCEPT !.op[c] = "ok", !.data[c] = n, !.got[c] = @ + n]
     \/ Arrived(c) = 0 /\ c \in mem.closed /\ mem' = [mem EXCEPT !.op[c] = "eof"]
  /\ UNCHANGED <<demo, at>>

\* write_some may take less than it is given.
Writes(c) ==
  /\ at[c] \in {"writeSome", "writeAll"} /\ Pending(c)
  /\ \E n \in IF at[c] = "writeAll" THEN {mem.data[c]} ELSE 1 .. mem.data[c] :
       mem' = [mem EXCEPT !.op[c] = "ok", !.echoed[c] = @ + n]
  /\ UNCHANGED <<demo, at>>

Breaks(t) ==
  \E from \in {"accept", "handshake", "read", "writeSome", "writeAll", "shutdown"} :
    Completes(t, from, {"error"})
Opens(t) ==
  \/ Completes(t, "accept", {r \in {"ok"} : \E c \in Client : at[c] = "idle"})
  \/ \E from \in {"handshake", "shutdown"} : Completes(t, from, {"ok"})

EchoStep(t) ==
  \/ /\ demo = "asyncEcho"
     /\ (t = Server /\ start) \/ (t \in Client /\ echoOnce(t))
  \/ /\ demo = "coroutineEcho"
     /\ (t = Server /\ listener) \/ (t \in Client /\ echoOnce(t))
  \/ /\ demo = "mtlsEcho"
     /\ (t = Server /\ run_server) \/ (t \in Client /\ handle_client(t))
EchoPeers(t) ==
  /\ demo \in Echoes
  /\ Breaks(t) \/ Opens(t) \/ (t \in Client /\ (Sends(t) \/ Reads(t) \/ Writes(t)))
-----------------------------------------------------------------------------
(* The clients of mtls_server.cpp and, without TLS, simple_http_client.cpp.*)
TlsThen == [start |-> "resolve", resolve |-> "connect", connect |-> "handshake",
            handshake |-> "write", write |-> "readSome", readSome |-> "shutdown"]
PlainThen == [start |-> "resolve", resolve |-> "connect", connect |-> "write",
              write |-> "readSome", readSome |-> "shutdown"]

ClientsInit ==
  \E name \in {"mtlsClient", "httpGet"} : Calls(name, {Server}, Operations({Server}))

run_client == demo = "mtlsClient" /\ InOrder(Server, TlsThen, mem)
httpGet == demo = "httpGet" /\ InOrder(Server, PlainThen, mem)
ClientsPeers(t) ==
  /\ demo \in {"mtlsClient", "httpGet"}
  /\ \E from \in {TlsThen[s] : s \in DOMAIN TlsThen} : Completes(t, from, {"ok", "error"})
-----------------------------------------------------------------------------
(* sync_echo_server.cpp and sync_echo_client.cpp, which block.             *)
SyncInit == Calls("syncEcho", {Server, 1},
  [listening |-> FALSE, connected |-> FALSE, line |-> FALSE, reply |-> FALSE,
   closed |-> FALSE, printed |-> FALSE])

syncServer ==
  \/ Goes(Server, "start", "accept", [mem EXCEPT !.listening = TRUE])
  \/ mem.connected /\ Goes(Server, "accept", "read", mem)
  \/ mem.line /\ Goes(Server, "read", "send", mem)
  \/ Goes(Server, "send", "return", [mem EXCEPT !.reply = TRUE])
  \/ Goes(Server, "return", "done", [mem EXCEPT !.closed = TRUE])

\* A client that finds nobody listening throws; recv reads until the end.
syncClient ==
  \/ /\ mem.listening
     /\ Goes(1, "start", "send", [mem EXCEPT !.connected = TRUE])
  \/ ~mem.listening /\ Goes(1, "start", "threw", mem)
  \/ Goes(1, "send", "recv", [mem EXCEPT !.line = TRUE])
  \/ mem.closed /\ Goes(1, "recv", "done", [mem EXCEPT !.printed = mem.reply])

TimersInit == Calls("timers", {Server}, Operations({Server}))
\* One timer is awaited, the next one is waited for.
timers ==
  \/ Awaits(Server, "start", "sleep", mem)
  \/ Ready(Server) /\ Goes(Server, "sleep", "wait", mem)
  \/ Goes(Server, "wait", "done", mem)

SyncStep(t) ==
  \/ demo = "syncEcho" /\ ((t = Server /\ syncServer) \/ (t = 1 /\ syncClient))
  \/ demo = "timers" /\ timers
  \/ t = Server /\ (run_client \/ httpGet)
Rings(t) == demo = "timers" /\ Completes(t, "sleep", {"ok"})
-----------------------------------------------------------------------------
\* A server sends back no byte that it has not read, and reads no more before
\* it has sent what it read.  A session of the server on TLS that has not failed
\* ends with every byte of its client echoed.  One of the others, which read
\* once and write once, ends with some of the bytes it has read echoed, if it
\* has not failed: those a short write_some leaves behind are lost
\* (async_echo_server.cpp:66).
Echoed ==
  demo \in Echoes => \A c \in Client :
    /\ mem.echoed[c] <= mem.got[c] /\ mem.got[c] <= mem.sent[c]
    /\ at[c] = "read" /\ mem.op[c] = "pending" => mem.echoed[c] = mem.got[c]
    /\ at[c] = "done" /\ c \notin mem.failed =>
         IF demo = "mtlsEcho" THEN mem.echoed[c] = mem.sent[c] ELSE mem.echoed[c] > 0

\* The blocking client has printed the reply, not an empty line.
Replied == demo = "syncEcho" /\ at[1] = "done" => mem.printed
=============================================================================
