----------------------------- MODULE HttpServer -----------------------------
(***************************************************************************)
(* mtls: the HTTP server on TLS, whose listener and sessions are coroutines*)
(* that a signal stops, the client, and the exercise on cancellation that  *)
(* came before them.  One thread runs the server and the client; three run *)
(* the exercise.                                                           *)
(***************************************************************************)
EXTENDS Async

CONSTANTS Sessions,    \* connections that clients make
          Polls        \* times 200 ms that SIGINT waits for the tasks (20)

ASSUME HttpServerAssumption == Sessions \in Nat /\ Polls \in Nat \ {0}

Listener == 0
Session == 1 .. Sessions
Signals == Sessions + 1
Tasks == {Listener} \cup Session

\* s_cancellation_signals: the tasks that have not completed.
Registered == {t \in Tasks \cap DOMAIN at : Live(t)}

Raised == [sig |-> "none", polls |-> 0, owed |-> {}, terminated |-> {}]

HttpInit ==
  /\ demo = "http"
  /\ at = [t \in 0 .. Signals |-> IF t \in Session THEN "idle" ELSE "start"]
  /\ mem = Joined(Std, Joined(Operations(0 .. Signals), Raised))
-----------------------------------------------------------------------------
is_illegal_method(req) == req.method \notin {"GET", "HEAD"}
is_illegal_target(req) == req.target \in {"", "relative", ".."}

\* canonical throws when the file is not there: it is not found only when it
\* is deleted before it is opened.
handle_request(req) ==
  IF is_illegal_method(req) \/ is_illegal_target(req) THEN "bad request"
  ELSE CASE req.file = "missing" -> "throws"
         [] req.file = "deleted" -> "not found"
         [] req.file = "unreadable" -> "server error"
         [] OTHER -> IF req.method = "HEAD" THEN "header" ELSE "body"

Requests == [method : {"GET", "HEAD", "POST"}, target : {"", "relative", "..", "/"},
             file : {"missing", "deleted", "unreadable", "there"}]
Responses == {handle_request(req) : req \in Requests}

ReadOrShutdown(i, from) ==
  Awaits(i, from, IF i \in mem.cancelled THEN "shutdown" ELSE "read", mem)

\* A request that has been read is answered before the next look at cs.
handle_session(i) ==
  \/ /\ Resumed(i, "read", {"ok"})
     /\ \E response \in Responses :
          IF response = "throws" THEN Finishes(i, "read", mem)
          ELSE \E to \in {"writeLast", "write"} : Awaits(i, "read", to, mem)
  \/ /\ Resumed(i, "read", {"error", "aborted"})
     /\ Awaits(i, "read", "shutdown", mem)
  \/ /\ Resumed(i, "read", {"timeout"})
     /\ Finishes(i, "read", mem)
  \/ /\ Resumed(i, "write", {"ok"}) /\ ReadOrShutdown(i, "write")
  \/ /\ Resumed(i, "writeLast", {"ok"}) /\ Awaits(i, "writeLast", "shutdown", mem)
  \/ \E w \in {"write", "writeLast"} :
       /\ Resumed(i, w, {"error", "aborted", "timeout"})
       /\ Finishes(i, w, mem)

do_session(i) ==
  \/ /\ Resumed(i, "detect", {"ok"})
     /\ Awaits(i, "detect", "handshake", mem)
  \/ /\ Resumed(i, "detect", {"plain", "error", "aborted", "timeout"})
     /\ Finishes(i, "detect", mem)
  \/ /\ Resumed(i, "handshake", {"ok"})
     /\ ReadOrShutdown(i, "handshake")
  \/ /\ Resumed(i, "handshake", {"error", "aborted", "timeout"})
     /\ Finishes(i, "handshake", mem)
  \/ handle_session(i)
  \/ Ready(i) /\ Finishes(i, "shutdown", mem)

\* A mutant: the listener goes on whatever it has been told.
launch_new_taskAlways(i, result) ==
  /\ at' = [at EXCEPT ![i] = "detect", ![Listener] = "accept"]
  /\ mem' = [mem EXCEPT !.op[i] = result, !.op[Listener] = "pending"]
  /\ UNCHANGED demo

\* The state the listener looks at is the one the total signal has changed.
launch_new_task(i, result) ==
  /\ at' = [at EXCEPT ![i] = "detect",
                      ![Listener] = IF Listener \in mem.cancelled THEN "done" ELSE "accept"]
  /\ mem' = [mem EXCEPT !.op[i] = result,
                        !.op[Listener] = IF Listener \in mem.cancelled THEN "none"
                                         ELSE "pending"]
  /\ UNCHANGED demo

do_listen ==
  \/ Awaits(Listener, "start", "accept", mem)
  \/ Resumed(Listener, "accept", {"aborted"}) /\ Finishes(Listener, "accept", mem)
  \/ \E i \in Session :
       /\ at[i] = "idle" /\ \A j \in 1 .. i - 1 : at[j] # "idle"
       /\ \/ Resumed(Listener, "accept", {"ok"}) /\ launch_new_task(i, "pending")
          \/ Resumed(Listener, "accept", {"error"}) /\ launch_new_task(i, "error")
-----------------------------------------------------------------------------
Total(memory) == Emit(memory, Registered, {Listener})
Terminal(memory) ==
  [Emit(memory, Registered, Registered) EXCEPT !.terminated = Registered]

\* The loop of handle_signals: it ends, gives up waiting, or waits for 200 ms
\* more, behind what the queue of its only thread holds already.
PollAgain(h, from, live, polls, terminal, memory) ==
  \/ live = {} /\ Goes(h, from, "done", memory)
  \/ live # {} /\ polls = Polls /\ Goes(h, from, "done", terminal)
  \/ live # {} /\ polls < Polls
     /\ Goes(h, from, "wait", [memory EXCEPT !.polls = polls,
                                             !.owed = {<<t, at[t]>> : t \in {u \in live : Ready(u)}}])

\* A mutant: total and then nothing more.
handle_signalsOnce ==
  \/ /\ mem.sig = "SIGINT"
     /\ PollAgain(Signals, "start", Registered, 0, Total(mem), Total(mem))
  \/ /\ mem.sig = "SIGTERM"
     /\ Goes(Signals, "start", "done", Terminal(mem))
  \/ /\ \A o \in mem.owed : at[o[1]] # o[2] \/ ~Ready(o[1])
     /\ PollAgain(Signals, "wait", Registered, mem.polls + 1, mem, mem)

handle_signals ==
  \/ /\ mem.sig = "SIGINT"
     /\ PollAgain(Signals, "start", Registered, 0, Terminal(Total(mem)), Total(mem))
  \/ /\ mem.sig = "SIGTERM"
     /\ Goes(Signals, "start", "done", Terminal(mem))
  \/ /\ \A o \in mem.owed : at[o[1]] # o[2] \/ ~Ready(o[1])
     /\ PollAgain(Signals, "wait", Registered, mem.polls + 1, Terminal(mem), mem)

HttpStep(t) ==
  /\ demo = "http"
  /\ \/ t = Listener /\ do_listen
     \/ t \in Session /\ do_session(t)
     \/ t = Signals /\ handle_signals

\* Clients connect, send and close when they like.  The thirty seconds of a
\* stream are counted from the start of its session, and never again.
HttpPeers(t) ==
  /\ demo = "http"
  /\ \/ t = Listener /\ (\E i \in Session : at[i] = "idle")
        /\ Completes(t, "accept", {"ok", "error"})
     \/ Completes(t, "detect", {"ok", "plain", "error"})
     \/ \E from \in {"handshake", "read", "write", "writeLast", "shutdown"} :
          Completes(t, from, {"ok", "error"})

HttpTimes(t) ==
  /\ demo = "http" /\ t \in Session /\ Live(t) /\ Elapses(t)

\* The listener, spawned before it, has started when handle_signals waits.
HttpSignal ==
  /\ demo = "http" /\ mem.sig = "none" /\ at[Listener] # "start"
  /\ \E s \in {"SIGINT", "SIGTERM"} : mem' = [mem EXCEPT !.sig = s]
  /\ UNCHANGED <<demo, at>>
-----------------------------------------------------------------------------
(* The client: the time is set anew before each operation but the read,    *)
(* which has what the write has left.                                      *)
Then == [start |-> "resolve", resolve |-> "connect", connect |-> "handshake",
         handshake |-> "write", write |-> "read", read |-> "shutdown"]

ClientInit == Calls("client", {0}, Operations({0}))

clientSession ==
  InOrder(0, Then, [mem EXCEPT !.late = IF at[0] = "write" THEN @ ELSE {}])

ClientStep(t) == demo = "client" /\ clientSession
ClientPeers(t) ==
  /\ demo = "client"
  /\ \E from \in {Then[s] : s \in DOMAIN Then} \ {"resolve"} :
       Completes(t, from, {"ok", "error"})
\* The resolver of the system always answers.
ClientResolves(t) == demo = "client" /\ Completes(t, "resolve", {"ok", "error"})
ClientTimes(t) ==
  /\ demo = "client" /\ at[t] \notin {"start", "resolve", "done"} /\ Elapses(t)
-----------------------------------------------------------------------------
(* The exercise: a task that sleeps, and the signals that stop it.  Its    *)
(* three threads give no order to what is ready.                           *)
CancelInit == Calls("cancel", {0, Signals}, Joined(Operations({0, Signals}), Raised))

do_task ==
  \/ Awaits(0, "start", "sleep", mem)
  \/ /\ Ready(0)
     /\ IF 0 \in mem.cancelled THEN Finishes(0, "sleep", mem)
        ELSE Awaits(0, "sleep", "sleep", mem)

\* A task that has not yet made its own cancellation state forgets the signal.
Stopped(memory) == LET started == Registered \ {t \in {0} : at[t] = "start"} IN
                   Emit(memory, started, started)
cancelSignals ==
  \/ /\ mem.sig = "SIGINT"
     /\ PollAgain(Signals, "start", Registered, 0, Stopped(mem), Stopped(mem))
  \/ /\ mem.sig = "SIGTERM"
     /\ Goes(Signals, "start", "done", Stopped(mem))
  \/ PollAgain(Signals, "wait", Registered, mem.polls + 1, Stopped(mem), mem)

CancelStep(t) ==
  /\ demo = "cancel"
  /\ \/ t = 0 /\ do_task
     \/ t = Signals /\ cancelSignals
CancelPeers(t) == demo = "cancel" /\ Completes(t, "sleep", {"ok"})
CancelSignal ==
  /\ demo = "cancel" /\ mem.sig = "none"
  /\ \E s \in {"SIGINT", "SIGTERM"} : mem' = [mem EXCEPT !.sig = s]
  /\ UNCHANGED <<demo, at>>
-----------------------------------------------------------------------------
\* SIGINT lets every session finish what it is doing: until the polls are over
\* no operation of a session is aborted, and from then on every task that is
\* still there has been told to terminate (handle_signals, lines 222-249).
Graceful ==
  demo = "http" /\ mem.sig = "SIGINT" =>
    /\ at[Signals] # "done" => \A i \in Session : mem.op[i] # "aborted"
    /\ at[Signals] = "done" => Registered \subseteq mem.terminated
=============================================================================
