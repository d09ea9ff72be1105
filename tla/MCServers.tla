----------------------------- MODULE MCServers -----------------------------
(***************************************************************************)
(* Every server and client of the repository, one after another.           *)
(***************************************************************************)
EXTENDS HttpServer, PollServer, Echo, Sockets, RepThread, Firmware

Init == \/ HttpInit \/ ClientInit \/ CancelInit
        \/ PollInit \/ HelloInit \/ UdpInit \/ ShowInit \/ RepInit \/ GreeterInit
        \/ FirmwareInit \/ NanopbInit
        \/ EchoInit \/ ClientsInit \/ SyncInit \/ TimersInit

Do(t) == \/ HttpStep(t) \/ ClientStep(t) \/ CancelStep(t)
         \/ PollStep(t) \/ SocketStep(t) \/ RepStep(t) \/ GreeterStep(t)
         \/ FirmwareStep(t)
         \/ EchoStep(t) \/ SyncStep(t)

\* What time alone, or the operating system, brings about.
Elapse(t) == \/ HttpTimes(t) \/ ClientTimes(t) \/ ClientResolves(t)
             \/ CancelPeers(t) \/ Rings(t)

\* What the others may do, or not.
Peers(t) == \/ HttpPeers(t) \/ ClientPeers(t) \/ EchoPeers(t) \/ ClientsPeers(t)
            \/ Connects(t)

\* A server waits for its clients for ever, and a program comes to its end.
Rest == {"idle", "waits", "done", "stopped", "exited", "threw", "killed", "terminated",
         "hung", "serving"}
Stops == /\ \/ \A t \in DOMAIN at : at[t] \in Rest
            \/ demo = "greeter" /\ at[Main] = "terminated"
            \/ demo = "rep" /\ at[Main] = "done"
            \/ demo = "syncEcho" /\ at[1] = "threw"
            \/ demo = "hellod" /\ mem.backlog = {}
            \/ demo = "listener" /\ mem.inbox = <<>>
         /\ UNCHANGED vars

Next == \/ \E t \in DOMAIN at : Do(t) \/ Elapse(t) \/ Peers(t)
        \/ HttpSignal \/ CancelSignal \/ stop
        \/ Network \/ Request \/ Dma \/ Interrupt \/ Stops

Processes == 0 .. 6
Runs(t) == t \in DOMAIN at /\ Do(t)
Passes(t) == t \in DOMAIN at /\ Elapse(t)
Fairness == \A t \in Processes : WF_vars(Runs(t)) /\ WF_vars(Passes(t))
Spec == Init /\ [][Next]_vars /\ Fairness
-----------------------------------------------------------------------------
\* What passes through a program comes out in its order, and nothing comes out
\* twice or from nowhere.  Nothing is lost in the pipes of poll.cpp, unless poll
\* fails, nor in the echo on TLS, unless the connection does, nor in the blocking
\* echo.  The other echo servers may lose the rest of a short write, the reply
\* thread a reply that fails, and the firmware what fills its buffer between two
\* polls or is about at an error; once that poll is over its echo is exact again.
Delivered == Heard /\ Echoed /\ Replied /\ InTurn /\ EchoesBytes

\* The signal to stop has been given, where a program runs until it is.
ToldToStop == CASE demo = "http" -> mem.sig # "none"
                [] demo = "cancel" -> 0 \in mem.cancelled
                [] demo = "rep" -> mem.context = "terminated"
                [] OTHER -> demo \in {"client", "poll", "syncEcho", "timers", "nanopb"}

Over == CASE demo = "http" -> \A t \in DOMAIN at : at[t] \in {"idle", "done"}
          [] demo = "poll" -> Done \/ PollFailed
          [] demo = "syncEcho" -> Done \/ at[1] = "threw"
          [] demo = "rep" -> at[Main] \in {"done", "terminated"}
          [] OTHER -> Done

\* A program that nothing keeps running, or that has been told to stop, comes
\* to its end, whatever its peers do or fail to do.
Ends == ToldToStop ~> Over
=============================================================================
