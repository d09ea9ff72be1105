--------------------------- MODULE ServersProofs ---------------------------
(***************************************************************************)
(* The servers of MCServers, for any number of clients, sessions, polls    *)
(* and messages.  One program runs at a time, so each has an invariant of  *)
(* its own, which the steps of the others leave alone.                     *)
(*                                                                         *)
(*   HttpServer   no session is dropped in the middle of a write (Graceful) *)
(*   Sockets      no child is forgotten (Reaped)                           *)
(*   PollServer   a pipe ends once, with every message read (Heard)        *)
(*   Echo         nothing is sent back that was not read; on TLS all of it *)
(*                is when the end is regular, elsewhere some of it (Echoed); *)
(*                a reply, when printed, is not empty (Replied)            *)
(*   RepThread    a request is answered once at most (InTurn)              *)
(*   Firmware     bytes go back as they came, from the start and again from *)
(*                the first whole poll after an error or a full buffer     *)
(*                (EchoesBytes)                                            *)
(***************************************************************************)
EXTENDS MCServers, DataTheorems

\* What the operations of asio do to the memory.
Others(memory, new, xs) ==
  DOMAIN new = DOMAIN memory /\ \A x \in DOMAIN memory \ xs : new[x] = memory[x]

LEMMA AwaitsEffect ==
  ASSUME NEW t, NEW from, NEW to, NEW memory, Awaits(t, from, to, memory),
         "op" \in DOMAIN memory
  PROVE  /\ demo' = demo /\ at[t] = from /\ at' = [at EXCEPT ![t] = to]
         /\ mem'.op
              = [memory.op EXCEPT ![t] = IF t \in memory.late THEN "timeout" ELSE "pending"]
         /\ Others(memory, mem', {"op"})
  BY DEF Awaits, Goes, Started, Others

LEMMA FinishesEffect ==
  ASSUME NEW t, NEW from, NEW memory, Finishes(t, from, memory), "op" \in DOMAIN memory
  PROVE  /\ demo' = demo /\ at[t] = from /\ at' = [at EXCEPT ![t] = "done"]
         /\ mem'.op = [memory.op EXCEPT ![t] = "none"]
         /\ Others(memory, mem', {"op"})
  BY DEF Finishes, Goes, Others

LEMMA CompletesEffect ==
  ASSUME NEW t, NEW from, NEW results, Completes(t, from, results), "op" \in DOMAIN mem
  PROVE  /\ demo' = demo /\ at[t] = from /\ at' = at /\ mem.op[t] = "pending"
         /\ \E r \in results : mem'.op = [mem.op EXCEPT ![t] = r]
         /\ Others(mem, mem', {"op"})
  BY DEF Completes, Pending, Others

LEMMA ElapsesEffect ==
  ASSUME NEW t, Elapses(t), "op" \in DOMAIN mem, "late" \in DOMAIN mem
  PROVE  /\ demo' = demo /\ at' = at /\ mem'.late = mem.late \cup {t}
         /\ mem'.op = [mem.op EXCEPT ![t] = IF mem.op[t] = "pending" THEN "timeout"
                                            ELSE mem.op[t]]
         /\ Others(mem, mem', {"op", "late"})
  BY DEF Elapses, Others

LEMMA EmitEffect ==
  ASSUME NEW memory, NEW told, NEW stopped,
         "op" \in DOMAIN memory, "cancelled" \in DOMAIN memory
  PROVE  /\ Emit(memory, told, stopped).cancelled = memory.cancelled \cup told
         /\ Emit(memory, told, stopped).op
              = [t \in DOMAIN memory.op |->
                   IF t \in stopped /\ memory.op[t] = "pending" THEN "aborted"
                   ELSE memory.op[t]]
         /\ Others(memory, Emit(memory, told, stopped), {"op", "cancelled"})
  BY DEF Emit, Others
-----------------------------------------------------------------------------
(* The HTTP server.                                                        *)

HttpPlaces == {"idle", "start", "accept", "detect", "handshake", "read", "write",
               "writeLast", "shutdown", "wait", "done"}
HttpResults == {"none", "pending", "ok", "plain", "error", "timeout", "aborted"}

HttpType ==
  /\ at \in [0 .. Signals -> HttpPlaces]
  /\ {"op", "late", "cancelled", "sig", "polls", "owed", "terminated"} \subseteq DOMAIN mem
  /\ mem.op \in [0 .. Signals -> HttpResults]

\* The listener's stream has no time limit, and while it awaits a connection
\* there is an operation that it awaits.
ListenerAwaits ==
  /\ at[Listener] \in {"start", "accept", "done"} /\ Listener \notin mem.late
  /\ at[Listener] = "accept" => mem.op[Listener] # "none"

\* The signals come after the listener, and handle_signals after the signals.
SignalsFirst ==
  /\ at[Signals] \in {"start", "wait", "done"}
  /\ mem.sig = "none" => at[Signals] = "start"
  /\ mem.sig # "none" => at[Listener] # "start"

SessionsGoOn ==
  at[Signals] # "done" => \A i \in Session : mem.op[i] # "aborted"

\* After SIGINT the listener starts no operation; a connection it has accepted
\* just before is one that the first poll waits for.
ListenerTold ==
  mem.sig = "SIGINT" /\ at[Signals] # "start" =>
    /\ mem.op[Listener] # "pending"
    /\ Listener \in mem.cancelled \/ at[Listener] = "done"
    /\ \/ at[Listener] = "done" \/ mem.op[Listener] = "aborted"
       \/ at[Signals] = "wait" /\ <<Listener, "accept">> \in mem.owed

AllTold ==
  mem.sig = "SIGINT" /\ at[Signals] = "done" => Registered \subseteq mem.terminated

HttpInv == HttpType /\ ListenerAwaits /\ SignalsFirst /\ SessionsGoOn
           /\ ListenerTold /\ AllTold

LEMMA HttpTasks ==
  /\ Sessions \in Nat /\ Signals \in Nat /\ Signals = Sessions + 1
  /\ Listener = 0 /\ Listener \in 0 .. Signals /\ Signals \in 0 .. Signals
  /\ Listener # Signals /\ Listener \notin Session /\ Signals \notin Session
  /\ Session \subseteq 0 .. Signals /\ 0 .. Signals = Tasks \cup {Signals}
  /\ Signals \notin Tasks /\ Polls \in Nat \ {0}
  BY HttpServerAssumption DEF Signals, Listener, Session, Tasks

LEMMA HttpStarts == HttpInit => HttpInv
  <1> SUFFICES ASSUME HttpInit PROVE HttpInv
    OBVIOUS
  <1>1. /\ {"op", "late", "cancelled", "sig", "polls", "owed", "terminated"} \subseteq DOMAIN mem
        /\ mem.op = [t \in 0 .. Signals |-> "none"] /\ mem.late = {} /\ mem.sig = "none"
    BY DEF HttpInit, Joined, Std, Operations, Raised
  <1>2. /\ at \in [0 .. Signals -> HttpPlaces]
        /\ at[Listener] = "start" /\ at[Signals] = "start"
    BY HttpTasks DEF HttpInit, HttpPlaces
  <1> QED BY <1>1, <1>2, HttpTasks DEF HttpInv, HttpType, HttpResults, ListenerAwaits,
             SignalsFirst, SessionsGoOn, ListenerTold, AllTold

\* The registered tasks are those that have not completed.
LEMMA RegisteredTasks ==
  HttpType => Registered = {t \in Tasks : at[t] \notin {"idle", "done"}}
  BY HttpTasks DEF HttpType, Registered, Live

\* A step of a session: it starts nothing that is aborted, and no other task.
LEMMA SessionStep ==
  ASSUME HttpInv, NEW i \in Session, demo = "http", demo' = demo,
         NEW to \in HttpPlaces, NEW r \in HttpResults \ {"aborted"},
         at[i] # "idle" \/ to = "idle", at[i] # "done" \/ to = "done",
         at' = [at EXCEPT ![i] = to],
         mem'.op = [mem.op EXCEPT ![i] = r],
         Others(mem, mem', {"op", "late"}),
         mem'.late \in {mem.late, mem.late \cup {i}}
  PROVE  HttpInv'
  <1>0. /\ HttpType /\ i \in 0 .. Signals /\ i # Signals /\ i # Listener
        /\ Signals \in 0 .. Signals /\ Listener \in 0 .. Signals
        /\ Session \subseteq 0 .. Signals
    BY HttpTasks DEF HttpInv
  <1>1. /\ HttpType' /\ at'[Signals] = at[Signals] /\ at'[Listener] = at[Listener]
        /\ mem'.op[Listener] = mem.op[Listener] /\ mem'.sig = mem.sig
        /\ mem'.owed = mem.owed /\ mem'.cancelled = mem.cancelled
        /\ mem'.terminated = mem.terminated
        /\ \A j \in Session : mem'.op[j] # "aborted" \/ mem'.op[j] = mem.op[j]
    <2>1. /\ DOMAIN mem' = DOMAIN mem /\ mem'.sig = mem.sig /\ mem'.owed = mem.owed
          /\ mem'.cancelled = mem.cancelled /\ mem'.terminated = mem.terminated
      BY <1>0 DEF Others, HttpType
    <2>2. HttpType'
      BY <1>0 DEF Others, HttpType
    <2>3. /\ at'[Signals] = at[Signals] /\ at'[Listener] = at[Listener]
          /\ mem'.op[Listener] = mem.op[Listener]
          /\ \A j \in Session : mem'.op[j] # "aborted" \/ mem'.op[j] = mem.op[j]
      BY <1>0 DEF HttpType
    <2> QED BY <2>1, <2>2, <2>3
  <1>2. Registered' \subseteq Registered
    BY <1>1, HttpTasks, RegisteredTasks DEF HttpInv, HttpType, Registered, Live
  <1> QED BY <1>1, <1>2, HttpTasks DEF HttpInv, ListenerAwaits, SignalsFirst, SessionsGoOn,
             ListenerTold, AllTold

LEMMA SessionAwaits ==
  ASSUME HttpInv, demo = "http", NEW i \in Session,
         NEW from \in HttpPlaces \ {"idle", "done"}, NEW to \in HttpPlaces,
         Awaits(i, from, to, mem)
  PROVE  HttpInv'
  <1>1. "op" \in DOMAIN mem
    BY DEF HttpInv, HttpType
  <1> DEFINE r == IF i \in mem.late THEN "timeout" ELSE "pending"
  <1>2. /\ demo' = demo /\ at[i] = from /\ at' = [at EXCEPT ![i] = to]
        /\ mem'.op = [mem.op EXCEPT ![i] = r] /\ Others(mem, mem', {"op"})
    BY <1>1, AwaitsEffect
  <1>3. r \in HttpResults \ {"aborted"}
    BY DEF HttpResults
  <1>4. Others(mem, mem', {"op", "late"}) /\ mem'.late = mem.late
    BY <1>2 DEF Others, HttpInv, HttpType
  <1> HIDE DEF r
  <1> QED BY <1>2, <1>3, <1>4, SessionStep

LEMMA SessionFinishes ==
  ASSUME HttpInv, demo = "http", NEW i \in Session,
         NEW from \in HttpPlaces \ {"idle"}, Finishes(i, from, mem)
  PROVE  HttpInv'
  <1>1. "op" \in DOMAIN mem
    BY DEF HttpInv, HttpType
  <1>2. /\ demo' = demo /\ at[i] = from /\ at' = [at EXCEPT ![i] = "done"]
        /\ mem'.op = [mem.op EXCEPT ![i] = "none"] /\ Others(mem, mem', {"op"})
    BY <1>1, FinishesEffect
  <1>3. "none" \in HttpResults \ {"aborted"} /\ "done" \in HttpPlaces
    BY DEF HttpResults, HttpPlaces
  <1>4. Others(mem, mem', {"op", "late"}) /\ mem'.late = mem.late
    BY <1>2 DEF Others, HttpInv, HttpType
  <1> QED BY <1>2, <1>3, <1>4, SessionStep

LEMMA HttpSession ==
  ASSUME HttpInv, demo = "http", NEW i \in Session, do_session(i)
  PROVE  HttpInv'
  <1>1. {"start", "accept", "detect", "handshake", "read", "write", "writeLast",
         "shutdown", "wait"} = HttpPlaces \ {"idle", "done"}
    BY DEF HttpPlaces
  <1>2. CASE \E from, to \in HttpPlaces \ {"idle", "done"} : Awaits(i, from, to, mem)
    BY <1>2, SessionAwaits
  <1>3. CASE \E from \in HttpPlaces \ {"idle", "done"} : Finishes(i, from, mem)
    BY <1>3, SessionFinishes
  <1> QED BY <1>1, <1>2, <1>3 DEF do_session, handle_session, ReadOrShutdown

LEMMA HttpListener ==
  ASSUME HttpInv, demo = "http", do_listen
  PROVE  HttpInv'
  <1>0. /\ "op" \in DOMAIN mem /\ HttpType /\ Listener \notin mem.late
        /\ at \in [0 .. Signals -> HttpPlaces] /\ mem.op \in [0 .. Signals -> HttpResults]
    BY DEF HttpInv, HttpType, ListenerAwaits
  <1>o. "op" \in DOMAIN mem
    BY <1>0
  <1>l. Listener \notin mem.late
    BY <1>0
  <1>a. ASSUME NEW to \in {"accept", "done"}, NEW r \in {"pending", "none"},
               at' = [at EXCEPT ![Listener] = to],
               mem'.op = [mem.op EXCEPT ![Listener] = r],
               to = "accept" => r = "pending" /\ mem.sig = "none",
               to = "done" => r = "none" /\ at[Listener] = "accept",
               Others(mem, mem', {"op"})
        PROVE  HttpInv'
    <2>1. /\ HttpType' /\ at'[Signals] = at[Signals] /\ at'[Listener] = to
          /\ mem'.op[Listener] = r /\ mem'.sig = mem.sig /\ mem'.late = mem.late
          /\ mem'.owed = mem.owed /\ mem'.cancelled = mem.cancelled
          /\ mem'.terminated = mem.terminated
          /\ \A j \in Session : mem'.op[j] = mem.op[j]
      BY <1>0, <1>a, HttpTasks DEF HttpType, Others, HttpPlaces, HttpResults
    <2>2. to = "done" => Registered' \subseteq Registered
      BY <1>0, <1>a, <2>1, HttpTasks DEF HttpType, Registered, Live
    <2> QED BY <1>a, <2>1, <2>2, HttpTasks DEF HttpInv, ListenerAwaits, SignalsFirst,
               SessionsGoOn, ListenerTold, AllTold
  <1>1. CASE Awaits(Listener, "start", "accept", mem)
    <2>0. /\ at[Listener] = "start" /\ at' = [at EXCEPT ![Listener] = "accept"]
          /\ mem'.op = [mem.op EXCEPT ![Listener] =
                          IF Listener \in mem.late THEN "timeout" ELSE "pending"]
          /\ Others(mem, mem', {"op"})
      BY <1>o, <1>1, AwaitsEffect
    <2>1. /\ at[Listener] = "start" /\ at' = [at EXCEPT ![Listener] = "accept"]
          /\ mem'.op = [mem.op EXCEPT ![Listener] = "pending"] /\ Others(mem, mem', {"op"})
      BY <1>l, <2>0, Zenon
    <2>2. mem.sig = "none"
      BY <2>1 DEF HttpInv, SignalsFirst
    <2> QED BY <1>a, <2>1, <2>2
  <1>2. CASE Finishes(Listener, "accept", mem)
    <2>1. /\ at[Listener] = "accept" /\ at' = [at EXCEPT ![Listener] = "done"]
          /\ mem'.op = [mem.op EXCEPT ![Listener] = "none"] /\ Others(mem, mem', {"op"})
      BY <1>o, <1>2, FinishesEffect
    <2> QED BY <1>a, <2>1
  <1>3. ASSUME NEW i \in Session, NEW result \in {"pending", "error"},
               at[i] = "idle", at[Listener] = "accept",
               mem.op[Listener] \in {"ok", "error"}, launch_new_task(i, result)
        PROVE  HttpInv'
    <2> DEFINE stops == Listener \in mem.cancelled
    <2>1. /\ at' = [at EXCEPT ![i] = "detect", ![Listener] = IF stops THEN "done" ELSE "accept"]
          /\ mem'.op = [mem.op EXCEPT ![i] = result,
                                      ![Listener] = IF stops THEN "none" ELSE "pending"]
          /\ Others(mem, mem', {"op"})
      BY <1>0, <1>3 DEF launch_new_task, Others
    <2>2. /\ HttpType' /\ at'[Signals] = at[Signals]
          /\ at'[Listener] = (IF stops THEN "done" ELSE "accept")
          /\ mem'.op[Listener] = (IF stops THEN "none" ELSE "pending")
          /\ mem'.sig = mem.sig /\ mem'.late = mem.late
          /\ mem'.owed = mem.owed /\ mem'.cancelled = mem.cancelled
          /\ mem'.terminated = mem.terminated
          /\ \A j \in Session : mem'.op[j] \in {mem.op[j], result}
      <3>1. /\ at' \in [0 .. Signals -> HttpPlaces] /\ at'[Signals] = at[Signals]
            /\ at'[Listener] = (IF stops THEN "done" ELSE "accept")
        BY <1>0, <2>1, HttpTasks DEF HttpPlaces
      <3>2. /\ mem'.op \in [0 .. Signals -> HttpResults]
            /\ mem'.op[Listener] = (IF stops THEN "none" ELSE "pending")
            /\ \A j \in Session : mem'.op[j] \in {mem.op[j], result}
        BY <1>0, <2>1, HttpTasks DEF HttpResults
      <3> QED BY <1>0, <2>1, <3>1, <3>2 DEF HttpType, Others
    <2>3. ~(mem.sig = "SIGINT" /\ at[Signals] = "done")
      BY <1>3 DEF HttpInv, ListenerTold
    <2>4. mem.sig = "SIGINT" /\ at[Signals] # "start" => stops
      BY <1>3 DEF HttpInv, ListenerTold
    <2> QED BY <1>3, <2>2, <2>3, <2>4, HttpTasks DEF HttpInv, ListenerAwaits, SignalsFirst,
               SessionsGoOn, ListenerTold, AllTold
  <1> QED BY <1>1, <1>2, <1>3 DEF do_listen, Resumed

\* What handle_signals does with its task: it ends, or waits for what is ready.
LEMMA HttpSignals ==
  ASSUME HttpInv, demo = "http", handle_signals
  PROVE  HttpInv'
  <1>0. /\ HttpType /\ "op" \in DOMAIN mem /\ "cancelled" \in DOMAIN mem
        /\ at \in [0 .. Signals -> HttpPlaces] /\ mem.op \in [0 .. Signals -> HttpResults]
        /\ Registered = {t \in Tasks : at[t] \notin {"idle", "done"}}
    BY RegisteredTasks DEF HttpInv, HttpType
  <1>a. ASSUME NEW to \in {"wait", "done"}, at' = [at EXCEPT ![Signals] = to], HttpType',
               at[Signals] # "done", mem.sig # "none",
               mem'.sig = mem.sig, mem'.late = mem.late,
               mem'.op[Listener] \in {mem.op[Listener], "aborted"},
               to = "wait" => \A j \in Session : mem'.op[j] = mem.op[j],
               mem.sig = "SIGINT" =>
                 /\ mem'.op[Listener] # "pending"
                 /\ Listener \in mem'.cancelled \/ at[Listener] = "done"
                 /\ \/ at[Listener] = "done" \/ mem'.op[Listener] = "aborted"
                    \/ to = "wait" /\ <<Listener, "accept">> \in mem'.owed
                 /\ to = "done" => Registered \subseteq mem'.terminated
        PROVE  HttpInv'
    <2>1. at'[Listener] = at[Listener] /\ at'[Signals] = to
      BY <1>0, <1>a, HttpTasks
    <2>2. Registered' = Registered
      BY <1>0, <1>a, HttpTasks DEF HttpType, Registered, Live
    <2> QED BY <1>a, <2>1, <2>2, HttpTasks DEF HttpInv, ListenerAwaits, SignalsFirst,
               SessionsGoOn, ListenerTold, AllTold
  <1>b. at[Listener] = "done" \/ Listener \in Registered \/ mem.sig = "none"
    BY <1>0, HttpTasks DEF HttpInv, ListenerAwaits, SignalsFirst, Tasks
  <1>1. CASE mem.sig = "SIGTERM" /\ Goes(Signals, "start", "done", Terminal(mem))
    <2>1. /\ at' = [at EXCEPT ![Signals] = "done"] /\ mem' = Terminal(mem)
          /\ at[Signals] = "start"
      BY <1>1 DEF Goes
    <2>2. /\ mem'.op = [t \in DOMAIN mem.op |->
                IF t \in Registered /\ mem.op[t] = "pending" THEN "aborted" ELSE mem.op[t]]
          /\ mem'.sig = mem.sig /\ mem'.late = mem.late
          /\ DOMAIN mem' = DOMAIN mem
      BY <1>0, <2>1, EmitEffect DEF Terminal, Others, HttpType
    <2>3. /\ HttpType' /\ at'[Listener] = at[Listener] /\ at'[Signals] = "done"
          /\ mem'.op[Listener] \in {mem.op[Listener], "aborted"}
      BY <1>0, <2>1, <2>2, HttpTasks DEF HttpType, HttpPlaces, HttpResults
    <2> QED BY <1>1, <2>2, <2>3, HttpTasks DEF HttpInv, ListenerAwaits, SignalsFirst,
               SessionsGoOn, ListenerTold, AllTold
  <1>2. CASE /\ mem.sig = "SIGINT"
             /\ PollAgain(Signals, "start", Registered, 0, Terminal(Total(mem)), Total(mem))
    <2>0. at[Signals] = "start" /\ 0 # Polls
      BY <1>2, HttpTasks DEF PollAgain, Goes
    <2>1. /\ Total(mem).op = [t \in 0 .. Signals |->
                IF t = Listener /\ mem.op[t] = "pending" THEN "aborted" ELSE mem.op[t]]
          /\ Total(mem).cancelled = mem.cancelled \cup Registered
          /\ Others(mem, Total(mem), {"op", "cancelled"})
      <3>1. DOMAIN mem.op = 0 .. Signals
        BY <1>0
      <3>2. /\ Total(mem).op = [t \in DOMAIN mem.op |->
                  IF t \in {Listener} /\ mem.op[t] = "pending" THEN "aborted" ELSE mem.op[t]]
            /\ Total(mem).cancelled = mem.cancelled \cup Registered
            /\ Others(mem, Total(mem), {"op", "cancelled"})
        BY <1>0, EmitEffect DEF Total
      <3> QED BY <3>1, <3>2
    <2>2. /\ Total(mem).sig = mem.sig /\ Total(mem).late = mem.late
          /\ DOMAIN Total(mem) = DOMAIN mem
          /\ Total(mem).op \in [0 .. Signals -> HttpResults]
          /\ Total(mem).op[Listener] \in {mem.op[Listener], "aborted"} \ {"pending"}
          /\ \A j \in Session : Total(mem).op[j] = mem.op[j]
      BY <1>0, <2>1, HttpTasks DEF Others, HttpType, HttpResults
    <2>3. CASE Registered = {} /\ Goes(Signals, "start", "done", Total(mem))
      <3>1. mem' = Total(mem) /\ at' = [at EXCEPT ![Signals] = "done"]
        BY <2>3 DEF Goes
      <3>2. HttpType'
        BY <1>0, <2>2, <3>1 DEF HttpType, HttpPlaces
      <3>3. at[Listener] = "done"
        BY <1>2, <1>b, <2>3
      <3> QED BY <1>a, <1>2, <2>0, <2>2, <2>3, <3>1, <3>2, <3>3
    <2>4. ASSUME NEW owed, owed = {<<t, at[t]>> : t \in {u \in Registered : Ready(u)}},
                 Goes(Signals, "start", "wait", [Total(mem) EXCEPT !.polls = 0, !.owed = owed])
          PROVE  HttpInv'
      <3>1. /\ at' = [at EXCEPT ![Signals] = "wait"] /\ mem'.owed = owed
            /\ DOMAIN mem' = DOMAIN mem /\ mem'.sig = mem.sig /\ mem'.late = mem.late
            /\ mem'.op = Total(mem).op /\ mem'.cancelled = Total(mem).cancelled
        BY <1>0, <2>2, <2>4 DEF Goes, HttpType
      <3>2. HttpType'
        BY <1>0, <2>2, <3>1 DEF HttpType, HttpPlaces
      <3>3. \/ at[Listener] = "done" \/ mem'.op[Listener] = "aborted"
            \/ <<Listener, "accept">> \in mem'.owed
        <4> SUFFICES ASSUME at[Listener] # "done", mem.op[Listener] # "pending"
                     PROVE  <<Listener, "accept">> \in owed
          BY <1>0, <2>1, <3>1, HttpTasks
        <4>1. at[Listener] = "accept" /\ Ready(Listener)
          BY <1>2 DEF HttpInv, ListenerAwaits, SignalsFirst, Ready
        <4> QED BY <1>2, <1>b, <2>4, <4>1
      <3> QED BY <1>a, <1>b, <1>2, <2>0, <2>1, <2>2, <3>1, <3>2, <3>3
    <2> QED BY <1>2, <2>0, <2>3, <2>4 DEF PollAgain
  <1>3. CASE /\ \A o \in mem.owed : at[o[1]] # o[2] \/ ~Ready(o[1])
             /\ PollAgain(Signals, "wait", Registered, mem.polls + 1, Terminal(mem), mem)
    <2>0. at[Signals] = "wait" /\ mem.sig # "none"
      BY <1>3 DEF PollAgain, Goes, HttpInv, SignalsFirst
    <2>1. mem.sig = "SIGINT" =>
            /\ mem.op[Listener] # "pending" /\ (Listener \in mem.cancelled \/ at[Listener] = "done")
            /\ at[Listener] = "done" \/ mem.op[Listener] = "aborted"
      <3> SUFFICES ASSUME mem.sig = "SIGINT", at[Listener] # "done",
                          <<Listener, "accept">> \in mem.owed
                   PROVE  FALSE
        BY <2>0 DEF HttpInv, ListenerTold
      <3>1. at[Listener] = "accept" /\ Ready(Listener)
        BY <2>0 DEF HttpInv, ListenerAwaits, SignalsFirst, ListenerTold, Ready
      <3> QED BY <1>3, <3>1
    <2>2. CASE Registered = {} /\ Goes(Signals, "wait", "done", mem)
      <3>1. mem' = mem /\ at' = [at EXCEPT ![Signals] = "done"]
        BY <2>2 DEF Goes
      <3>2. HttpType'
        BY <1>0, <3>1 DEF HttpType, HttpPlaces
      <3> QED BY <1>a, <2>0, <2>1, <2>2, <3>1, <3>2
    <2>3. CASE Goes(Signals, "wait", "done", Terminal(mem))
      <3>1. at' = [at EXCEPT ![Signals] = "done"] /\ mem' = Terminal(mem)
        BY <2>3 DEF Goes
      <3>2. /\ mem'.op = [t \in 0 .. Signals |->
                IF t \in Registered /\ mem.op[t] = "pending" THEN "aborted" ELSE mem.op[t]]
            /\ mem'.cancelled = mem.cancelled \cup Registered
            /\ mem'.terminated = Registered
            /\ mem'.sig = mem.sig /\ mem'.late = mem.late /\ DOMAIN mem' = DOMAIN mem
        <4> DEFINE emitted == Emit(mem, Registered, Registered)
        <4>1. /\ emitted.op = [t \in DOMAIN mem.op |->
                IF t \in Registered /\ mem.op[t] = "pending" THEN "aborted" ELSE mem.op[t]]
              /\ emitted.cancelled = mem.cancelled \cup Registered
              /\ Others(mem, emitted, {"op", "cancelled"})
          BY <1>0, EmitEffect
        <4>2. mem' = [emitted EXCEPT !.terminated = Registered]
          BY <3>1 DEF Terminal
        <4> HIDE DEF emitted
        <4>3. /\ {"op", "cancelled", "terminated", "sig", "late"} \subseteq DOMAIN mem
              /\ DOMAIN mem.op = 0 .. Signals
          BY <1>0 DEF HttpType
        <4> QED BY <4>1, <4>2, <4>3 DEF Others
      <3>3. HttpType' /\ mem'.op[Listener] \in {mem.op[Listener], "aborted"}
        BY <1>0, <3>1, <3>2, HttpTasks DEF HttpType, HttpPlaces, HttpResults
      <3> QED BY <1>a, <2>0, <2>1, <3>1, <3>2, <3>3
    <2>4. ASSUME NEW owed, owed = {<<t, at[t]>> : t \in {u \in Registered : Ready(u)}},
                 Goes(Signals, "wait", "wait", [mem EXCEPT !.polls = mem.polls + 1, !.owed = owed])
          PROVE  HttpInv'
      <3>1. /\ at' = [at EXCEPT ![Signals] = "wait"]
            /\ DOMAIN mem' = DOMAIN mem /\ mem'.sig = mem.sig /\ mem'.late = mem.late
            /\ mem'.op = mem.op /\ mem'.cancelled = mem.cancelled
        BY <1>0, <2>4 DEF Goes, HttpType
      <3>2. HttpType'
        BY <1>0, <3>1 DEF HttpType, HttpPlaces
      <3> QED BY <1>a, <2>0, <2>1, <3>1, <3>2
    <2> QED BY <1>3, <2>2, <2>3, <2>4 DEF PollAgain
  <1> QED BY <1>1, <1>2, <1>3 DEF handle_signals

\* A peer, or the clock, completes what is pending, and does not abort it.
LEMMA HttpCompletes ==
  ASSUME HttpInv, demo = "http", NEW t \in 0 .. Signals, NEW from,
         NEW results \in SUBSET {"ok", "plain", "error"}, Completes(t, from, results)
  PROVE  HttpInv'
  <1>0. /\ HttpType /\ "op" \in DOMAIN mem
        /\ at \in [0 .. Signals -> HttpPlaces] /\ mem.op \in [0 .. Signals -> HttpResults]
    BY DEF HttpInv, HttpType
  <1>1. PICK r \in {"ok", "plain", "error"} :
          /\ at' = at /\ mem.op[t] = "pending" /\ mem'.op = [mem.op EXCEPT ![t] = r]
          /\ Others(mem, mem', {"op"})
    <2>1. /\ at' = at /\ mem.op[t] = "pending" /\ Others(mem, mem', {"op"})
          /\ \E r \in results : mem'.op = [mem.op EXCEPT ![t] = r]
      BY <1>0, CompletesEffect
    <2> QED BY <2>1
  <1>2. /\ HttpType' /\ mem'.sig = mem.sig /\ mem'.late = mem.late /\ mem'.owed = mem.owed
        /\ mem'.cancelled = mem.cancelled /\ mem'.terminated = mem.terminated
        /\ \A j \in 0 .. Signals :
             mem'.op[j] = mem.op[j] \/ (mem.op[j] = "pending" /\ mem'.op[j] = r)
    BY <1>0, <1>1 DEF HttpType, HttpResults, Others
  <1>3. Registered' = Registered
    BY <1>0, <1>1, <1>2, RegisteredTasks DEF HttpType, Registered, Live
  <1> QED BY <1>1, <1>2, <1>3, HttpTasks DEF HttpInv, ListenerAwaits, SignalsFirst,
             SessionsGoOn, ListenerTold, AllTold

LEMMA HttpElapses ==
  ASSUME HttpInv, demo = "http", NEW t, HttpTimes(t)
  PROVE  HttpInv'
  <1>0. /\ t \in Session /\ at[t] \notin {"idle", "done"} /\ t \in 0 .. Signals
        /\ "op" \in DOMAIN mem /\ "late" \in DOMAIN mem
        /\ at \in [0 .. Signals -> HttpPlaces] /\ mem.op \in [0 .. Signals -> HttpResults]
    BY HttpTasks DEF HttpTimes, Live, HttpInv, HttpType
  <1> DEFINE r == IF mem.op[t] = "pending" THEN "timeout" ELSE mem.op[t]
  <1>1. /\ demo' = demo /\ at' = at /\ mem'.late = mem.late \cup {t}
        /\ mem'.op = [mem.op EXCEPT ![t] = r] /\ Others(mem, mem', {"op", "late"})
    BY <1>0, ElapsesEffect DEF HttpTimes
  <1>2. /\ HttpType' /\ mem'.sig = mem.sig /\ mem'.owed = mem.owed
        /\ mem'.cancelled = mem.cancelled /\ mem'.terminated = mem.terminated
        /\ mem'.op[Listener] = mem.op[Listener] /\ Listener \notin {t}
        /\ \A j \in Session : mem'.op[j] = "aborted" => mem.op[j] = "aborted"
    BY <1>0, <1>1, HttpTasks DEF HttpInv, HttpType, HttpResults, Others
  <1>3. Registered' = Registered
    BY <1>0, <1>1, <1>2, RegisteredTasks DEF HttpInv, HttpType, Registered, Live
  <1> QED BY <1>1, <1>2, <1>3, HttpTasks DEF HttpInv, ListenerAwaits, SignalsFirst,
             SessionsGoOn, ListenerTold, AllTold

LEMMA HttpSignalled ==
  ASSUME HttpInv, HttpSignal
  PROVE  HttpInv'
  <1>1. /\ at' = at /\ mem.sig = "none" /\ at[Listener] # "start"
        /\ mem'.sig \in {"SIGINT", "SIGTERM"} /\ Others(mem, mem', {"sig"})
    BY DEF HttpInv, HttpType, HttpSignal, Others
  <1>2. /\ HttpType' /\ mem'.late = mem.late /\ mem'.op = mem.op /\ at[Signals] = "start"
    BY <1>1 DEF HttpInv, HttpType, SignalsFirst, Others
  <1> QED BY <1>1, <1>2 DEF HttpInv, ListenerAwaits, SignalsFirst, SessionsGoOn,
             ListenerTold, AllTold

\* The steps that there are while the HTTP server runs.
LEMMA HttpNext ==
  ASSUME demo = "http", [Next]_vars
  PROVE  \/ \E t \in DOMAIN at : HttpStep(t) \/ HttpTimes(t) \/ HttpPeers(t)
         \/ HttpSignal
         \/ UNCHANGED vars
  BY DEF Next, Do, Elapse, Peers, ClientStep, CancelStep, PollStep, SocketStep, RepStep,
         GreeterStep, FirmwareStep, EchoStep, SyncStep, run_client, httpGet,
         ClientTimes, ClientResolves, CancelPeers, Rings, ClientPeers, EchoPeers,
         ClientsPeers, Connects, CancelSignal, stop, Network, Request, Dma, Interrupt,
         Stops, Echoers, Echoes

LEMMA HttpKeeps ==
  ASSUME HttpInv, demo = "http", [Next]_vars
  PROVE  HttpInv'
  <1>1. ASSUME NEW t \in DOMAIN at, HttpStep(t) PROVE HttpInv'
    BY <1>1, HttpListener, HttpSession, HttpSignals DEF HttpStep
  <1>2. ASSUME NEW t \in DOMAIN at, HttpPeers(t) PROVE HttpInv'
    <2>1. t \in 0 .. Signals
      BY DEF HttpInv, HttpType
    <2>2. \E from : \E results \in SUBSET {"ok", "plain", "error"} :
            Completes(t, from, results)
      BY <1>2 DEF HttpPeers
    <2> QED BY <2>1, <2>2, HttpCompletes
  <1>3. CASE UNCHANGED vars
    BY <1>3 DEF vars, HttpInv, HttpType, ListenerAwaits, SignalsFirst, SessionsGoOn,
                ListenerTold, AllTold, Registered, Live
  <1> QED BY <1>1, <1>2, <1>3, HttpElapses, HttpSignalled, HttpNext
-----------------------------------------------------------------------------
(* hellod.                                                                 *)

ParentPlaces == {"start", "bind", "listen", "accept", "fork", "close", "exited"}
VisitorPlaces == {"idle", "waits", "child", "exit", "done"}

HelloType ==
  /\ at \in [{Parent} \cup Visitor -> ParentPlaces \cup VisitorPlaces]
  /\ at[Parent] \in ParentPlaces
  /\ {"addr", "open", "backlog", "fd", "forked", "zombies", "sigchld", "handling",
      "greeted", "dropped"} \subseteq DOMAIN mem
  /\ mem.backlog \subseteq Visitor
  /\ at[Parent] \in {"fork", "close"} => mem.fd \in Visitor

\* A child that has ended has raised a signal, or the handler is about to see it.
Noticed == mem.zombies # {} => mem.sigchld \/ mem.handling

\* The parent's own socket from the moment it is bound, and one to serve.
OpenSockets ==
  /\ at[Parent] \in {"start", "bind"} => mem.open = 0
  /\ at[Parent] \in {"listen", "accept"} => mem.open = 1
  /\ at[Parent] \in {"fork", "close"} => mem.open = 2

\* Only a child greets, and every child has been forked.
Children ==
  /\ \A v \in Visitor : at[v] \in {"child", "exit"} => v \in mem.forked
  /\ mem.greeted \subseteq mem.forked

HelloInv == HelloType /\ Noticed /\ OpenSockets /\ Children

LEMMA HelloTasks == Parent \notin Visitor
  BY DEF Parent, Visitor

LEMMA HelloStarts == HelloInit => HelloInv
  <1> SUFFICES ASSUME HelloInit PROVE HelloInv
    OBVIOUS
  <1>1. /\ {"addr", "open", "backlog", "fd", "forked", "zombies", "sigchld", "handling",
            "greeted", "dropped"} \subseteq DOMAIN mem
        /\ mem.open = 0 /\ mem.backlog = {} /\ mem.zombies = {} /\ mem.greeted = {}
    BY DEF HelloInit, Joined, Std
  <1>2. /\ at \in [{Parent} \cup Visitor -> ParentPlaces \cup VisitorPlaces]
        /\ at[Parent] = "start" /\ \A v \in Visitor : at[v] = "idle"
    BY HelloTasks DEF HelloInit, ParentPlaces, VisitorPlaces
  <1> QED BY <1>1, <1>2 DEF HelloInv, HelloType, Noticed, OpenSockets, Children, ParentPlaces

LEMMA ReapedInv == HelloInv => Reaped
  <1> SUFFICES ASSUME HelloInv, demo = "hellod"
               PROVE  /\ mem.open = Cardinality({p \in {"listen", "accept", "fork", "close"} :
                                                   at[Parent] = p})
                                    + Cardinality({p \in {"fork", "close"} : at[Parent] = p})
                         \/ at[Parent] = "exited"
    BY DEF HelloInv, Noticed, Children, Reaped
  <1> DEFINE A == {p \in {"listen", "accept", "fork", "close"} : at[Parent] = p}
             B == {p \in {"fork", "close"} : at[Parent] = p}
  <1>0. Cardinality({}) = 0 /\ \A x : Cardinality({x}) = 1
    BY FS_EmptySet, FS_Singleton
  <1>1. CASE at[Parent] \in {"start", "bind"}
    <2>1. A = {} /\ B = {}
      BY <1>1
    <2> HIDE DEF A, B
    <2>2. mem.open = Cardinality(A) + Cardinality(B)
      BY <1>0, <1>1, <2>1 DEF HelloInv, OpenSockets
    <2> QED BY <2>2 DEF A, B
  <1>2. CASE at[Parent] \in {"listen", "accept"}
    <2>1. A = {at[Parent]} /\ B = {}
      BY <1>2
    <2> HIDE DEF A, B
    <2>2. mem.open = Cardinality(A) + Cardinality(B)
      BY <1>0, <1>2, <2>1 DEF HelloInv, OpenSockets
    <2> QED BY <2>2 DEF A, B
  <1>3. CASE at[Parent] \in {"fork", "close"}
    <2>1. A = {at[Parent]} /\ B = {at[Parent]}
      BY <1>3
    <2> HIDE DEF A, B
    <2>2. mem.open = Cardinality(A) + Cardinality(B)
      <3>1. Cardinality(A) = 1 /\ Cardinality(B) = 1
        BY <1>0, <2>1
      <3>2. mem.open = 2
        BY <1>3 DEF HelloInv, OpenSockets
      <3> QED BY <3>1, <3>2
    <2> QED BY <2>2 DEF A, B
  <1> QED BY <1>1, <1>2, <1>3 DEF HelloInv, HelloType, ParentPlaces

\* The steps that there are while hellod runs.
LEMMA HelloNext ==
  ASSUME demo = "hellod", [Next]_vars
  PROVE  \/ \E t \in DOMAIN at : SocketStep(t) \/ Connects(t)
         \/ UNCHANGED vars
  BY DEF Next, Do, Elapse, Peers, HttpStep, ClientStep, CancelStep, PollStep, RepStep,
         GreeterStep, FirmwareStep, EchoStep, SyncStep, run_client, httpGet,
         HttpTimes, HttpPeers, HttpSignal, ClientTimes, ClientResolves, CancelPeers, Rings,
         ClientPeers, EchoPeers, ClientsPeers, CancelSignal, stop, Network, Request, Dma,
         Interrupt, Stops, Echoers, Echoes

\* The parent moves and its memory changes; the children and what they did stay.
LEMMA ParentMoves ==
  ASSUME HelloInv, NEW to \in ParentPlaces, at' = [at EXCEPT ![Parent] = to],
         DOMAIN mem' = DOMAIN mem,
         mem'.zombies = mem.zombies, mem'.sigchld = mem.sigchld,
         mem'.handling = mem.handling, mem'.greeted = mem.greeted,
         mem'.forked = mem.forked, mem'.backlog \subseteq mem.backlog,
         to \in {"fork", "close"} => mem'.fd \in Visitor,
         to \in {"start", "bind"} => mem'.open = 0,
         to \in {"listen", "accept"} => mem'.open = 1,
         to \in {"fork", "close"} => mem'.open = 2
  PROVE  HelloInv'
  <1>1. HelloType' /\ at'[Parent] = to /\ \A v \in Visitor : at'[v] = at[v]
    BY HelloTasks DEF HelloInv, HelloType
  <1> QED BY <1>1 DEF HelloInv, Noticed, OpenSockets, Children

LEMMA HelloParent ==
  ASSUME HelloInv, ~mem.handling, helloServer \/ service
  PROVE  HelloInv'
  <1>0. /\ HelloType /\ HelloTasks
        /\ at \in [{Parent} \cup Visitor -> ParentPlaces \cup VisitorPlaces]
        /\ {"addr", "open", "backlog", "fd", "forked", "zombies", "sigchld", "handling",
            "greeted", "dropped"} \subseteq DOMAIN mem
    BY HelloTasks DEF HelloInv, HelloType
  <1>1. ASSUME NEW from, NEW to \in ParentPlaces, NEW new, Goes(Parent, from, to, new),
               Others(mem, new, {"addr", "open", "backlog", "fd", "dropped"}),
               new.backlog \subseteq mem.backlog,
               to \in {"fork", "close"} => new.fd \in Visitor,
               to \in {"start", "bind"} => new.open = 0,
               to \in {"listen", "accept"} => new.open = 1,
               to \in {"fork", "close"} => new.open = 2
        PROVE  HelloInv'
    <2>1. at' = [at EXCEPT ![Parent] = to] /\ mem' = new
      BY <1>1 DEF Goes
    <2> QED BY <1>0, <1>1, <2>1, ParentMoves DEF Others
  <1>2. CASE helloServer
    <2>1. CASE getAddrInfo(Parent)
      <3>1. CASE Goes(Parent, "start", "bind", [mem EXCEPT !.addr = 1])
        BY <1>0, <1>1, <3>1 DEF Goes, Others, ParentPlaces, HelloInv, OpenSockets
      <3>2. CASE Exits(Parent)
        BY <1>0, <1>1, <3>2 DEF Exits, Others, ParentPlaces
      <3> QED BY <2>1, <3>1, <3>2 DEF getAddrInfo
    <2>2. CASE bindSocket(Parent, "listen")
      <3>1. CASE Goes(Parent, "bind", "listen", [mem EXCEPT !.open = @ + 1])
        BY <1>0, <1>1, <3>1 DEF Goes, Others, ParentPlaces, HelloInv, OpenSockets
      <3>2. CASE Goes(Parent, "bind", "bind", [mem EXCEPT !.addr = @ + 1])
        BY <1>0, <1>1, <3>2 DEF Goes, Others, ParentPlaces, HelloInv, OpenSockets
      <3>3. CASE Exits(Parent)
        BY <1>0, <1>1, <3>3 DEF Exits, Others, ParentPlaces
      <3> QED BY <2>2, <3>1, <3>2, <3>3 DEF bindSocket
    <2>3. CASE Exits(Parent)
      BY <1>0, <1>1, <2>3 DEF Exits, Others, ParentPlaces
    <2>4. CASE Goes(Parent, "listen", "accept", mem)
      BY <1>0, <1>1, <2>4 DEF Goes, Others, ParentPlaces, HelloInv, OpenSockets
    <2> QED BY <1>2, <2>1, <2>2, <2>3, <2>4 DEF helloServer
  <1>3. CASE service
    <2>1. ASSUME NEW v \in mem.backlog,
                 Goes(Parent, "accept", "fork",
                      [mem EXCEPT !.backlog = @ \ {v}, !.fd = v, !.open = @ + 1])
          PROVE  HelloInv'
      <3> DEFINE new == [mem EXCEPT !.backlog = @ \ {v}, !.fd = v, !.open = @ + 1]
      <3>1. /\ Others(mem, new, {"addr", "open", "backlog", "fd", "dropped"})
            /\ new.backlog \subseteq mem.backlog /\ new.fd \in Visitor /\ new.open = 2
        <4>1. mem.open = 1 /\ v \in Visitor
          BY <1>0, <2>1 DEF Goes, HelloInv, HelloType, OpenSockets
        <4>2. /\ DOMAIN new = DOMAIN mem
              /\ \A x \in DOMAIN mem \ {"backlog", "fd", "open"} : new[x] = mem[x]
              /\ new.backlog = mem.backlog \ {v} /\ new.fd = v /\ new.open = mem.open + 1
          BY <1>0
        <4> HIDE DEF new
        <4> QED BY <4>1, <4>2 DEF Others
      <3>2. Goes(Parent, "accept", "fork", new)
        BY <2>1
      <3> HIDE DEF new
      <3> QED BY <1>1, <3>1, <3>2 DEF ParentPlaces
    <2>2. ASSUME at[Parent] = "fork",
                 at' = [at EXCEPT ![Parent] = "close", ![mem.fd] = "child"],
                 mem' = [mem EXCEPT !.forked = @ \cup {mem.fd}]
          PROVE  HelloInv'
      <3>1. mem.fd \in Visitor /\ mem.fd # Parent
        BY <1>0, <2>2, HelloTasks DEF HelloType
      <3>2. /\ DOMAIN mem' = DOMAIN mem /\ mem'.forked = mem.forked \cup {mem.fd}
            /\ mem'.zombies = mem.zombies /\ mem'.sigchld = mem.sigchld
            /\ mem'.handling = mem.handling /\ mem'.greeted = mem.greeted
            /\ mem'.backlog = mem.backlog /\ mem'.fd = mem.fd /\ mem'.open = mem.open
        BY <1>0, <2>2
      <3>3. /\ at'[Parent] = "close"
            /\ at' \in [{Parent} \cup Visitor -> ParentPlaces \cup VisitorPlaces]
            /\ \A v \in Visitor : at'[v] = at[v] \/ v = mem.fd
        BY <1>0, <2>2, <3>1, HelloTasks DEF ParentPlaces, VisitorPlaces
      <3>4. HelloType'
        BY <1>0, <3>1, <3>2, <3>3 DEF HelloType, ParentPlaces
      <3> QED BY <2>2, <3>1, <3>2, <3>3, <3>4 DEF HelloInv, Noticed, OpenSockets, Children
    <2>3. CASE Goes(Parent, "fork", "close", [mem EXCEPT !.dropped = @ \cup {mem.fd}])
      <3> DEFINE new == [mem EXCEPT !.dropped = @ \cup {mem.fd}]
      <3>1. /\ Others(mem, new, {"addr", "open", "backlog", "fd", "dropped"})
            /\ new.backlog \subseteq mem.backlog /\ new.fd \in Visitor /\ new.open = 2
        BY <1>0, <2>3 DEF Goes, Others, HelloInv, HelloType, OpenSockets
      <3>2. Goes(Parent, "fork", "close", new)
        BY <2>3
      <3> HIDE DEF new
      <3> QED BY <1>1, <3>1, <3>2 DEF ParentPlaces
    <2>4. CASE Goes(Parent, "close", "accept", [mem EXCEPT !.fd = Nobody, !.open = @ - 1])
      <3> DEFINE new == [mem EXCEPT !.fd = Nobody, !.open = @ - 1]
      <3>1. /\ Others(mem, new, {"addr", "open", "backlog", "fd", "dropped"})
            /\ new.backlog \subseteq mem.backlog /\ new.open = 1
        <4>1. mem.open = 2
          BY <2>4 DEF Goes, HelloInv, OpenSockets
        <4>2. /\ DOMAIN new = DOMAIN mem
              /\ \A x \in DOMAIN mem \ {"fd", "open"} : new[x] = mem[x]
              /\ new.backlog = mem.backlog /\ new.open = mem.open - 1
          BY <1>0
        <4> HIDE DEF new
        <4> QED BY <4>1, <4>2 DEF Others
      <3>2. Goes(Parent, "close", "accept", new)
        BY <2>4
      <3> HIDE DEF new
      <3> QED BY <1>1, <3>1, <3>2 DEF ParentPlaces
    <2> QED BY <1>3, <2>1, <2>2, <2>3, <2>4 DEF service
  <1> QED BY <1>2, <1>3

LEMMA HelloOthers ==
  ASSUME HelloInv, NEW t \in DOMAIN at,
         sigchildHandler \/ (t \in Visitor /\ child(t)) \/ Connects(t), demo = "hellod"
  PROVE  HelloInv'
  <1>0. /\ HelloType /\ Parent \notin Visitor
        /\ at \in [{Parent} \cup Visitor -> ParentPlaces \cup VisitorPlaces]
        /\ at[Parent] \in ParentPlaces
        /\ {"addr", "open", "backlog", "fd", "forked", "zombies", "sigchld", "handling",
            "greeted", "dropped"} \subseteq DOMAIN mem
    BY HelloTasks DEF HelloInv, HelloType
  <1>1. CASE sigchildHandler
    <2>1. /\ at' = at /\ DOMAIN mem' = DOMAIN mem /\ mem'.backlog = mem.backlog
          /\ mem'.fd = mem.fd /\ mem'.open = mem.open /\ mem'.forked = mem.forked
          /\ mem'.greeted = mem.greeted /\ Noticed'
      BY <1>0, <1>1 DEF sigchildHandler, HelloInv, Noticed
    <2> QED BY <1>0, <2>1 DEF HelloInv, HelloType, OpenSockets, Children
  <1>2. ASSUME NEW v \in Visitor, NEW to \in {"waits", "exit", "done"}, NEW new,
               at' = [at EXCEPT ![v] = to], mem' = new,
               Others(mem, new, {"backlog", "greeted", "dropped", "zombies", "sigchld"}),
               new.backlog \subseteq Visitor, new.greeted \subseteq mem.forked,
               new.zombies # {} => new.sigchld \/ new.handling,
               to = "exit" => v \in mem.forked
        PROVE  HelloInv'
    <2>1. /\ at'[Parent] = at[Parent] /\ at'[v] = to
          /\ at' \in [{Parent} \cup Visitor -> ParentPlaces \cup VisitorPlaces]
          /\ \A u \in Visitor \ {v} : at'[u] = at[u]
      BY <1>0, <1>2 DEF ParentPlaces, VisitorPlaces
    <2>2. /\ mem'.fd = mem.fd /\ mem'.open = mem.open /\ mem'.forked = mem.forked
          /\ DOMAIN mem' = DOMAIN mem
      BY <1>0, <1>2 DEF Others
    <2>3. HelloType'
      BY <1>0, <1>2, <2>1, <2>2 DEF HelloType
    <2> QED BY <1>2, <2>1, <2>2, <2>3 DEF HelloInv, Noticed, OpenSockets, Children
  <1>3. CASE t \in Visitor /\ child(t)
    <2>1. at[t] \in {"child", "exit"} /\ t \in mem.forked
      BY <1>3 DEF child, Goes, HelloInv, Children
    <2>2. CASE Goes(t, "child", "exit", [mem EXCEPT !.greeted = @ \cup {t}])
      <3> DEFINE new == [mem EXCEPT !.greeted = @ \cup {t}]
      <3>1. /\ Others(mem, new, {"backlog", "greeted", "dropped", "zombies", "sigchld"})
            /\ new.backlog \subseteq Visitor /\ new.greeted \subseteq mem.forked
            /\ new.zombies # {} => new.sigchld \/ new.handling
        BY <1>0, <2>1 DEF Others, HelloInv, HelloType, Noticed, Children
      <3>2. at' = [at EXCEPT ![t] = "exit"] /\ mem' = new
        BY <2>2 DEF Goes
      <3> HIDE DEF new
      <3> QED BY <1>2, <1>3, <2>1, <3>1, <3>2
    <2>3. CASE Goes(t, "child", "exit", [mem EXCEPT !.dropped = @ \cup {t}])
      <3> DEFINE new == [mem EXCEPT !.dropped = @ \cup {t}]
      <3>1. /\ Others(mem, new, {"backlog", "greeted", "dropped", "zombies", "sigchld"})
            /\ new.backlog \subseteq Visitor /\ new.greeted \subseteq mem.forked
            /\ new.zombies # {} => new.sigchld \/ new.handling
        BY <1>0, <2>1 DEF Others, HelloInv, HelloType, Noticed, Children
      <3>2. at' = [at EXCEPT ![t] = "exit"] /\ mem' = new
        BY <2>3 DEF Goes
      <3> HIDE DEF new
      <3> QED BY <1>2, <1>3, <2>1, <3>1, <3>2
    <2>4. CASE Goes(t, "exit", "done", [mem EXCEPT !.zombies = @ \cup {t}, !.sigchld = TRUE])
      <3> DEFINE new == [mem EXCEPT !.zombies = @ \cup {t}, !.sigchld = TRUE]
      <3>1. /\ Others(mem, new, {"backlog", "greeted", "dropped", "zombies", "sigchld"})
            /\ new.backlog \subseteq Visitor /\ new.greeted \subseteq mem.forked
            /\ new.zombies # {} => new.sigchld \/ new.handling
        BY <1>0, <2>1 DEF Others, HelloInv, HelloType, Noticed, Children
      <3>2. at' = [at EXCEPT ![t] = "done"] /\ mem' = new
        BY <2>4 DEF Goes
      <3> HIDE DEF new
      <3> QED BY <1>2, <1>3, <2>1, <3>1, <3>2
    <2> QED BY <1>3, <2>2, <2>3, <2>4 DEF child
  <1>4. CASE Connects(t)
    <2>1. t \in Visitor
      BY <1>0, <1>4 DEF Connects, ParentPlaces
    <2> DEFINE new == [mem EXCEPT !.backlog = @ \cup {t}]
    <2>2. /\ Others(mem, new, {"backlog", "greeted", "dropped", "zombies", "sigchld"})
          /\ new.backlog \subseteq Visitor /\ new.greeted \subseteq mem.forked
          /\ new.zombies # {} => new.sigchld \/ new.handling
      BY <1>0, <2>1 DEF Others, HelloInv, HelloType, Noticed, Children
    <2>3. at' = [at EXCEPT ![t] = "waits"] /\ mem' = new
      BY <1>4 DEF Connects
    <2> HIDE DEF new
    <2> QED BY <1>2, <2>1, <2>2, <2>3
  <1> QED BY <1>1, <1>3, <1>4

LEMMA HelloKeeps ==
  ASSUME HelloInv, demo = "hellod", [Next]_vars
  PROVE  HelloInv'
  <1>1. ASSUME NEW t \in DOMAIN at, SocketStep(t) PROVE HelloInv'
    <2>1. demo \notin Echoers /\ demo # "showip"
      BY DEF Echoers
    <2>2. \/ ~mem.handling /\ (helloServer \/ service)
          \/ sigchildHandler
          \/ t \in Visitor /\ child(t)
      BY <1>1, <2>1 DEF SocketStep
    <2> QED BY <2>2, HelloParent, HelloOthers
  <1>2. CASE UNCHANGED vars
    BY <1>2 DEF vars, HelloInv, HelloType, Noticed, OpenSockets, Children
  <1> QED BY <1>1, <1>2, HelloOthers, HelloNext
-----------------------------------------------------------------------------
(* What holds of every step and every behaviour.                           *)

\* A program stays the program that it is.
LEMMA DemoStays == [Next]_vars => demo' = demo
  <1> SUFFICES ASSUME [Next]_vars PROVE demo' = demo
    OBVIOUS
  <1>1. CASE UNCHANGED vars
    BY <1>1 DEF vars
  <1>2. CASE HttpSignal \/ CancelSignal \/ stop \/ Network \/ Request \/ Dma \/ Interrupt
             \/ Stops
    BY <1>2 DEF HttpSignal, CancelSignal, stop, Network, Request, Dma, Interrupt, Stops, vars
  <1>3. ASSUME NEW t, Elapse(t) \/ Peers(t)
        PROVE  demo' = demo
    BY <1>3 DEF Elapse, Peers, HttpTimes, ClientTimes, ClientResolves, CancelPeers, Rings,
                HttpPeers, ClientPeers, EchoPeers, ClientsPeers, Connects, Elapses,
                Completes, Breaks, Opens, Sends, Reads, Writes
  <1>4. ASSUME NEW t, Do(t)
        PROVE  demo' = demo
    <2>1. HttpStep(t) \/ ClientStep(t) \/ CancelStep(t) => demo' = demo
      BY DEF HttpStep, do_listen, launch_new_task, do_session, handle_session,
             ReadOrShutdown, handle_signals, PollAgain, ClientStep, clientSession,
             CancelStep, do_task, cancelSignals, InOrder, Awaits, Finishes, Goes
    <2>2. PollStep(t) => demo' = demo
      BY DEF PollStep, producerThread, createProducer, poll, processPollFd, join, Goes
    <2>3. SocketStep(t) => demo' = demo
      BY DEF SocketStep, helloServer, getAddrInfo, bindSocket, service, child,
             sigchildHandler, echoerService, nonblockingService, Talker, showip, Exits, Goes
    <2>4. RepStep(t) \/ GreeterStep(t) => demo' = demo
      BY DEF RepStep, repMain, bindFirst, wait, receive, send, recreate_socket, Terminates,
             GreeterStep, greeterServer, Answer, Goes
    <2>5. FirmwareStep(t) => demo' = demo
      BY DEF FirmwareStep, init, pollRxStream, encode, readString, Goes
    <2>6. EchoStep(t) => demo' = demo
      BY DEF EchoStep, start, listener, run_server, echoOnce, handle_client, Spawns,
             Awaits, Finishes, Goes
    <2>7. SyncStep(t) => demo' = demo
      BY DEF SyncStep, syncServer, syncClient, timers, run_client, httpGet, InOrder,
             Awaits, Finishes, Goes
    <2> QED BY <1>4, <2>1, <2>2, <2>3, <2>4, <2>5, <2>6, <2>7 DEF Do
  <1> QED BY <1>1, <1>2, <1>3, <1>4 DEF Next

LEMMA ProgramStarts ==
  ASSUME Init
  PROVE  /\ demo = "http" => HttpInit
         /\ demo = "hellod" => HelloInit
         /\ demo = "syncEcho" => SyncInit
         /\ demo = "rep" => RepInit
         /\ demo = "firmware" => FirmwareInit
         /\ demo = "poll" => PollInit
         /\ demo \in Echoes => EchoInit
  BY DEF Init, HttpInit, ClientInit, CancelInit, PollInit, HelloInit, UdpInit, ShowInit,
         RepInit, GreeterInit, FirmwareInit, NanopbInit, EchoInit, ClientsInit, SyncInit,
         TimersInit, Calls, Echoes, Echoers

\* SIGINT is a request to finish.  While handle_signals of server_cpp20.cpp
\* still polls, no operation of a session has been aborted; and when it has
\* given up, nothing that is left has not been told to terminate.
THEOREM HttpGraceful == Spec => []Graceful
  <1> DEFINE Inv == demo = "http" => HttpInv
  <1>1. Init => Inv
    BY ProgramStarts, HttpStarts
  <1>2. Inv /\ [Next]_vars => Inv'
    BY DemoStays, HttpKeeps
  <1>3. Inv => Graceful
    BY DEF Graceful, HttpInv, SessionsGoOn, AllTold
  <1> QED BY <1>1, <1>2, <1>3, PTL DEF Spec

\* hellod.cpp forgets no child that has ended, whatever signals are merged,
\* keeps no socket but its own and the one just accepted, and greets nobody
\* whom it has not given a child of his own.
THEOREM HelloReaped == Spec => []Reaped
  <1> DEFINE Inv == demo = "hellod" => HelloInv
  <1>1. Init => Inv
    BY ProgramStarts, HelloStarts
  <1>2. Inv /\ [Next]_vars => Inv'
    BY DemoStays, HelloKeeps
  <1>3. Inv => Reaped
    BY ReapedInv DEF Reaped
  <1> QED BY <1>1, <1>2, <1>3, PTL DEF Spec

-----------------------------------------------------------------------------
(* The firmware.                                                           *)

FirmwareFields == {"ring", "tail", "dmaHead", "dmaTail", "arrived", "copied", "tx", "echo",
                   "dmar", "RxState", "dmaState", "seen", "whole", "inStep", "base", "shift"}

FirmwareType ==
  /\ at \in [{Loop} -> {"start", "hung", "delay", "copy", "transmit"}]
  /\ FirmwareFields \subseteq DOMAIN mem
  /\ mem.ring \in [0 .. RxBufferSize - 1 -> Nat]
  /\ {mem.tail, mem.dmaHead, mem.dmaTail} \subseteq 0 .. RxBufferSize - 1
  /\ mem.arrived \in Nat /\ mem.copied \in Nat /\ mem.seen \in 0 .. mem.arrived
  /\ mem.tx \in Seq(Nat) /\ mem.echo \in Seq(Nat)
  /\ mem.base \in Nat /\ mem.shift \in Int
  /\ at[Loop] \in {"start", "hung"} => ~mem.dmar
  /\ at[Loop] = "transmit" => mem.copied = mem.seen

\* The n bytes after the d-th lie in a row, in the order of their arrival, from
\* slot p up to where the DMA is.
InRow(ring, tail, p, n, d) ==
  /\ n \in 0 .. RxBufferSize - 1
  /\ tail = Slot(p, n, RxBufferSize)
  /\ \A j \in 0 .. RxBufferSize - 1 :
       j < n => ring[Slot(p, j, RxBufferSize)] = d + j + 1

\* So do those that have come since a poll looked that began after the last
\* error, whatever there was before it.
SinceLook ==
  mem.whole /\ at[Loop] \in {"copy", "transmit"} /\ mem.arrived - mem.seen < RxBufferSize
    => InRow(mem.ring, mem.tail, mem.dmaTail, mem.arrived - mem.seen, mem.seen)

\* And those that the loop has not copied, as long as it is in step.
Unread == IF at[Loop] = "transmit" THEN mem.dmaTail ELSE mem.dmaHead
Waiting == mem.arrived - mem.copied
RingHolds ==
  /\ InRow(mem.ring, mem.tail, Unread, Waiting, mem.copied)
  /\ at[Loop] = "copy" =>
       \E k \in 0 .. Waiting : /\ mem.dmaTail = Slot(mem.dmaHead, k, RxBufferSize)
                               /\ mem.seen = mem.copied + k
  /\ at[Loop] # "copy" => mem.seen = mem.copied

\* What is about to be sent follows what has been.
SendsNext ==
  /\ \A i \in mem.base + 1 .. Len(mem.echo) : mem.echo[i] = i + mem.shift
  /\ at[Loop] = "transmit" =>
       /\ mem.copied = Len(mem.echo) + Len(mem.tx) + mem.shift
       /\ \A i \in 1 .. Len(mem.tx) : mem.tx[i] = Len(mem.echo) + i + mem.shift
  /\ at[Loop] # "transmit" => mem.copied = Len(mem.echo) + mem.shift

Untouched ==
  at[Loop] = "start" => mem.arrived = 0 /\ mem.dmaHead = 0 /\ mem.copied = 0

FirmwareInv ==
  FirmwareType /\ SinceLook /\ (mem.inStep => RingHolds /\ SendsNext /\ Untouched)

\* One byte more, and the first k taken away.
LEMMA RowGrows ==
  ASSUME NEW ring, NEW ring2, NEW tail, NEW tail2, NEW p \in 0 .. RxBufferSize - 1,
         NEW n \in Nat, NEW d \in Nat, InRow(ring, tail, p, n, d), n + 1 < RxBufferSize,
         ring2[tail] = d + n + 1, tail2 = Inc(tail, RxBufferSize),
         \A a \in 0 .. RxBufferSize - 1 : a # tail => ring2[a] = ring[a]
  PROVE  InRow(ring2, tail2, p, n + 1, d)
  <1> DEFINE R == RxBufferSize
  <1>0. /\ R \in Nat /\ R # 0 /\ n \in 0 .. R - 1 /\ n + 1 \in 0 .. R - 1
        /\ tail = Slot(p, n, R) /\ tail2 = Slot(p, n + 1, R)
    <2>1. R \in Nat /\ R # 0
      BY FirmwareAssumption
    <2>2. n \in 0 .. R - 1 /\ n + 1 \in 0 .. R - 1 /\ tail = Slot(p, n, R)
      BY <2>1 DEF InRow
    <2> QED BY <2>1, <2>2, SlotStep
  <1>1. ASSUME NEW j \in 0 .. R - 1, j < n + 1
        PROVE  ring2[Slot(p, j, R)] = d + j + 1
    <2>1. CASE j = n
      BY <1>0, <2>1
    <2>2. CASE j < n
      <3>1. Slot(p, j, R) # tail
        BY <1>0, <2>2, SlotsDistinct
      <3>2. Slot(p, j, R) \in 0 .. R - 1
        <4>1. j \in 0 .. R
          BY <1>0
        <4> QED BY <1>0, <4>1, SlotRange
      <3>3. ring[Slot(p, j, R)] = d + j + 1
        BY <2>2 DEF InRow
      <3> QED BY <3>1, <3>2, <3>3
    <2> QED BY <1>0, <1>1, <2>1, <2>2
  <1> QED BY <1>0, <1>1 DEF InRow

LEMMA RowShrinks ==
  ASSUME NEW ring, NEW tail, NEW p \in 0 .. RxBufferSize - 1, NEW n \in Nat, NEW d \in Nat,
         InRow(ring, tail, p, n, d), NEW k \in 0 .. n
  PROVE  InRow(ring, tail, Slot(p, k, RxBufferSize), n - k, d + k)
  <1> DEFINE R == RxBufferSize
             q == Slot(p, k, R)
  <1>0. /\ R \in Nat /\ R # 0 /\ n \in 0 .. R - 1 /\ k \in 0 .. R - 1 /\ n - k \in 0 .. R - 1
        /\ tail = Slot(p, n, R)
    <2>1. R \in Nat /\ R # 0
      BY FirmwareAssumption
    <2>2. n \in 0 .. R - 1 /\ tail = Slot(p, n, R)
      BY DEF InRow
    <2> QED BY <2>1, <2>2
  <1>1. \A j \in 0 .. R - 1 : k + j < R => Slot(q, j, R) = Slot(p, k + j, R)
    BY <1>0, SlotSlot
  <1>2. tail = Slot(q, n - k, R)
    <2>1. n - k \in 0 .. R - 1 /\ k + (n - k) = n /\ n < R
      BY <1>0
    <2> QED BY <1>0, <1>1, <2>1
  <1>3. ASSUME NEW j \in 0 .. R - 1, j < n - k
        PROVE  ring[Slot(q, j, R)] = (d + k) + j + 1
    <2>1. k + j \in 0 .. R - 1 /\ k + j < n /\ k + j < R
      BY <1>0, <1>3
    <2>2. ring[Slot(p, k + j, R)] = d + (k + j) + 1
      BY <2>1 DEF InRow
    <2>3. ring[Slot(q, j, R)] = d + (k + j) + 1
      BY <1>1, <2>1, <2>2
    <2> QED BY <1>0, <2>3
  <1> QED BY <1>0, <1>2, <1>3 DEF InRow

LEMMA RowEmpty ==
  ASSUME NEW ring, NEW tail \in 0 .. RxBufferSize - 1, NEW d
  PROVE  InRow(ring, tail, tail, 0, d)
  <1>1. RxBufferSize \in Nat /\ RxBufferSize # 0 /\ 0 \in 0 .. RxBufferSize
    BY FirmwareAssumption
  <1>2. Slot(tail, 0, RxBufferSize) = tail
    BY <1>1, SlotRange
  <1> QED BY <1>1, <1>2 DEF InRow

LEMMA FirmwareStarts == FirmwareInit => FirmwareInv
  <1> SUFFICES ASSUME FirmwareInit PROVE FirmwareInv
    OBVIOUS
  <1>1. at = [t \in {Loop} |-> "start"]
    BY DEF FirmwareInit, Calls
  <1>2. /\ FirmwareType /\ mem.arrived = 0 /\ mem.copied = 0 /\ mem.echo = <<>>
        /\ mem.dmaHead = 0 /\ mem.tail = 0 /\ mem.seen = 0 /\ mem.shift = 0 /\ mem.base = 0
    <2>1. /\ FirmwareFields \subseteq DOMAIN mem
          /\ mem.ring = [i \in 0 .. RxBufferSize - 1 |-> 0]
      BY DEF FirmwareInit, Calls, Joined, Std, FirmwareFields
    <2>2. /\ mem.tail = 0 /\ mem.dmaHead = 0 /\ mem.dmaTail = 0 /\ mem.arrived = 0
          /\ mem.copied = 0 /\ mem.tx = <<>> /\ mem.echo = <<>> /\ mem.dmar = FALSE
          /\ mem.seen = 0 /\ mem.base = 0 /\ mem.shift = 0
      BY DEF FirmwareInit, Calls, Joined, Std
    <2> QED BY <1>1, <2>1, <2>2, FirmwareAssumption DEF FirmwareType
  <1>3. RxBufferSize \in Nat /\ RxBufferSize # 0 /\ 0 \in 0 .. RxBufferSize - 1
    BY FirmwareAssumption
  <1>4. RingHolds
    <2>1. Waiting = 0 /\ Unread = 0 /\ InRow(mem.ring, 0, 0, 0, 0)
      BY <1>1, <1>2, <1>3, RowEmpty DEF Waiting, Unread
    <2> QED BY <1>1, <1>2, <2>1 DEF RingHolds
  <1>5. SendsNext
    <2>1. Len(mem.echo) = 0 /\ \A i \in mem.base + 1 .. 0 : FALSE
      BY <1>2
    <2> QED BY <1>1, <1>2, <2>1 DEF SendsNext
  <1>6. SinceLook /\ Untouched
    BY <1>1, <1>2 DEF SinceLook, Untouched
  <1> QED BY <1>2, <1>4, <1>5, <1>6 DEF FirmwareInv

LEMMA FirmwareNext ==
  ASSUME demo = "firmware", [Next]_vars
  PROVE  init \/ pollRxStream \/ Dma \/ Interrupt \/ UNCHANGED vars
  BY DEF Next, Do, Elapse, Peers, HttpStep, ClientStep, CancelStep, PollStep, SocketStep,
         RepStep, GreeterStep, FirmwareStep, EchoStep, SyncStep, run_client, httpGet,
         HttpTimes, HttpPeers, HttpSignal, ClientTimes, ClientResolves, CancelPeers, Rings,
         ClientPeers, EchoPeers, ClientsPeers, Connects, CancelSignal, stop, Network,
         Request, Stops, Echoers, Echoes

LEMMA FirmwareDma ==
  ASSUME FirmwareInv, Dma
  PROVE  FirmwareInv'
  <1> DEFINE R == RxBufferSize
             n == mem.arrived + 1
             new == [mem EXCEPT !.ring[mem.tail] = n, !.arrived = n,
                                !.tail = (@ + 1) % RxBufferSize,
                                !.inStep = @ /\ n - mem.copied < RxBufferSize]
  <1>t. FirmwareType
    BY DEF FirmwareInv
  <1>0. FirmwareType /\ R \in Nat /\ R # 0 /\ n \in Nat /\ mem.tail \in 0 .. R - 1
        /\ mem.arrived \in Nat /\ mem.copied \in Nat /\ mem.seen \in Nat
        /\ mem.seen <= mem.arrived
    <2>1. R \in Nat /\ R # 0
      BY FirmwareAssumption
    <2>2. /\ mem.tail \in 0 .. R - 1 /\ mem.arrived \in Nat /\ mem.copied \in Nat
          /\ mem.seen \in 0 .. mem.arrived
      BY <1>t DEF FirmwareType
    <2> QED BY <1>t, <2>1, <2>2
  <1>1. mem' = new /\ at' = at /\ mem.dmar
    BY DEF Dma
  <1>2. /\ DOMAIN new = DOMAIN mem
        /\ new.ring = [mem.ring EXCEPT ![mem.tail] = n] /\ new.arrived = n
        /\ new.tail = Inc(mem.tail, R)
        /\ new.inStep = (mem.inStep /\ n - mem.copied < R)
        /\ \A x \in DOMAIN mem \ {"ring", "arrived", "tail", "inStep"} : new[x] = mem[x]
    BY <1>0 DEF FirmwareType, FirmwareFields, Inc
  <1> HIDE DEF new
  <1>3. /\ mem'.dmaHead = mem.dmaHead /\ mem'.dmaTail = mem.dmaTail /\ mem'.seen = mem.seen
        /\ mem'.copied = mem.copied /\ mem'.tx = mem.tx /\ mem'.echo = mem.echo
        /\ mem'.dmar = mem.dmar /\ mem'.whole = mem.whole /\ mem'.base = mem.base
        /\ mem'.shift = mem.shift /\ DOMAIN mem' = DOMAIN mem
    BY <1>0, <1>1, <1>2 DEF FirmwareType, FirmwareFields
  <1>d. at' = at /\ mem.dmar
    BY <1>1
  <1>a. mem'.arrived = mem.arrived + 1 /\ mem'.copied = mem.copied
    BY <1>1, <1>2, <1>3
  <1>r. mem'.ring = [mem.ring EXCEPT ![mem.tail] = n] /\ mem.ring \in [0 .. R - 1 -> Nat]
    BY <1>t, <1>1, <1>2 DEF FirmwareType
  <1>4. /\ mem'.arrived = n /\ mem'.tail = Inc(mem.tail, R) /\ mem'.ring[mem.tail] = n
        /\ \A a \in 0 .. R - 1 : a # mem.tail => mem'.ring[a] = mem.ring[a]
    <2>1. mem'.arrived = n /\ mem'.tail = Inc(mem.tail, R)
      BY <1>1, <1>2
    <2>2. /\ mem'.ring[mem.tail] = n
          /\ \A a \in 0 .. R - 1 : a # mem.tail => mem'.ring[a] = mem.ring[a]
      BY <1>0, <1>r
    <2> QED BY <2>1, <2>2
  <1>5. FirmwareType'
    <2>1. mem'.tail \in 0 .. R - 1
      BY <1>0, <1>4, IncRange
    <2>2. mem'.ring \in [0 .. R - 1 -> Nat]
      BY <1>0, <1>r
    <2>3. mem'.arrived \in Nat /\ mem'.seen \in 0 .. mem'.arrived
      BY <1>0, <1>3, <1>4
    <2> QED BY <1>t, <1>d, <1>3, <2>1, <2>2, <2>3 DEF FirmwareType
  \* A row of which the new byte is the next goes on.
  <1>6. ASSUME NEW p \in 0 .. R - 1, NEW d \in Nat, d <= mem.arrived, n - d < R,
               InRow(mem.ring, mem.tail, p, mem.arrived - d, d)
        PROVE  InRow(mem'.ring, mem'.tail, p, mem'.arrived - d, d)
    <2> DEFINE m == mem.arrived - d
    <2>1. m \in Nat /\ m + 1 < R /\ n = d + m + 1 /\ n - d = m + 1
      BY <1>0, <1>6
    <2> HIDE DEF n
    <2>2. InRow(mem'.ring, mem'.tail, p, m + 1, d)
      <3> HIDE DEF m
      <3>1. InRow(mem.ring, mem.tail, p, m, d)
        BY <1>6 DEF m
      <3> QED BY <1>4, <2>1, <3>1, RowGrows
    <2> QED BY <1>4, <2>1, <2>2
  <1>7. SinceLook'
    <2> SUFFICES ASSUME mem'.whole, at'[Loop] \in {"copy", "transmit"},
                        mem'.arrived - mem'.seen < R
                 PROVE  InRow(mem'.ring, mem'.tail, mem'.dmaTail, mem'.arrived - mem'.seen,
                              mem'.seen)
      BY DEF SinceLook
    <2>1. /\ mem.seen \in Nat /\ mem.seen <= mem.arrived /\ n - mem.seen < R
          /\ mem.arrived - mem.seen < R
      BY <1>0, <1>3, <1>4
    <2>t. mem.dmaTail \in 0 .. R - 1
      BY <1>t DEF FirmwareType
    <2>2. InRow(mem.ring, mem.tail, mem.dmaTail, mem.arrived - mem.seen, mem.seen)
      BY <1>d, <1>3, <2>1 DEF FirmwareInv, SinceLook
    <2> QED BY <1>3, <1>6, <2>1, <2>t, <2>2
  <1> SUFFICES ASSUME mem'.inStep PROVE (RingHolds /\ SendsNext /\ Untouched)'
    BY <1>5, <1>7 DEF FirmwareInv
  <1>8. /\ RingHolds /\ SendsNext /\ n - mem.copied < R /\ mem.copied \in Nat
        /\ at[Loop] \in {"delay", "copy", "transmit"} /\ mem.arrived \in Nat
    BY <1>0, <1>1, <1>2, <1>3 DEF FirmwareInv, FirmwareType
  <1>9. /\ Unread' = Unread /\ Unread \in 0 .. R - 1 /\ Waiting' = Waiting + 1
        /\ Waiting \in Nat /\ mem.copied <= mem.arrived
    <2>1. Unread' = Unread /\ Unread \in 0 .. R - 1
      BY <1>0, <1>1, <1>3 DEF Unread, FirmwareType
    <2>2. Waiting \in 0 .. R - 1 /\ Waiting = mem.arrived - mem.copied
      <3>1. InRow(mem.ring, mem.tail, Unread, Waiting, mem.copied)
        BY <1>8 DEF RingHolds
      <3>2. Waiting \in 0 .. R - 1
        BY <3>1 DEF InRow
      <3> QED BY <3>2 DEF Waiting
    <2>3. Waiting' = (mem.arrived + 1) - mem.copied
      BY <1>a DEF Waiting
    <2>4. R - 1 \in Int
      BY <1>0
    <2> HIDE DEF R
    <2>5. Waiting \in Nat /\ Waiting' = Waiting + 1 /\ mem.copied <= mem.arrived
      BY <1>0, <2>2, <2>3, <2>4
    <2> QED BY <2>1, <2>5
  <1>10. InRow(mem'.ring, mem'.tail, Unread, mem'.arrived - mem.copied, mem.copied)
    BY <1>6, <1>8, <1>9 DEF RingHolds, Waiting
  <1>11. RingHolds'
    <2>1. InRow(mem'.ring, mem'.tail, Unread', Waiting', mem'.copied)
      BY <1>3, <1>9, <1>10 DEF Waiting
    <2>2. at'[Loop] = "copy" =>
             \E k \in 0 .. Waiting' : /\ mem'.dmaTail = Slot(mem'.dmaHead, k, R)
                                      /\ mem'.seen = mem'.copied + k
      <3>1. SUFFICES ASSUME at[Loop] = "copy"
                     PROVE  \E k \in 0 .. Waiting + 1 : /\ mem.dmaTail = Slot(mem.dmaHead, k, R)
                                                        /\ mem.seen = mem.copied + k
        BY <1>1, <1>3, <1>9
      <3>2. PICK k \in 0 .. Waiting : /\ mem.dmaTail = Slot(mem.dmaHead, k, R)
                                      /\ mem.seen = mem.copied + k
        BY <1>8, <3>1 DEF RingHolds
      <3> QED BY <1>9, <3>2
    <2>3. at'[Loop] # "copy" => mem'.seen = mem'.copied
      BY <1>d, <1>3, <1>8 DEF RingHolds
    <2> QED BY <2>1, <2>2, <2>3 DEF RingHolds
  <1>12. SendsNext'
    BY <1>d, <1>3, <1>8 DEF SendsNext
  <1>13. Untouched'
    BY <1>d, <1>8 DEF Untouched
  <1> QED BY <1>11, <1>12, <1>13

\* What an error of the UART leaves of the memory.
LEMMA ErrorEffect ==
  ASSUME NEW memory,
         {"tail", "tx", "dmar", "RxState", "dmaState", "whole", "inStep"} \subseteq DOMAIN memory
  PROVE  LET new == HAL_UART_ErrorCallback(memory) IN
         /\ new.whole = FALSE /\ new.inStep = FALSE /\ new.tail \in {memory.tail, 0}
         /\ new.tx = [i \in 1 .. Len(memory.tx) |-> 0]
         /\ Others(memory, new,
                   {"tail", "tx", "dmar", "RxState", "dmaState", "whole", "inStep"})
  <1> DEFINE told == [memory EXCEPT !.tx = [i \in 1 .. Len(@) |-> 0],
                                    !.whole = FALSE, !.inStep = FALSE]
  <1>1. /\ told.whole = FALSE /\ told.inStep = FALSE /\ told.tail = memory.tail
        /\ told.tx = [i \in 1 .. Len(memory.tx) |-> 0]
        /\ DOMAIN told = DOMAIN memory
        /\ \A x \in DOMAIN memory \ {"tx", "whole", "inStep"} : told[x] = memory[x]
    OBVIOUS
  <1>2. HAL_UART_ErrorCallback(memory) = startRxStream(told)
    BY DEF HAL_UART_ErrorCallback
  <1> HIDE DEF told
  <1>3. /\ startRxStream(told).whole = told.whole /\ startRxStream(told).inStep = told.inStep
        /\ startRxStream(told).tx = told.tx
        /\ startRxStream(told).tail \in {told.tail, 0}
        /\ Others(told, startRxStream(told), {"tail", "dmar", "RxState", "dmaState"})
    BY <1>1 DEF startRxStream, Others
  <1> QED BY <1>1, <1>2, <1>3 DEF Others

LEMMA FirmwareInterrupt ==
  ASSUME FirmwareInv, Interrupt
  PROVE  FirmwareInv'
  <1>0. FirmwareType /\ 0 \in 0 .. RxBufferSize - 1
    BY FirmwareAssumption DEF FirmwareInv
  <1>a. ASSUME NEW old, mem' = HAL_UART_ErrorCallback(old),
               Others(mem, old, {"dmar", "RxState", "dmaState"})
        PROVE  FirmwareInv'
    <2>1. FirmwareFields \subseteq DOMAIN mem
      BY <1>0 DEF FirmwareType
    <2>2. /\ mem'.whole = FALSE /\ mem'.inStep = FALSE /\ mem'.tail \in {mem.tail, 0}
          /\ mem'.tx = [i \in 1 .. Len(mem.tx) |-> 0]
          /\ Others(mem, mem',
                    {"tail", "tx", "dmar", "RxState", "dmaState", "whole", "inStep"})
      <3>1. /\ old.tail = mem.tail /\ old.tx = mem.tx /\ DOMAIN old = DOMAIN mem
            /\ {"tail", "tx", "dmar", "RxState", "dmaState", "whole", "inStep"}
                 \subseteq DOMAIN old
        BY <1>a, <2>1 DEF Others, FirmwareFields
      <3>2. /\ mem'.whole = FALSE /\ mem'.inStep = FALSE /\ mem'.tail \in {old.tail, 0}
            /\ mem'.tx = [i \in 1 .. Len(old.tx) |-> 0]
            /\ Others(old, mem',
                      {"tail", "tx", "dmar", "RxState", "dmaState", "whole", "inStep"})
        BY <1>a, <3>1, ErrorEffect
      <3> QED BY <1>a, <3>1, <3>2 DEF Others
    <2>3. mem'.tx \in Seq(Nat)
      BY <1>0, <2>2 DEF FirmwareType
    <2>4. at' = at /\ at[Loop] \notin {"start", "hung"}
      BY DEF Interrupt
    <2>5. FirmwareType'
      <3>1. /\ mem'.ring = mem.ring /\ mem'.dmaHead = mem.dmaHead /\ mem'.dmaTail = mem.dmaTail
            /\ mem'.arrived = mem.arrived /\ mem'.copied = mem.copied /\ mem'.seen = mem.seen
            /\ mem'.echo = mem.echo /\ mem'.base = mem.base /\ mem'.shift = mem.shift
            /\ DOMAIN mem' = DOMAIN mem
        BY <2>1, <2>2 DEF Others, FirmwareFields
      <3>2. mem'.tail \in 0 .. RxBufferSize - 1
        BY <1>0, <2>2 DEF FirmwareType
      <3> QED BY <1>0, <2>3, <2>4, <3>1, <3>2 DEF FirmwareType
    <2>6. SinceLook'
      BY <2>2 DEF SinceLook
    <2> QED BY <2>2, <2>5, <2>6 DEF FirmwareInv
  <1>1. ASSUME NEW state, mem' = dmaErrorHandler(state)
        PROVE  FirmwareInv'
    <2> DEFINE old == [mem EXCEPT !.RxState = "READY", !.dmaState = state, !.dmar = FALSE]
    <2>1. Others(mem, old, {"dmar", "RxState", "dmaState"})
      BY DEF Others
    <2>2. mem' = HAL_UART_ErrorCallback(old)
      BY <1>1 DEF dmaErrorHandler
    <2> QED BY <1>a, <2>1, <2>2
  <1>2. CASE mem' = Uart
    <2> DEFINE old == [mem EXCEPT !.RxState = "READY", !.dmaState = "READY", !.dmar = FALSE]
    <2>1. Others(mem, old, {"dmar", "RxState", "dmaState"})
      BY DEF Others
    <2>2. mem' = HAL_UART_ErrorCallback(old)
      BY <1>2 DEF Uart
    <2> QED BY <1>a, <2>1, <2>2
  <1> QED BY <1>1, <1>2 DEF Interrupt

LEMMA FirmwareLoop ==
  ASSUME FirmwareInv, init
  PROVE  FirmwareInv'
  <1>0. FirmwareType /\ 0 \in 0 .. RxBufferSize - 1 /\ 0 \in 0 .. RxBufferSize
        /\ RxBufferSize \in Nat /\ RxBufferSize # 0
    BY FirmwareAssumption DEF FirmwareInv
  <1>1. CASE Goes(Loop, "start", "hung", mem)
    <2>1. /\ at[Loop] = "start" /\ at' = [at EXCEPT ![Loop] = "hung"] /\ mem' = mem
      BY <1>1 DEF Goes
    <2>2. FirmwareType' /\ at'[Loop] = "hung"
      BY <1>0, <2>1 DEF FirmwareType
    <2>3. Unread' = Unread /\ Waiting' = Waiting
      BY <2>1, <2>2 DEF Unread, Waiting
    <2> QED BY <2>1, <2>2, <2>3 DEF FirmwareInv, SinceLook, RingHolds, SendsNext, Untouched
  <1>2. CASE Goes(Loop, "start", "delay", startRxStream(mem))
    <2>1. /\ at[Loop] = "start" /\ at' = [at EXCEPT ![Loop] = "delay"]
          /\ mem' = startRxStream(mem)
      BY <1>2 DEF Goes
    <2>2. /\ Others(mem, mem', {"RxState", "dmaState", "dmar", "tail"})
          /\ mem'.tail \in {mem.tail, 0}
      BY <1>0, <2>1 DEF startRxStream, FirmwareType, FirmwareFields, Others
    <2>3. /\ mem'.dmaHead = mem.dmaHead /\ mem'.dmaTail = mem.dmaTail
          /\ mem'.inStep = mem.inStep /\ mem'.whole = mem.whole /\ mem'.seen = mem.seen
          /\ mem'.arrived = mem.arrived /\ mem'.copied = mem.copied
          /\ mem'.tx = mem.tx /\ mem'.echo = mem.echo /\ mem'.ring = mem.ring
          /\ mem'.base = mem.base /\ mem'.shift = mem.shift /\ DOMAIN mem' = DOMAIN mem
      BY <1>0, <2>2 DEF FirmwareType, FirmwareFields, Others
    <2>4. FirmwareType' /\ at'[Loop] = "delay"
      <3>1. /\ at' \in [{Loop} -> {"start", "hung", "delay", "copy", "transmit"}]
            /\ at'[Loop] = "delay"
        BY <1>0, <2>1 DEF FirmwareType
      <3>2. mem'.tail \in 0 .. RxBufferSize - 1
        BY <1>0, <2>2 DEF FirmwareType
      <3> QED BY <1>0, <2>3, <3>1, <3>2 DEF FirmwareType
    <2>5. SinceLook'
      BY <2>4 DEF SinceLook
    <2> SUFFICES ASSUME mem.inStep PROVE (RingHolds /\ SendsNext /\ Untouched)'
      BY <2>3, <2>4, <2>5 DEF FirmwareInv
    <2>6. RingHolds /\ SendsNext /\ mem.arrived = 0 /\ mem.copied = 0 /\ mem.dmaHead = 0
      BY <2>1 DEF FirmwareInv, Untouched
    <2>7. Waiting = 0 /\ Waiting' = 0 /\ Unread = 0 /\ Unread' = 0 /\ mem.tail = 0
      <3>1. Waiting = 0 /\ Waiting' = 0 /\ Unread = 0 /\ Unread' = 0
        BY <2>1, <2>3, <2>4, <2>6 DEF Waiting, Unread
      <3>2. mem.tail = Slot(0, 0, RxBufferSize)
        BY <2>6, <3>1 DEF RingHolds, InRow
      <3> QED BY <1>0, <3>1, <3>2, SlotRange
    <2>8. mem'.tail = 0 /\ InRow(mem'.ring, 0, 0, 0, 0)
      BY <1>0, <2>2, <2>7, RowEmpty
    <2>9. RingHolds'
      <3>1. InRow(mem'.ring, mem'.tail, Unread', Waiting', mem'.copied)
        BY <2>3, <2>6, <2>7, <2>8
      <3>2. mem'.seen = mem'.copied
        BY <2>1, <2>3, <2>6 DEF RingHolds
      <3>3. at'[Loop] # "copy"
        BY <2>4
      <3> QED BY <3>1, <3>2, <3>3 DEF RingHolds
    <2>10. SendsNext'
      <3>1. SendsNext /\ at[Loop] = "start" /\ at'[Loop] = "delay"
        BY <2>1, <2>4, <2>6
      <3>2. /\ mem'.copied = mem.copied /\ mem'.tx = mem.tx /\ mem'.echo = mem.echo
            /\ mem'.base = mem.base /\ mem'.shift = mem.shift
        BY <2>3
      <3> QED BY <3>1, <3>2 DEF SendsNext
    <2>11. Untouched'
      BY <2>4 DEF Untouched
    <2> QED BY <2>9, <2>10, <2>11
  <1> QED BY <1>1, <1>2 DEF init

\* A poll that ends leaves the memory alone, or finds its step again.
LEMMA RegainedEffect ==
  ASSUME NEW memory, {"inStep", "base", "shift"} \subseteq DOMAIN memory
  PROVE  LET new == Regained(memory) IN
         \/ new = memory
         \/ /\ memory.whole /\ ~(memory.arrived - memory.seen >= RxBufferSize)
            /\ new.inStep = TRUE /\ new.base = Len(memory.echo)
            /\ new.shift = memory.seen - Len(memory.echo)
            /\ Others(memory, new, {"inStep", "base", "shift"})
  BY DEF Regained, Others

\* What the loop takes is a sequence of bytes; in step, those that have arrived
\* since, in their order.
LEMMA FreshBytes ==
  ASSUME FirmwareType
  PROVE  /\ Fresh \in Seq(Nat)
         /\ \A k, n \in Nat :
              /\ k <= n /\ InRow(mem.ring, mem.tail, mem.dmaHead, n, mem.copied)
              /\ mem.dmaTail = Slot(mem.dmaHead, k, RxBufferSize)
              => Len(Fresh) = k /\ \A i \in 1 .. k : Fresh[i] = mem.copied + i
  <1> DEFINE R == RxBufferSize
             p == mem.dmaHead
             size == (mem.dmaTail - p) % R
  <1>0. R \in Nat /\ R # 0 /\ p \in 0 .. R - 1 /\ mem.dmaTail \in 0 .. R - 1 /\ size \in Nat
    <2>1. R \in Nat /\ R # 0
      BY FirmwareAssumption
    <2>2. p \in 0 .. R - 1 /\ mem.dmaTail \in 0 .. R - 1
      BY DEF FirmwareType
    <2> QED BY <2>1, <2>2
  <1>1. Fresh = [i \in 1 .. size |-> mem.ring[(p + i - 1) % R]]
    BY DEF Fresh
  <1> HIDE DEF size
  <1>2. Fresh \in Seq(Nat) /\ Len(Fresh) = size
    <2>1. ASSUME NEW i \in 1 .. size
          PROVE  mem.ring[(p + i - 1) % R] \in Nat
      <3>1. (p + i - 1) % R \in 0 .. R - 1
        BY <1>0
      <3> QED BY <3>1 DEF FirmwareType
    <2> QED BY <1>0, <1>1, <2>1
  <1>3. ASSUME NEW k \in Nat, NEW n \in Nat, k <= n,
               InRow(mem.ring, mem.tail, p, n, mem.copied), mem.dmaTail = Slot(p, k, R)
        PROVE  Len(Fresh) = k /\ \A i \in 1 .. k : Fresh[i] = mem.copied + i
    <2>1. n \in 0 .. R - 1 /\ k \in 0 .. R - 1 /\ mem.copied \in Nat
      <3>1. n \in 0 .. R - 1
        BY <1>3 DEF InRow
      <3> QED BY <1>0, <1>3, <3>1 DEF FirmwareType
    <2>2. size = k
      BY <1>0, <1>3, <2>1, SlotBack DEF size
    <2>3. ASSUME NEW i \in 1 .. k
          PROVE  Fresh[i] = mem.copied + i
      <3>1. /\ i - 1 \in 0 .. R - 1 /\ i - 1 < n /\ (i - 1) + 1 = i
            /\ p + i - 1 = p + (i - 1) /\ mem.copied + (i - 1) + 1 = mem.copied + i
        BY <1>0, <1>3, <2>1
      <3>2. mem.ring[Slot(p, i - 1, R)] = mem.copied + (i - 1) + 1
        BY <1>3, <3>1 DEF InRow
      <3>3. Fresh[i] = mem.ring[(p + (i - 1)) % R]
        BY <1>1, <2>2, <3>1
      <3> QED BY <3>1, <3>2, <3>3 DEF Slot
    <2> QED BY <1>2, <2>2, <2>3
  <1> QED BY <1>2, <1>3

LEMMA FirmwareLooks ==
  ASSUME FirmwareInv, Goes(Loop, "delay", "copy", Looks)
  PROVE  FirmwareInv'
  <1> DEFINE R == RxBufferSize
  <1>0. /\ FirmwareType /\ FirmwareFields \subseteq DOMAIN mem
        /\ mem.tail \in 0 .. R - 1 /\ mem.arrived \in Nat
    BY DEF FirmwareInv, FirmwareType
  <1>1. at[Loop] = "delay" /\ at' = [at EXCEPT ![Loop] = "copy"] /\ mem' = Looks
    BY DEF Goes
  <1>2. /\ mem'.dmaTail = mem.tail /\ mem'.seen = mem.arrived
        /\ Others(mem, mem', {"dmaTail", "seen", "whole"})
    BY <1>0, <1>1 DEF Looks, Others, FirmwareFields
  <1>3. /\ mem'.dmaHead = mem.dmaHead /\ mem'.tail = mem.tail /\ mem'.ring = mem.ring
        /\ mem'.arrived = mem.arrived /\ mem'.copied = mem.copied
        /\ mem'.tx = mem.tx /\ mem'.echo = mem.echo /\ mem'.dmar = mem.dmar
        /\ mem'.inStep = mem.inStep /\ mem'.base = mem.base /\ mem'.shift = mem.shift
        /\ DOMAIN mem' = DOMAIN mem
    BY <1>0, <1>2 DEF Others, FirmwareFields
  <1>4. at'[Loop] = "copy" /\ FirmwareType'
    <2>1. at' \in [{Loop} -> {"start", "hung", "delay", "copy", "transmit"}] /\ at'[Loop] = "copy"
      BY <1>0, <1>1 DEF FirmwareType
    <2>2. mem'.seen \in 0 .. mem'.arrived
      BY <1>0, <1>2, <1>3
    <2> QED BY <1>0, <1>2, <1>3, <2>1, <2>2 DEF FirmwareType
  <1>5. SinceLook'
    <2>1. mem.arrived - mem.arrived = 0 /\ InRow(mem.ring, mem.tail, mem.tail, 0, mem.arrived)
      BY <1>0, RowEmpty
    <2>2. InRow(mem'.ring, mem'.tail, mem'.dmaTail, mem'.arrived - mem'.seen, mem'.seen)
      BY <1>2, <1>3, <2>1
    <2> QED BY <2>2 DEF SinceLook
  <1> SUFFICES ASSUME mem.inStep PROVE (RingHolds /\ SendsNext /\ Untouched)'
    BY <1>3, <1>4, <1>5 DEF FirmwareInv
  <1>6. RingHolds /\ SendsNext
    BY DEF FirmwareInv
  <1>7. Waiting' = Waiting /\ Unread' = Unread /\ Unread = mem.dmaHead
    BY <1>1, <1>3, <1>4 DEF Waiting, Unread
  <1>8. /\ Waiting \in 0 .. Waiting /\ mem.tail = Slot(mem.dmaHead, Waiting, R)
        /\ mem.arrived = mem.copied + Waiting
    <2>1. Waiting \in 0 .. R - 1 /\ mem.tail = Slot(mem.dmaHead, Waiting, R)
      BY <1>6, <1>7 DEF RingHolds, InRow
    <2> QED BY <1>0, <2>1 DEF Waiting, FirmwareType
  <1>9. RingHolds'
    <2>1. \E k \in 0 .. Waiting : /\ mem'.dmaTail = Slot(mem'.dmaHead, k, R)
                                  /\ mem'.seen = mem'.copied + k
      BY <1>2, <1>3, <1>8
    <2>2. InRow(mem'.ring, mem'.tail, Unread', Waiting', mem'.copied)
      BY <1>3, <1>6, <1>7 DEF RingHolds
    <2>3. \E k \in 0 .. Waiting' : /\ mem'.dmaTail = Slot(mem'.dmaHead, k, R)
                                   /\ mem'.seen = mem'.copied + k
      BY <1>7, <2>1
    <2>4. at'[Loop] = "copy"
      BY <1>4
    <2> QED BY <2>2, <2>3, <2>4 DEF RingHolds
  <1>10. SendsNext'
    <2>1. SendsNext /\ at[Loop] = "delay" /\ at'[Loop] = "copy"
      BY <1>1, <1>4, <1>6
    <2>2. /\ mem'.copied = mem.copied /\ mem'.tx = mem.tx /\ mem'.echo = mem.echo
          /\ mem'.base = mem.base /\ mem'.shift = mem.shift
      BY <1>3
    <2> QED BY <2>1, <2>2 DEF SendsNext
  <1> QED BY <1>4, <1>9, <1>10 DEF Untouched

LEMMA FirmwareCopies ==
  ASSUME FirmwareInv, Goes(Loop, "copy", "transmit", Copies)
  PROVE  FirmwareInv'
  <1> DEFINE R == RxBufferSize
  <1>0. /\ FirmwareType /\ FirmwareFields \subseteq DOMAIN mem /\ mem.dmaHead \in 0 .. R - 1
        /\ mem.arrived \in Nat /\ mem.copied \in Nat /\ mem.seen \in Nat
        /\ mem.seen <= mem.arrived
    BY DEF FirmwareInv, FirmwareType
  <1>1. at[Loop] = "copy" /\ at' = [at EXCEPT ![Loop] = "transmit"] /\ mem' = Copies
    BY DEF Goes
  <1>2. /\ mem'.tx = Fresh /\ mem'.copied = mem.seen /\ Others(mem, mem', {"tx", "copied"})
    BY <1>0, <1>1 DEF Copies, Others, FirmwareFields
  <1>3. /\ mem'.dmaHead = mem.dmaHead /\ mem'.dmaTail = mem.dmaTail /\ mem'.tail = mem.tail
        /\ mem'.arrived = mem.arrived /\ mem'.seen = mem.seen /\ mem'.whole = mem.whole
        /\ mem'.echo = mem.echo /\ mem'.dmar = mem.dmar /\ mem'.ring = mem.ring
        /\ mem'.inStep = mem.inStep /\ mem'.base = mem.base /\ mem'.shift = mem.shift
        /\ DOMAIN mem' = DOMAIN mem
    BY <1>0, <1>2 DEF Others, FirmwareFields
  <1>4. at'[Loop] = "transmit" /\ FirmwareType'
    <2>1. /\ at' \in [{Loop} -> {"start", "hung", "delay", "copy", "transmit"}]
          /\ at'[Loop] = "transmit"
      BY <1>0, <1>1 DEF FirmwareType
    <2>2. mem'.tx \in Seq(Nat)
      BY <1>0, <1>2, FreshBytes
    <2> QED BY <1>0, <1>2, <1>3, <2>1, <2>2 DEF FirmwareType
  <1>5. SinceLook'
    BY <1>1, <1>3 DEF FirmwareInv, SinceLook
  <1> SUFFICES ASSUME mem.inStep PROVE (RingHolds /\ SendsNext /\ Untouched)'
    BY <1>3, <1>4, <1>5 DEF FirmwareInv
  <1>6. /\ RingHolds /\ SendsNext /\ mem.copied = Len(mem.echo) + mem.shift
        /\ InRow(mem.ring, mem.tail, mem.dmaHead, Waiting, mem.copied) /\ Waiting \in Nat
    <2>1. RingHolds /\ SendsNext
      BY DEF FirmwareInv
    <2>2. Unread = mem.dmaHead
      BY <1>1 DEF Unread
    <2> QED BY <1>1, <2>1, <2>2 DEF RingHolds, SendsNext, InRow
  <1>7. PICK k \in 0 .. Waiting : /\ mem.dmaTail = Slot(mem.dmaHead, k, R)
                                  /\ mem.seen = mem.copied + k
    BY <1>1, <1>6 DEF RingHolds
  <1>8. /\ k \in Nat /\ k <= Waiting /\ Waiting - k = mem.arrived - mem.seen
        /\ mem.copied + k = mem.seen
    <2> DEFINE w == Waiting
    <2>1. w \in Nat /\ w = mem.arrived - mem.copied
      BY <1>6 DEF Waiting
    <2> HIDE DEF w
    <2>2. k \in 0 .. w
      BY <1>7 DEF w
    <2>3. k \in Nat /\ k <= w /\ w - k = mem.arrived - mem.seen
      BY <1>0, <1>7, <2>1, <2>2
    <2> QED BY <1>7, <2>3 DEF w
  <1>9. Len(Fresh) = k /\ \A i \in 1 .. k : Fresh[i] = mem.copied + i
    BY <1>0, <1>6, <1>7, <1>8, FreshBytes
  <1>10. RingHolds'
    <2>1. InRow(mem.ring, mem.tail, Slot(mem.dmaHead, k, R), Waiting - k, mem.copied + k)
      BY <1>0, <1>6, <1>7, RowShrinks
    <2>2. InRow(mem'.ring, mem'.tail, mem'.dmaTail, mem'.arrived - mem'.copied, mem'.copied)
      BY <1>2, <1>3, <1>7, <1>8, <2>1
    <2>3. Unread' = mem'.dmaTail /\ Waiting' = mem'.arrived - mem'.copied
      BY <1>4 DEF Unread, Waiting
    <2> QED BY <1>2, <1>3, <1>4, <2>2, <2>3 DEF RingHolds
  <1>11. SendsNext'
    <2>1. Len(mem.echo) \in Nat /\ mem.shift \in Int
      BY <1>0 DEF FirmwareType
    <2>2. mem'.copied = Len(mem'.echo) + Len(mem'.tx) + mem'.shift
      BY <1>2, <1>3, <1>6, <1>8, <1>9, <2>1
    <2>3. \A i \in 1 .. Len(mem'.tx) : mem'.tx[i] = Len(mem'.echo) + i + mem'.shift
      BY <1>2, <1>3, <1>6, <1>8, <1>9, <2>1
    <2> QED BY <1>3, <1>4, <1>6, <2>2, <2>3 DEF SendsNext
  <1> QED BY <1>4, <1>10, <1>11 DEF Untouched

LEMMA FirmwareTransmits ==
  ASSUME FirmwareInv, Goes(Loop, "transmit", "delay", Transmits(mem.dmaTail))
  PROVE  FirmwareInv'
  <1> DEFINE R == RxBufferSize
             sent == [mem EXCEPT !.echo = @ \o mem.tx, !.tx = <<>>, !.dmaHead = mem.dmaTail]
             e == Len(mem.echo)
             x == Len(mem.tx)
  <1>0. /\ FirmwareType /\ FirmwareFields \subseteq DOMAIN mem
        /\ R \in Nat /\ e \in Nat /\ x \in Nat /\ mem.shift \in Int /\ mem.base \in Nat
        /\ mem.arrived \in Nat /\ mem.seen \in Nat /\ mem.seen <= mem.arrived
    <2>1. FirmwareType /\ R \in Nat
      BY FirmwareAssumption DEF FirmwareInv
    <2>2. mem.echo \in Seq(Nat) /\ mem.tx \in Seq(Nat)
      BY <2>1 DEF FirmwareType
    <2>3. e \in Nat /\ x \in Nat
      BY <2>2
    <2> QED BY <2>1, <2>3 DEF FirmwareType
  <1>1. /\ at[Loop] = "transmit" /\ at' = [at EXCEPT ![Loop] = "delay"]
        /\ mem' = Regained(sent)
    BY DEF Goes, Transmits
  <1>2. /\ sent.echo = Joint(mem.echo, mem.tx) /\ sent.tx = <<>>
        /\ sent.dmaHead = mem.dmaTail /\ Others(mem, sent, {"echo", "tx", "dmaHead"})
    BY <1>0 DEF Joint, Others, FirmwareFields
  <1> HIDE DEF sent
  <1>3. /\ sent.dmaTail = mem.dmaTail /\ sent.tail = mem.tail /\ sent.ring = mem.ring
        /\ sent.arrived = mem.arrived /\ sent.copied = mem.copied /\ sent.seen = mem.seen
        /\ sent.whole = mem.whole /\ sent.dmar = mem.dmar /\ sent.inStep = mem.inStep
        /\ sent.base = mem.base /\ sent.shift = mem.shift
        /\ FirmwareFields \subseteq DOMAIN sent
    BY <1>0, <1>2 DEF Others, FirmwareFields
  <1>4. /\ sent.echo \in Seq(Nat) /\ Len(sent.echo) = e + x
        /\ \A i \in 1 .. e : sent.echo[i] = mem.echo[i]
        /\ \A i \in e + 1 .. e + x : sent.echo[i] = mem.tx[i - e]
    <2>1. mem.echo \in Seq(Nat) /\ mem.tx \in Seq(Nat)
      BY <1>0 DEF FirmwareType
    <2>2. ASSUME NEW a \in Seq(Nat), NEW b \in Seq(Nat)
          PROVE  /\ Joint(a, b) \in Seq(Nat) /\ Len(Joint(a, b)) = Len(a) + Len(b)
                 /\ \A i \in 1 .. Len(a) : Joint(a, b)[i] = a[i]
                 /\ \A i \in Len(a) + 1 .. Len(a) + Len(b) : Joint(a, b)[i] = b[i - Len(a)]
      BY Concatenated
    <2>3. sent.echo = Joint(mem.echo, mem.tx)
      BY <1>2
    <2>4. /\ Joint(mem.echo, mem.tx) \in Seq(Nat) /\ Len(Joint(mem.echo, mem.tx)) = e + x
          /\ \A i \in 1 .. e : Joint(mem.echo, mem.tx)[i] = mem.echo[i]
          /\ \A i \in e + 1 .. e + x : Joint(mem.echo, mem.tx)[i] = mem.tx[i - e]
      BY <2>1, <2>2
    <2> QED BY ONLY <2>3, <2>4
  <1> HIDE DEF e, x
  <1>5. /\ mem'.dmaHead = mem.dmaTail /\ mem'.dmaTail = mem.dmaTail /\ mem'.tail = mem.tail
        /\ mem'.ring = mem.ring /\ mem'.arrived = mem.arrived /\ mem'.copied = mem.copied
        /\ mem'.seen = mem.seen /\ mem'.whole = mem.whole /\ mem'.dmar = mem.dmar
        /\ mem'.tx = <<>> /\ mem'.echo = sent.echo /\ FirmwareFields \subseteq DOMAIN mem'
        /\ \/ mem'.inStep = mem.inStep /\ mem'.base = mem.base /\ mem'.shift = mem.shift
           \/ /\ mem.whole /\ ~(mem.arrived - mem.seen >= R)
              /\ mem'.base = e + x /\ mem'.shift = mem.seen - (e + x)
    <2>1. \/ mem' = sent
          \/ /\ sent.whole /\ ~(sent.arrived - sent.seen >= R)
             /\ mem'.base = Len(sent.echo) /\ mem'.shift = sent.seen - Len(sent.echo)
             /\ Others(sent, mem', {"inStep", "base", "shift"})
      <3>1. {"inStep", "base", "shift"} \subseteq DOMAIN sent
        BY <1>3 DEF FirmwareFields
      <3> QED BY <1>1, <3>1, RegainedEffect
    <2>2. CASE mem' = sent
      BY <1>2, <1>3, <2>2
    <2>3. CASE /\ sent.whole /\ ~(sent.arrived - sent.seen >= R)
               /\ mem'.base = Len(sent.echo) /\ mem'.shift = sent.seen - Len(sent.echo)
               /\ Others(sent, mem', {"inStep", "base", "shift"})
      BY <1>2, <1>3, <1>4, <2>3 DEF Others, FirmwareFields
    <2> QED BY <2>1, <2>2, <2>3
  <1>6. at'[Loop] = "delay" /\ FirmwareType'
    <2>1. /\ at' \in [{Loop} -> {"start", "hung", "delay", "copy", "transmit"}]
          /\ at'[Loop] = "delay"
      BY <1>0, <1>1 DEF FirmwareType
    <2>2. mem'.base \in Nat /\ mem'.shift \in Int
      BY <1>0, <1>5
    <2>3. mem'.tx \in Seq(Nat) /\ mem'.echo \in Seq(Nat)
      BY <1>4, <1>5
    <2>4. /\ mem'.ring = mem.ring /\ mem'.dmaHead = mem.dmaTail /\ mem'.tail = mem.tail
          /\ mem'.dmaTail = mem.dmaTail /\ mem'.arrived = mem.arrived
          /\ mem'.copied = mem.copied /\ mem'.seen = mem.seen /\ mem'.dmar = mem.dmar
          /\ FirmwareFields \subseteq DOMAIN mem'
      BY <1>5
    <2>t. FirmwareType /\ at[Loop] = "transmit"
      BY <1>0, <1>1
    <2> QED BY <2>1, <2>2, <2>3, <2>4, <2>t DEF FirmwareType
  <1>7. SinceLook'
    BY <1>6 DEF SinceLook
  <1>8. mem.copied = mem.seen
    BY <1>0, <1>1 DEF FirmwareType
  <1> SUFFICES ASSUME mem'.inStep PROVE (RingHolds /\ SendsNext /\ Untouched)'
    BY <1>6, <1>7 DEF FirmwareInv
  <1>9. CASE mem'.inStep = mem.inStep /\ mem'.base = mem.base /\ mem'.shift = mem.shift
    <2>1. RingHolds /\ SendsNext
      BY <1>9 DEF FirmwareInv
    <2>2. Unread' = mem.dmaTail /\ Unread = mem.dmaTail /\ Waiting' = Waiting
      BY <1>1, <1>5, <1>6 DEF Unread, Waiting
    <2>3. RingHolds'
      BY <1>5, <1>6, <1>8, <2>1, <2>2 DEF RingHolds
    <2>4. /\ mem.copied = e + x + mem.shift
          /\ \A i \in 1 .. x : mem.tx[i] = e + i + mem.shift
          /\ \A i \in mem.base + 1 .. e : mem.echo[i] = i + mem.shift
      BY <1>1, <2>1 DEF SendsNext, e, x
    <2>5. ASSUME NEW i \in mem.base + 1 .. e + x
          PROVE  sent.echo[i] = i + mem.shift
      <3>1. CASE i <= e
        <4>1. i \in mem.base + 1 .. e /\ i \in 1 .. e
          BY <1>0, <2>5, <3>1
        <4>2. sent.echo[i] = mem.echo[i]
          BY <1>4, <4>1
        <4>3. mem.echo[i] = i + mem.shift
          BY <2>4, <4>1
        <4> QED BY <4>2, <4>3
      <3>2. CASE i > e
        <4>1. i - e \in 1 .. x /\ i \in e + 1 .. e + x /\ e + (i - e) + mem.shift = i + mem.shift
          BY <1>0, <2>5, <3>2
        <4> QED BY <1>4, <2>4, <4>1
      <3>3. i <= e \/ i > e
        BY <1>0, <2>5
      <3> QED BY <3>1, <3>2, <3>3
    <2>6. SendsNext'
      BY <1>4, <1>5, <1>6, <1>9, <2>4, <2>5 DEF SendsNext
    <2> QED BY <1>6, <2>3, <2>6 DEF Untouched
  <1>10. CASE /\ mem.whole /\ ~(mem.arrived - mem.seen >= R)
              /\ mem'.base = e + x /\ mem'.shift = mem.seen - (e + x)
    <2>1. InRow(mem.ring, mem.tail, mem.dmaTail, mem.arrived - mem.seen, mem.seen)
      <3>1. mem.arrived - mem.seen < R
        BY <1>0, <1>10
      <3> QED BY <1>1, <1>10, <3>1 DEF FirmwareInv, SinceLook
    <2>2. Unread' = mem.dmaTail /\ Waiting' = mem.arrived - mem.seen
      BY <1>5, <1>6, <1>8 DEF Unread, Waiting
    <2>3. RingHolds'
      BY <1>5, <1>6, <1>8, <2>1, <2>2 DEF RingHolds
    <2>4. SendsNext'
      <3>1. Len(mem'.echo) = e + x /\ e + x + (mem.seen - (e + x)) = mem.seen
        BY <1>0, <1>4, <1>5
      <3>2. \A i \in e + x + 1 .. e + x : FALSE
        BY <1>0
      <3> QED BY <1>5, <1>6, <1>8, <1>10, <3>1, <3>2 DEF SendsNext
    <2> QED BY <1>6, <2>3, <2>4 DEF Untouched
  <1> QED BY <1>5, <1>9, <1>10

LEMMA FirmwareEchoes == FirmwareInv => EchoesBytes
  <1> SUFFICES ASSUME FirmwareInv, demo = "firmware", mem.inStep PROVE EchoesBytes
    BY DEF EchoesBytes
  <1>1. /\ \A i \in mem.base + 1 .. Len(mem.echo) : mem.echo[i] = i + mem.shift
        /\ at[Loop] = "delay" => mem.seen = mem.copied /\ mem.copied = Len(mem.echo) + mem.shift
    BY DEF FirmwareInv, RingHolds, SendsNext
  <1> QED BY <1>1 DEF EchoesBytes

LEMMA FirmwareKeeps ==
  ASSUME FirmwareInv, demo = "firmware", [Next]_vars
  PROVE  FirmwareInv'
  <1>1. CASE UNCHANGED vars
    BY <1>1 DEF vars, FirmwareInv, FirmwareType, SinceLook, RingHolds, SendsNext, Untouched,
                Waiting, Unread
  <1>2. CASE pollRxStream
    BY <1>2, FirmwareLooks, FirmwareCopies, FirmwareTransmits DEF pollRxStream
  <1> QED BY <1>1, <1>2, FirmwareNext, FirmwareLoop, FirmwareDma, FirmwareInterrupt
-----------------------------------------------------------------------------
(* The pipes of poll.cpp.                                                  *)

PollType ==
  /\ at \in [0 .. Producers -> {"start", "poll", "process", "join", "done", "killed"}]
  /\ {"wfd", "rfd", "sent", "got", "revents", "next", "terminatedCount", "failed"}
       \subseteq DOMAIN mem
  /\ mem.wfd \in [Thread -> {"none", "open", "closed"}]
  /\ mem.rfd \in [Thread -> {"none", "open", "closed"}]
  /\ mem.sent \in [Thread -> Nat] /\ mem.got \in [Thread -> Nat]
  /\ at[0] = "process" => mem.next \in Thread

\* Nothing is read that has not been written, and a producer closes its end
\* when it has written everything.
Piped(i) ==
  /\ mem.got[i] <= mem.sent[i] /\ mem.sent[i] <= Messages(i)
  /\ mem.wfd[i] = "closed" => mem.sent[i] = Messages(i)

\* A pipe that has been hung up is empty and stays so.
Ended(i) == mem.wfd[i] = "closed" /\ mem.got[i] = mem.sent[i]

AllEnded ==
  /\ \A i \in Thread : mem.rfd[i] = "closed" => Ended(i)
  /\ mem.terminatedCount = Cardinality({i \in Thread : mem.rfd[i] = "closed"})

\* What poll has reported of the pipes that processPollFd has yet to see: they
\* are still open, and the news that one has been hung up does not go stale.
Reported ==
  at[0] = "process" =>
    \A i \in Thread : i >= mem.next /\ mem.revents[i] = "hup" =>
      mem.rfd[i] # "closed" /\ Ended(i)

PollInv ==
  PollType /\ (\A i \in Thread : Piped(i)) /\ (~mem.failed => AllEnded /\ Reported)

LEMMA PollTasks ==
  /\ Producers \in Nat /\ ReadMax \in Nat
  /\ \A i \in Thread : i \in Nat /\ i # 0 /\ i \in 0 .. Producers /\ Messages(i) \in Nat
  /\ 0 \notin Thread
  BY PollServerAssumption DEF Thread, Messages

\* The pipes that are closed are finitely many, and one more counts as one.
LEMMA OneMoreClosed ==
  ASSUME NEW rfd, NEW rfd2, NEW i \in Thread, rfd[i] # "closed", rfd2[i] = "closed",
         \A j \in Thread \ {i} : rfd2[j] = rfd[j]
  PROVE  Cardinality({j \in Thread : rfd2[j] = "closed"})
           = Cardinality({j \in Thread : rfd[j] = "closed"}) + 1
  <1> DEFINE old == {j \in Thread : rfd[j] = "closed"}
             new == {j \in Thread : rfd2[j] = "closed"}
  <1>1. IsFiniteSet(Thread)
    BY PollServerAssumption, FS_Interval DEF Thread
  <1>2. IsFiniteSet(old)
    BY <1>1, FS_Subset
  <1>3. new = old \cup {i} /\ i \notin old
    OBVIOUS
  <1> HIDE DEF old, new
  <1>4. Cardinality(new) = Cardinality(old) + 1
    BY <1>2, <1>3, FS_AddElement
  <1> QED BY <1>4 DEF old, new

\* A read takes no more than there is.
LEMMA ReadTakes ==
  ASSUME NEW n \in Nat, NEW m \in Nat
  PROVE  Min({n, m}) \in 0 .. n
  <1>1. n <= m \/ m <= n
    OBVIOUS
  <1>2. \E x \in {n, m} : \A y \in {n, m} : x <= y
    BY <1>1
  <1>3. Min({n, m}) \in {n, m} /\ \A y \in {n, m} : Min({n, m}) <= y
    BY <1>2 DEF Min
  <1> QED BY <1>3

LEMMA PollStarts == PollInit => PollInv
  <1> SUFFICES ASSUME PollInit PROVE PollInv
    OBVIOUS
  <1>1. /\ {"wfd", "rfd", "sent", "got", "revents", "next", "terminatedCount", "failed"}
             \subseteq DOMAIN mem
        /\ mem.wfd = [i \in Thread |-> "none"] /\ mem.rfd = [i \in Thread |-> "none"]
        /\ mem.sent = [i \in Thread |-> 0] /\ mem.got = [i \in Thread |-> 0]
        /\ mem.terminatedCount = 0
    BY DEF PollInit, Calls, Joined, Std
  <1>2. at = [t \in 0 .. Producers |-> "start"] /\ at[0] = "start"
    BY PollTasks DEF PollInit, Calls
  <1>3. Cardinality({i \in Thread : mem.rfd[i] = "closed"}) = 0
    BY <1>1, FS_EmptySet
  <1>4. PollType
    BY <1>1, <1>2 DEF PollType
  <1> QED BY <1>1, <1>2, <1>3, <1>4, PollTasks DEF PollInv, Piped, AllEnded, Reported

LEMMA PollNext ==
  ASSUME demo = "poll", [Next]_vars
  PROVE  (\E t \in DOMAIN at : PollStep(t)) \/ UNCHANGED vars
  BY DEF Next, Do, Elapse, Peers, HttpStep, ClientStep, CancelStep, SocketStep,
         RepStep, GreeterStep, FirmwareStep, EchoStep, SyncStep, run_client, httpGet,
         HttpTimes, HttpPeers, HttpSignal, ClientTimes, ClientResolves, CancelPeers, Rings,
         ClientPeers, EchoPeers, ClientsPeers, Connects, CancelSignal, stop, Network,
         Request, Dma, Interrupt, Stops, Echoers, Echoes

\* The threads are killed with the program.
LEMMA PollKilled ==
  ASSUME PollInv, at' = [t \in DOMAIN at |-> "killed"], mem' = mem
  PROVE  PollInv'
  <1>1. PollType' /\ at'[0] = "killed"
    BY PollTasks DEF PollInv, PollType
  <1> QED BY <1>1 DEF PollInv, Piped, AllEnded, Ended, Reported

LEMMA PollProducer ==
  ASSUME PollInv, NEW i \in Thread, producerThread(i)
  PROVE  PollInv'
  <1>0. PollType /\ i # 0 /\ i \in 0 .. Producers /\ Messages(i) \in Nat
    BY PollTasks DEF PollInv
  <1>1. CASE /\ mem.wfd[i] = "open" /\ mem.sent[i] < Messages(i)
             /\ mem.rfd[i] = "open"
             /\ Goes(i, "start", "start", [mem EXCEPT !.sent[i] = @ + 1])
    <2> DEFINE new == [mem EXCEPT !.sent[i] = @ + 1]
    <2>1. /\ DOMAIN new = DOMAIN mem /\ new.sent = [mem.sent EXCEPT ![i] = mem.sent[i] + 1]
          /\ \A x \in DOMAIN mem \ {"sent"} : new[x] = mem[x]
      BY <1>0 DEF PollType
    <2>2. mem' = new /\ at' = [at EXCEPT ![i] = "start"]
      BY <1>1 DEF Goes
    <2> HIDE DEF new
    <2>3. /\ mem'.wfd = mem.wfd /\ mem'.rfd = mem.rfd /\ mem'.got = mem.got
          /\ mem'.revents = mem.revents /\ mem'.next = mem.next /\ mem'.failed = mem.failed
          /\ mem'.terminatedCount = mem.terminatedCount /\ at'[0] = at[0]
          /\ \A j \in Thread \ {i} : mem'.sent[j] = mem.sent[j]
          /\ mem'.sent[i] = mem.sent[i] + 1
      BY <1>0, <2>1, <2>2, PollTasks DEF PollType
    <2>4. PollType'
      BY <1>0, <2>1, <2>2, <2>3 DEF PollType
    <2>5. \A j \in Thread : Piped(j)'
      BY <1>0, <1>1, <2>3 DEF PollInv, Piped, PollType
    <2>6. \A j \in Thread : mem.wfd[j] = "closed" => j # i
      BY <1>1
    <2> QED BY <2>3, <2>4, <2>5, <2>6 DEF PollInv, AllEnded, Ended, Reported
  <1>2. CASE at' = [t \in DOMAIN at |-> "killed"] /\ mem' = mem
    BY <1>2, PollKilled
  <1>3. CASE /\ mem.sent[i] = Messages(i)
             /\ Goes(i, "start", "done", [mem EXCEPT !.wfd[i] = "closed"])
    <2> DEFINE new == [mem EXCEPT !.wfd[i] = "closed"]
    <2>1. /\ DOMAIN new = DOMAIN mem /\ new.wfd = [mem.wfd EXCEPT ![i] = "closed"]
          /\ \A x \in DOMAIN mem \ {"wfd"} : new[x] = mem[x]
      BY <1>0 DEF PollType
    <2>2. mem' = new /\ at' = [at EXCEPT ![i] = "done"]
      BY <1>3 DEF Goes
    <2> HIDE DEF new
    <2>3. /\ mem'.sent = mem.sent /\ mem'.rfd = mem.rfd /\ mem'.got = mem.got
          /\ mem'.revents = mem.revents /\ mem'.next = mem.next /\ mem'.failed = mem.failed
          /\ mem'.terminatedCount = mem.terminatedCount /\ at'[0] = at[0]
          /\ \A j \in Thread \ {i} : mem'.wfd[j] = mem.wfd[j]
          /\ mem'.wfd[i] = "closed"
      BY <1>0, <2>1, <2>2, PollTasks DEF PollType
    <2>4. PollType'
      BY <1>0, <2>1, <2>2, <2>3 DEF PollType
    <2>5. \A j \in Thread : Piped(j)'
      BY <1>0, <1>3, <2>3 DEF PollInv, Piped, PollType
    <2> QED BY <2>3, <2>4, <2>5 DEF PollInv, AllEnded, Ended, Reported
  <1> QED BY <1>1, <1>2, <1>3 DEF producerThread

LEMMA PollCreates ==
  ASSUME PollInv, NEW i \in Thread, createProducer(i)
  PROVE  PollInv'
  <1>0. PollType /\ i # 0 /\ i \in 0 .. Producers /\ 0 \in 0 .. Producers
    BY PollTasks DEF PollInv
  <1>1. CASE Goes(0, "start", IF i = Producers THEN "poll" ELSE "start",
                  [mem EXCEPT !.wfd[i] = "open", !.rfd[i] = "open"])
    <2> DEFINE new == [mem EXCEPT !.wfd[i] = "open", !.rfd[i] = "open"]
    <2>1. /\ DOMAIN new = DOMAIN mem /\ new.wfd = [mem.wfd EXCEPT ![i] = "open"]
          /\ new.rfd = [mem.rfd EXCEPT ![i] = "open"]
          /\ \A x \in DOMAIN mem \ {"wfd", "rfd"} : new[x] = mem[x]
      BY <1>0 DEF PollType
    <2>2. mem' = new /\ at' = [at EXCEPT ![0] = IF i = Producers THEN "poll" ELSE "start"]
      BY <1>1 DEF Goes
    <2> HIDE DEF new
    <2>3. /\ mem'.sent = mem.sent /\ mem'.got = mem.got
          /\ mem'.failed = mem.failed /\ mem'.terminatedCount = mem.terminatedCount
          /\ at'[0] \in {"poll", "start"}
          /\ \A j \in Thread \ {i} : mem'.wfd[j] = mem.wfd[j] /\ mem'.rfd[j] = mem.rfd[j]
          /\ mem'.wfd[i] = "open" /\ mem'.rfd[i] = "open" /\ mem.wfd[i] = "none"
      BY <1>0, <2>1, <2>2, PollTasks DEF PollType, createProducer
    <2>4. PollType'
      <3>1. mem'.wfd \in [Thread -> {"none", "open", "closed"}]
        BY <1>0, <2>1, <2>2 DEF PollType
      <3>3. mem'.rfd \in [Thread -> {"none", "open", "closed"}]
        BY <1>0, <2>1, <2>2 DEF PollType
      <3>2. at' \in [0 .. Producers -> {"start", "poll", "process", "join", "done", "killed"}]
        BY <1>0, <2>2 DEF PollType
      <3> QED BY <1>0, <2>1, <2>2, <2>3, <3>1, <3>2, <3>3 DEF PollType
    <2>5. \A j \in Thread : Piped(j)'
      BY <1>0, <2>3 DEF PollInv, Piped, PollType
    <2> SUFFICES ASSUME ~mem.failed PROVE (AllEnded /\ Reported)'
      BY <2>3, <2>4, <2>5 DEF PollInv
    <2>6. AllEnded
      BY DEF PollInv
    <2>7. {j \in Thread : mem'.rfd[j] = "closed"} = {j \in Thread : mem.rfd[j] = "closed"}
      BY <2>3, <2>6 DEF AllEnded, Ended
    <2>8. AllEnded'
      BY <2>3, <2>6, <2>7 DEF AllEnded, Ended
    <2> QED BY <2>3, <2>8 DEF Reported
  <1>2. CASE at' = [t \in DOMAIN at |-> "killed"] /\ mem' = mem
    BY <1>2, PollKilled
  <1> QED BY <1>1, <1>2 DEF createProducer

LEMMA PollPolls ==
  ASSUME PollInv, poll
  PROVE  PollInv'
  <1>0. PollType /\ 0 \in 0 .. Producers /\ 0 \notin Thread
    BY PollTasks DEF PollInv
  <1>1. CASE /\ \E i \in Thread : Revents(i) # "none"
             /\ Goes(0, "poll", "process",
                     [mem EXCEPT !.revents = [i \in Thread |-> Revents(i)], !.next = 1])
    <2> DEFINE new == [mem EXCEPT !.revents = [i \in Thread |-> Revents(i)], !.next = 1]
    <2>1. /\ DOMAIN new = DOMAIN mem /\ new.revents = [i \in Thread |-> Revents(i)]
          /\ new.next = 1 /\ \A x \in DOMAIN mem \ {"revents", "next"} : new[x] = mem[x]
      BY <1>0 DEF PollType
    <2>2. mem' = new /\ at' = [at EXCEPT ![0] = "process"] /\ 1 \in Thread
      BY <1>1, PollTasks DEF Goes, Thread
    <2> HIDE DEF new
    <2>3. /\ mem'.sent = mem.sent /\ mem'.got = mem.got /\ mem'.wfd = mem.wfd
          /\ mem'.rfd = mem.rfd
          /\ mem'.failed = mem.failed /\ mem'.terminatedCount = mem.terminatedCount
      BY <1>0, <2>1, <2>2 DEF PollType
    <2>4. PollType'
      BY <1>0, <2>1, <2>2, <2>3 DEF PollType
    <2>5. ASSUME NEW i \in Thread, Revents(i) = "hup"
          PROVE  mem.rfd[i] # "closed" /\ Ended(i)
      <3>1. mem.rfd[i] # "closed" /\ ~(InPipe(i) > 0) /\ mem.wfd[i] = "closed"
        BY <2>5 DEF Revents
      <3>2. mem.got[i] \in Nat /\ mem.sent[i] \in Nat /\ mem.got[i] <= mem.sent[i]
        BY <1>0 DEF PollType, PollInv, Piped
      <3>3. mem.got[i] = mem.sent[i]
        BY <3>1, <3>2 DEF InPipe
      <3> QED BY <3>1, <3>3 DEF Ended
    <2>6. Reported'
      BY <2>1, <2>2, <2>3, <2>5 DEF Reported, Ended
    <2> QED BY <2>3, <2>4, <2>6 DEF PollInv, Piped, AllEnded, Ended
  <1>2. CASE Goes(0, "poll", "join",
                  [mem EXCEPT !.failed = TRUE, !.rfd = [i \in Thread |-> "closed"]])
    <2> DEFINE new == [mem EXCEPT !.failed = TRUE, !.rfd = [i \in Thread |-> "closed"]]
    <2>1. /\ DOMAIN new = DOMAIN mem /\ new.failed = TRUE
          /\ new.rfd = [i \in Thread |-> "closed"]
          /\ \A x \in DOMAIN mem \ {"failed", "rfd"} : new[x] = mem[x]
      BY <1>0 DEF PollType
    <2>2. mem' = new /\ at' = [at EXCEPT ![0] = "join"]
      BY <1>2 DEF Goes
    <2> HIDE DEF new
    <2>3. mem'.sent = mem.sent /\ mem'.got = mem.got /\ mem'.wfd = mem.wfd /\ mem'.failed
      BY <1>0, <2>1, <2>2 DEF PollType
    <2>4. PollType'
      BY <1>0, <2>1, <2>2, <2>3 DEF PollType
    <2> QED BY <2>3, <2>4 DEF PollInv, Piped
  <1>3. CASE Goes(0, "poll", "join", mem)
    <2>1. mem' = mem /\ at' = [at EXCEPT ![0] = "join"]
      BY <1>3 DEF Goes
    <2>2. PollType' /\ at'[0] = "join"
      BY <1>0, <2>1 DEF PollType
    <2> QED BY <2>1, <2>2 DEF PollInv, Piped, AllEnded, Ended, Reported
  <1> QED BY <1>1, <1>2, <1>3 DEF poll

LEMMA PollProcesses ==
  ASSUME PollInv, processPollFd
  PROVE  PollInv'
  <1> DEFINE i == mem.next
             to == IF i = Producers THEN "poll" ELSE "process"
  <1>0. /\ PollType /\ 0 \in 0 .. Producers /\ 0 \notin Thread /\ at[0] = "process"
        /\ i \in Thread /\ i \in Nat /\ to \in {"poll", "process"}
    BY PollTasks DEF PollInv, PollType, processPollFd
  <1>a. to = "process" => i + 1 \in Thread
    BY <1>0, PollTasks DEF Thread
  <1>1. CASE mem.revents[i] = "in" /\ Goes(0, "process", to, Took(i))
    <2> DEFINE take == Min({InPipe(i), ReadMax})
    <2>1. /\ mem.got[i] \in Nat /\ mem.sent[i] \in Nat /\ mem.got[i] <= mem.sent[i]
          /\ InPipe(i) = mem.sent[i] - mem.got[i]
      BY <1>0 DEF PollInv, Piped, PollType, InPipe
    <2>2. take \in 0 .. InPipe(i)
      BY <2>1, PollTasks, ReadTakes
    <2>3. /\ DOMAIN Took(i) = DOMAIN mem
          /\ Took(i).got = [mem.got EXCEPT ![i] = mem.got[i] + take]
          /\ Took(i).next = i + 1
          /\ \A x \in DOMAIN mem \ {"got", "next"} : Took(i)[x] = mem[x]
      BY <1>0 DEF PollType, Took
    <2> HIDE DEF take, i, to
    <2>4. mem' = Took(i) /\ at' = [at EXCEPT ![0] = to]
      BY <1>1 DEF Goes
    <2>5. /\ mem'.sent = mem.sent /\ mem'.wfd = mem.wfd /\ mem'.rfd = mem.rfd
          /\ mem'.failed = mem.failed /\ mem'.terminatedCount = mem.terminatedCount
          /\ mem'.revents = mem.revents /\ mem'.next = i + 1 /\ at'[0] = to
          /\ \A j \in Thread \ {i} : mem'.got[j] = mem.got[j]
          /\ mem'.got[i] \in mem.got[i] .. mem.sent[i]
      BY <1>0, <2>1, <2>2, <2>3, <2>4 DEF PollType
    <2>6. PollType'
      BY <1>0, <1>a, <2>1, <2>2, <2>3, <2>4, <2>5 DEF PollType
    <2>7. \A j \in Thread : Piped(j)'
      BY <1>0, <2>5, PollTasks DEF PollInv, Piped, PollType
    <2>8. \A j \in Thread : Ended(j) => Ended(j)'
      BY <2>1, <2>5 DEF Ended
    <2>9. \A j \in Thread : j >= i + 1 => j >= i
      BY <1>0, PollTasks
    <2> QED BY <1>0, <2>5, <2>6, <2>7, <2>8, <2>9 DEF PollInv, AllEnded, Reported, i
  <1>2. CASE /\ mem.revents[i] = "hup"
             /\ Goes(0, "process", to, [mem EXCEPT !.rfd[i] = "closed",
                       !.terminatedCount = @ + 1, !.next = @ + 1])
    <2> DEFINE new == [mem EXCEPT !.rfd[i] = "closed", !.terminatedCount = @ + 1,
                                  !.next = @ + 1]
    <2>1. /\ DOMAIN new = DOMAIN mem /\ new.rfd = [mem.rfd EXCEPT ![i] = "closed"]
          /\ new.terminatedCount = mem.terminatedCount + 1 /\ new.next = i + 1
          /\ \A x \in DOMAIN mem \ {"rfd", "terminatedCount", "next"} : new[x] = mem[x]
      BY <1>0 DEF PollType
    <2>2. mem' = new /\ at' = [at EXCEPT ![0] = to]
      BY <1>2 DEF Goes
    <2> HIDE DEF new
    <2>3. /\ mem'.sent = mem.sent /\ mem'.wfd = mem.wfd /\ mem'.got = mem.got
          /\ mem'.failed = mem.failed /\ mem'.terminatedCount = mem.terminatedCount + 1
          /\ mem'.revents = mem.revents /\ mem'.next = i + 1 /\ at'[0] = to
          /\ \A j \in Thread \ {i} : mem'.rfd[j] = mem.rfd[j]
          /\ mem'.rfd[i] = "closed"
      BY <1>0, <2>1, <2>2 DEF PollType
    <2>4. PollType'
      <3>1. mem'.rfd \in [Thread -> {"none", "open", "closed"}]
        BY <1>0, <2>1, <2>2 DEF PollType
      <3>2. at' \in [0 .. Producers -> {"start", "poll", "process", "join", "done", "killed"}]
        BY <1>0, <2>2 DEF PollType
      <3> QED BY <1>0, <1>a, <2>1, <2>2, <2>3, <3>1, <3>2 DEF PollType
    <2>5. \A j \in Thread : Piped(j)'
      BY <2>3 DEF PollInv, Piped
    <2> SUFFICES ASSUME ~mem.failed PROVE (AllEnded /\ Reported)'
      BY <2>3, <2>4, <2>5 DEF PollInv
    <2>6. AllEnded /\ mem.rfd[i] # "closed" /\ Ended(i)
      BY <1>0, <1>2 DEF PollInv, Reported
    <2>7. Cardinality({j \in Thread : mem'.rfd[j] = "closed"})
            = Cardinality({j \in Thread : mem.rfd[j] = "closed"}) + 1
      <3> HIDE DEF i
      <3>1. /\ i \in Thread /\ mem.rfd[i] # "closed" /\ mem'.rfd[i] = "closed"
            /\ \A j \in Thread \ {i} : mem'.rfd[j] = mem.rfd[j]
        BY <1>0, <2>3, <2>6
      <3> QED BY ONLY <3>1, OneMoreClosed
    <2>8. AllEnded'
      BY <1>0, <2>3, <2>6, <2>7 DEF AllEnded, Ended
    <2>9. \A j \in Thread : j >= i + 1 => j >= i /\ j # i
      BY <1>0, PollTasks
    <2>10. Reported'
      BY <1>0, <2>3, <2>9 DEF PollInv, Reported, Ended
    <2> QED BY <2>8, <2>10
  <1>3. CASE Goes(0, "process", to, [mem EXCEPT !.next = @ + 1])
    <2> DEFINE new == [mem EXCEPT !.next = @ + 1]
    <2>1. /\ DOMAIN new = DOMAIN mem /\ new.next = i + 1
          /\ \A x \in DOMAIN mem \ {"next"} : new[x] = mem[x]
      BY <1>0 DEF PollType
    <2>2. mem' = new /\ at' = [at EXCEPT ![0] = to]
      BY <1>3 DEF Goes
    <2> HIDE DEF new
    <2>3. /\ mem'.sent = mem.sent /\ mem'.wfd = mem.wfd /\ mem'.got = mem.got
          /\ mem'.failed = mem.failed /\ mem'.terminatedCount = mem.terminatedCount
          /\ mem'.revents = mem.revents /\ mem'.next = i + 1 /\ at'[0] = to
          /\ mem'.rfd = mem.rfd
      BY <1>0, <2>1, <2>2 DEF PollType
    <2>4. PollType'
      BY <1>0, <1>a, <2>1, <2>2, <2>3 DEF PollType
    <2>5. \A j \in Thread : j >= i + 1 => j >= i
      BY <1>0, PollTasks
    <2>6. Reported \/ mem.failed => Reported' \/ mem'.failed
      BY <1>0, <2>3, <2>5 DEF Reported, Ended
    <2> QED BY <2>3, <2>4, <2>6 DEF PollInv, Piped, AllEnded, Ended
  <1> QED BY <1>1, <1>2, <1>3 DEF processPollFd

LEMMA PollKeeps ==
  ASSUME PollInv, demo = "poll", [Next]_vars
  PROVE  PollInv'
  <1>1. CASE UNCHANGED vars
    BY <1>1 DEF vars, PollInv, PollType, Piped, AllEnded, Ended, Reported
  <1>2. CASE join
    <2>1. mem' = mem /\ at' = [at EXCEPT ![0] = "done"]
      BY <1>2 DEF join, Goes
    <2>2. PollType' /\ at'[0] = "done"
      BY <2>1, PollTasks DEF PollInv, PollType
    <2> QED BY <2>1, <2>2 DEF PollInv, Piped, AllEnded, Ended, Reported
  <1> QED BY <1>1, <1>2, PollNext, PollProducer, PollCreates, PollPolls, PollProcesses
          DEF PollStep

\* What is closed has been counted, and read to its end.
LEMMA PollHears == PollInv => Heard
  BY DEF PollInv, AllEnded, Ended, Piped, Heard
-----------------------------------------------------------------------------
(* The asynchronous echo servers.                                          *)

EchoPlaces == {"idle", "start", "accept", "handshake", "read", "writeSome", "writeAll",
               "shutdown", "done", "stopped"}
EchoResults == {"none", "pending", "ok", "eof", "error"}

EchoType ==
  /\ at \in [{Server} \cup Client -> EchoPlaces]
  /\ {"op", "late", "sent", "closed", "got", "data", "echoed", "failed"} \subseteq DOMAIN mem
  /\ mem.op \in [{Server} \cup Client -> EchoResults] /\ mem.late = {}
  /\ mem.sent \in [Client -> Nat] /\ mem.got \in [Client -> Nat]
  /\ mem.data \in [Client -> Nat] /\ mem.echoed \in [Client -> Nat]

\* The client has closed its side, and everything has been echoed.
EchoedAll(c) ==
  c \in mem.closed /\ mem.echoed[c] = mem.got[c] /\ mem.got[c] = mem.sent[c]

\* A session reads when it has echoed what it has read; it has data to write
\* when it has read; and it ends when it has failed or there is no more.
Echoing(c) ==
  /\ mem.echoed[c] <= mem.got[c] /\ mem.got[c] <= mem.sent[c]
  /\ at[c] = "idle" => mem.got[c] = 0
  /\ at[c] = "handshake" => mem.echoed[c] = mem.got[c]
  /\ at[c] = "read" /\ mem.op[c] = "pending" => mem.echoed[c] = mem.got[c]
  /\ at[c] = "read" /\ mem.op[c] = "ok" => mem.echoed[c] + mem.data[c] = mem.got[c]
  /\ at[c] = "read" /\ mem.op[c] = "eof" => EchoedAll(c)
  /\ at[c] = "writeSome" /\ mem.op[c] = "pending" =>
       mem.echoed[c] + mem.data[c] <= mem.got[c]
  /\ at[c] = "writeAll" /\ mem.op[c] = "pending" =>
       mem.echoed[c] + mem.data[c] = mem.got[c]
  /\ at[c] = "writeAll" /\ mem.op[c] = "ok" => mem.echoed[c] = mem.got[c]
  /\ at[c] = "shutdown" => c \in mem.failed \/ EchoedAll(c)
  /\ at[c] = "writeSome" /\ mem.op[c] = "ok" => mem.echoed[c] > 0
  /\ demo = "mtlsEcho" /\ at[c] = "done" => c \in mem.failed \/ EchoedAll(c)
  /\ demo # "mtlsEcho" /\ at[c] = "done" => c \in mem.failed \/ mem.echoed[c] > 0

EchoInv == EchoType /\ \A c \in Client : Echoing(c)

LEMMA EchoTasks ==
  /\ Clients \in Nat /\ Buffer \in Nat /\ Server \notin Client
  /\ \A c \in Client : c # Server
  BY EchoAssumption DEF Server, Client

LEMMA EchoStarts == EchoInit => EchoInv
  <1> SUFFICES ASSUME EchoInit PROVE EchoInv
    OBVIOUS
  <1>1. /\ {"op", "late", "sent", "closed", "got", "data", "echoed", "failed"}
             \subseteq DOMAIN mem
        /\ mem.op = [t \in {Server} \cup Client |-> "none"] /\ mem.late = {}
    BY DEF EchoInit, Joined, Std, Operations, Wire
  <1>2. /\ mem.sent = [c \in Client |-> 0] /\ mem.got = [c \in Client |-> 0]
        /\ mem.data = [c \in Client |-> 0] /\ mem.echoed = [c \in Client |-> 0]
    BY DEF EchoInit, Joined, Std, Operations, Wire
  <1>3. at = [t \in {Server} \cup Client |-> IF t = Server THEN "start" ELSE "idle"]
    BY DEF EchoInit
  <1>4. EchoType
    BY <1>1, <1>2, <1>3 DEF EchoType, EchoPlaces, EchoResults
  <1>5. \A c \in Client : at[c] = "idle"
    BY <1>3, EchoTasks
  <1> QED BY <1>2, <1>4, <1>5 DEF EchoInv, Echoing

LEMMA EchoNext ==
  ASSUME demo \in Echoes, [Next]_vars
  PROVE  (\E t \in DOMAIN at : EchoStep(t) \/ EchoPeers(t)) \/ stop \/ UNCHANGED vars
  BY DEF Next, Do, Elapse, Peers, HttpStep, ClientStep, CancelStep, SocketStep, PollStep,
         RepStep, GreeterStep, FirmwareStep, SyncStep, run_client, httpGet,
         HttpTimes, HttpPeers, HttpSignal, ClientTimes, ClientResolves, CancelPeers, Rings,
         ClientPeers, ClientsPeers, Connects, CancelSignal, Network,
         Request, Dma, Interrupt, Stops, Echoers, Echoes

\* One client's session moves, and what the client has been sent stays.
LEMMA EchoMoves ==
  ASSUME EchoInv, demo' = demo, NEW c \in Client, NEW to \in EchoPlaces,
         NEW r \in EchoResults, at' = [at EXCEPT ![c] = to],
         mem'.op = [mem.op EXCEPT ![c] = r], Others(mem, mem', {"op", "failed"}),
         mem.failed \subseteq mem'.failed,
         Echoing(c)'
  PROVE  EchoInv'
  <1>1. EchoType' /\ mem'.sent = mem.sent /\ mem'.closed = mem.closed /\ mem'.got = mem.got
        /\ mem'.data = mem.data /\ mem'.echoed = mem.echoed
    BY DEF EchoInv, EchoType, Others
  <1>2. \A b \in Client \ {c} : at'[b] = at[b] /\ mem'.op[b] = mem.op[b]
    BY DEF EchoInv, EchoType
  <1>3. \A b \in Client \ {c} : Echoing(b)'
    BY <1>1, <1>2 DEF EchoInv, Echoing, EchoedAll
  <1> QED BY <1>1, <1>3 DEF EchoInv

\* A session that awaits its next operation, and one that ends.
LEMMA EchoAwaits ==
  ASSUME EchoInv, NEW c \in Client, NEW from, NEW to \in EchoPlaces \ {"idle", "done"},
         NEW memory \in {mem, Failed(c)}, Awaits(c, from, to, memory),
         to \in {"handshake", "read"} => mem.echoed[c] = mem.got[c],
         to = "writeSome" => mem.echoed[c] + mem.data[c] <= mem.got[c],
         to = "writeAll" => mem.echoed[c] + mem.data[c] = mem.got[c],
         to = "shutdown" => memory = Failed(c) \/ EchoedAll(c)
  PROVE  EchoInv'
  <1>1. /\ Others(mem, memory, {"failed"}) /\ memory.failed \in {mem.failed, mem.failed \cup {c}}
        /\ memory = Failed(c) => c \in memory.failed
    BY DEF EchoInv, EchoType, Failed, Others
  <1>2. memory.op = mem.op /\ memory.late = {} /\ "op" \in DOMAIN memory
    BY <1>1 DEF EchoInv, EchoType, Others
  <1>3. /\ demo' = demo /\ at' = [at EXCEPT ![c] = to]
        /\ mem'.op = [memory.op EXCEPT
                        ![c] = IF c \in memory.late THEN "timeout" ELSE "pending"]
        /\ Others(memory, mem', {"op"})
    <2>1. Awaits(c, from, to, memory) /\ "op" \in DOMAIN memory
      BY <1>2
    <2> QED BY <2>1 DEF Awaits, Goes, Started, Others
  <1>4. /\ mem'.op = [mem.op EXCEPT ![c] = "pending"] /\ mem'.failed = memory.failed
        /\ Others(mem, mem', {"op", "failed"})
    BY <1>1, <1>2, <1>3 DEF EchoInv, EchoType, Others
  <1>5. /\ at'[c] = to /\ mem'.op[c] = "pending" /\ mem'.sent = mem.sent
        /\ mem'.closed = mem.closed /\ mem'.got = mem.got
        /\ mem'.data = mem.data /\ mem'.echoed = mem.echoed
    BY <1>3, <1>4 DEF EchoInv, EchoType, Others
  <1>6. Echoing(c)'
    BY <1>1, <1>4, <1>5 DEF EchoInv, Echoing, EchoedAll
  <1> QED BY <1>1, <1>3, <1>4, <1>6, EchoMoves DEF EchoResults

LEMMA EchoFinishes ==
  ASSUME EchoInv, NEW c \in Client, NEW from,
         NEW memory \in {mem, Failed(c)}, Finishes(c, from, memory),
         demo = "mtlsEcho" => memory = Failed(c) \/ c \in mem.failed \/ EchoedAll(c),
         demo # "mtlsEcho" => memory = Failed(c) \/ mem.echoed[c] > 0
  PROVE  EchoInv'
  <1>1. /\ Others(mem, memory, {"failed"}) /\ memory.failed \in {mem.failed, mem.failed \cup {c}}
        /\ memory = Failed(c) => c \in memory.failed
    BY DEF EchoInv, EchoType, Failed, Others
  <1>2. memory.op = mem.op /\ "op" \in DOMAIN memory
    BY <1>1 DEF EchoInv, EchoType, Others
  <1>3. /\ demo' = demo /\ at' = [at EXCEPT ![c] = "done"]
        /\ mem'.op = [memory.op EXCEPT ![c] = "none"] /\ Others(memory, mem', {"op"})
    BY <1>2, FinishesEffect
  <1>4. /\ mem'.op = [mem.op EXCEPT ![c] = "none"] /\ mem'.failed = memory.failed
        /\ Others(mem, mem', {"op", "failed"})
    BY <1>1, <1>2, <1>3 DEF EchoInv, EchoType, Others
  <1>5. /\ at'[c] = "done" /\ mem'.sent = mem.sent
        /\ mem'.closed = mem.closed /\ mem'.got = mem.got
        /\ mem'.data = mem.data /\ mem'.echoed = mem.echoed
    BY <1>3, <1>4 DEF EchoInv, EchoType, Others
  <1>6. Echoing(c)'
    BY <1>1, <1>3, <1>4, <1>5 DEF EchoInv, Echoing, EchoedAll
  <1> QED BY <1>1, <1>3, <1>4, <1>6, EchoMoves DEF EchoResults, EchoPlaces

LEMMA EchoSession ==
  ASSUME EchoInv, NEW c \in Client,
         \/ demo # "mtlsEcho" /\ echoOnce(c)
         \/ demo = "mtlsEcho" /\ handle_client(c)
  PROVE  EchoInv'
  <1>0. /\ Echoing(c) /\ {"handshake", "read", "writeSome", "writeAll", "shutdown"}
                            \subseteq EchoPlaces \ {"idle", "done"}
        /\ mem.echoed[c] \in Nat /\ mem.data[c] \in Nat /\ mem.got[c] \in Nat
    BY DEF EchoInv, EchoType, EchoPlaces
  <1>1. CASE demo # "mtlsEcho" /\ echoOnce(c)
    <2>1. CASE Resumed(c, "read", {"ok"}) /\ Awaits(c, "read", "writeSome", mem)
      <3>1. mem.echoed[c] + mem.data[c] <= mem.got[c]
        BY <1>0, <2>1 DEF Resumed, Echoing
      <3> QED BY <1>0, <2>1, <3>1, EchoAwaits
    <2>2. CASE Resumed(c, "writeSome", {"ok"}) /\ Finishes(c, "writeSome", mem)
      <3>1. mem.echoed[c] > 0
        BY <1>0, <2>2 DEF Resumed, Echoing
      <3> QED BY <1>1, <2>2, <3>1, EchoFinishes
    <2>3. CASE \E from : Finishes(c, from, Failed(c))
      BY <1>1, <2>3, EchoFinishes
    <2> QED BY <1>1, <2>1, <2>2, <2>3 DEF echoOnce
  <1>2. CASE demo = "mtlsEcho" /\ handle_client(c)
    <2>1. CASE Resumed(c, "handshake", {"ok"}) /\ Awaits(c, "handshake", "read", mem)
      <3>1. mem.echoed[c] = mem.got[c]
        BY <1>0, <2>1 DEF Resumed, Echoing
      <3> QED BY <1>0, <2>1, <3>1, EchoAwaits
    <2>2. CASE Resumed(c, "read", {"ok"}) /\ Awaits(c, "read", "writeAll", mem)
      <3>1. mem.echoed[c] + mem.data[c] = mem.got[c]
        BY <1>0, <2>2 DEF Resumed, Echoing
      <3> QED BY <1>0, <2>2, <3>1, EchoAwaits
    <2>3. CASE Resumed(c, "read", {"eof"}) /\ Awaits(c, "read", "shutdown", mem)
      <3>1. EchoedAll(c)
        BY <1>0, <2>3 DEF Resumed, Echoing
      <3> QED BY <1>0, <2>3, <3>1, EchoAwaits
    <2>4. CASE Resumed(c, "read", {"error"}) /\ Awaits(c, "read", "shutdown", Failed(c))
      BY <1>0, <2>4, EchoAwaits
    <2>5. CASE Resumed(c, "writeAll", {"ok"}) /\ Awaits(c, "writeAll", "read", mem)
      <3>1. mem.echoed[c] = mem.got[c]
        BY <1>0, <2>5 DEF Resumed, Echoing
      <3> QED BY <1>0, <2>5, <3>1, EchoAwaits
    <2>6. CASE \E from : Finishes(c, from, Failed(c))
      BY <1>2, <2>6, EchoFinishes
    <2>7. CASE Ready(c) /\ Finishes(c, "shutdown", mem)
      <3>1. c \in mem.failed \/ EchoedAll(c)
        BY <1>0, <2>7 DEF Finishes, Goes, Echoing
      <3> QED BY <1>2, <2>7, <3>1, EchoFinishes
    <2> QED BY <1>2, <2>1, <2>2, <2>3, <2>4, <2>5, <2>6, <2>7 DEF handle_client
  <1> QED BY <1>1, <1>2

\* The listener touches no session but the one that it starts.
LEMMA EchoListens ==
  ASSUME EchoInv, demo' = demo, NEW to \in EchoPlaces, NEW r \in EchoResults,
         at' = [at EXCEPT ![Server] = to],
         mem'.op = [mem.op EXCEPT ![Server] = r], Others(mem, mem', {"op"})
  PROVE  EchoInv'
  <1>1. /\ EchoType' /\ mem'.sent = mem.sent /\ mem'.closed = mem.closed
        /\ mem'.got = mem.got /\ mem'.failed = mem.failed
        /\ mem'.data = mem.data /\ mem'.echoed = mem.echoed
    BY DEF EchoInv, EchoType, Others
  <1>2. \A b \in Client : at'[b] = at[b] /\ mem'.op[b] = mem.op[b]
    BY EchoTasks DEF EchoInv, EchoType
  <1>3. \A b \in Client : Echoing(b)'
    BY <1>1, <1>2 DEF EchoInv, Echoing, EchoedAll
  <1> QED BY <1>1, <1>3 DEF EchoInv

LEMMA EchoSpawns ==
  ASSUME EchoInv, NEW first \in {"read", "handshake"}, NEW then \in {"done", "accept"},
         Spawns(first, then)
  PROVE  EchoInv'
  <1>1. PICK c \in Client :
          /\ at[c] = "idle"
          /\ at' = [at EXCEPT ![c] = first, ![Server] = then]
          /\ mem' = [mem EXCEPT !.op[c] = "pending",
                                !.op[Server] = IF then = "done" THEN "none" ELSE "pending"]
          /\ UNCHANGED demo
    BY DEF Spawns
  <1> DEFINE r == IF then = "done" THEN "none" ELSE "pending"
  <1>2. /\ mem'.op = [mem.op EXCEPT ![c] = "pending", ![Server] = r]
        /\ Others(mem, mem', {"op"})
    BY <1>1 DEF EchoInv, EchoType, Others
  <1>3. /\ mem'.sent = mem.sent /\ mem'.closed = mem.closed /\ mem'.failed = mem.failed
        /\ mem'.got = mem.got /\ mem'.data = mem.data /\ mem'.echoed = mem.echoed
        /\ mem'.late = mem.late /\ DOMAIN mem' = DOMAIN mem
    BY <1>2 DEF EchoInv, EchoType, Others
  <1>4. /\ at'[c] = first /\ mem'.op[c] = "pending"
        /\ \A b \in Client \ {c} : at'[b] = at[b] /\ mem'.op[b] = mem.op[b]
    BY <1>1, <1>2, EchoTasks DEF EchoInv, EchoType
  <1>5. EchoType'
    <2>1. at' \in [{Server} \cup Client -> EchoPlaces]
      BY <1>1 DEF EchoInv, EchoType, EchoPlaces
    <2>2. mem'.op \in [{Server} \cup Client -> EchoResults]
      BY <1>2 DEF EchoInv, EchoType, EchoResults
    <2> QED BY <1>3, <2>1, <2>2 DEF EchoInv, EchoType
  <1>6. \A b \in Client \ {c} : Echoing(b)'
    <2>1. demo' = demo
      BY <1>1
    <2> QED BY <1>3, <1>4, <2>1 DEF EchoInv, Echoing, EchoedAll
  <1>7. Echoing(c)'
    BY <1>1, <1>3, <1>4 DEF EchoInv, EchoType, Echoing
  <1> QED BY <1>5, <1>6, <1>7 DEF EchoInv

LEMMA EchoServers ==
  ASSUME EchoInv, start \/ listener \/ run_server
  PROVE  EchoInv'
  <1>1. ASSUME NEW from, Awaits(Server, from, "accept", mem)
        PROVE  EchoInv'
    <2>1. /\ demo' = demo /\ at' = [at EXCEPT ![Server] = "accept"]
          /\ mem'.op = [mem.op EXCEPT
                          ![Server] = IF Server \in mem.late THEN "timeout" ELSE "pending"]
          /\ Others(mem, mem', {"op"})
      BY <1>1, AwaitsEffect DEF EchoInv, EchoType
    <2>2. mem'.op = [mem.op EXCEPT ![Server] = "pending"]
      BY <2>1 DEF EchoInv, EchoType
    <2> QED BY <2>1, <2>2, EchoListens DEF EchoPlaces, EchoResults
  <1>2. ASSUME NEW from, Finishes(Server, from, mem)
        PROVE  EchoInv'
    <2>1. /\ demo' = demo /\ at' = [at EXCEPT ![Server] = "done"]
          /\ mem'.op = [mem.op EXCEPT ![Server] = "none"] /\ Others(mem, mem', {"op"})
      BY <1>2, FinishesEffect DEF EchoInv, EchoType
    <2> QED BY <2>1, EchoListens DEF EchoPlaces, EchoResults
  <1> QED BY <1>1, <1>2, EchoSpawns DEF start, listener, run_server

\* What the clients and the connections do.
LEMMA EchoCompletes ==
  ASSUME EchoInv, NEW t \in {Server} \cup Client, NEW from, NEW r \in {"ok", "error"},
         from \in {"read", "writeSome", "writeAll"} => r = "error",
         NEW results \in SUBSET {r}, Completes(t, from, results)
  PROVE  EchoInv'
  <1>1. /\ demo' = demo /\ at[t] = from /\ at' = at
        /\ mem'.op = [mem.op EXCEPT ![t] = r] /\ Others(mem, mem', {"op"})
    <2>1. /\ demo' = demo /\ at[t] = from /\ at' = at
          /\ \E s \in results : mem'.op = [mem.op EXCEPT ![t] = s]
          /\ Others(mem, mem', {"op"})
      BY CompletesEffect DEF EchoInv, EchoType
    <2> QED BY <2>1
  <1>2. /\ EchoType' /\ mem'.sent = mem.sent /\ mem'.closed = mem.closed
        /\ mem'.got = mem.got /\ mem'.failed = mem.failed
        /\ mem'.data = mem.data /\ mem'.echoed = mem.echoed
    BY <1>1 DEF EchoInv, EchoType, Others, EchoResults
  <1>3. \A b \in Client : mem'.op[b] = mem.op[b] \/ (b = t /\ mem'.op[b] = r)
    BY <1>1 DEF EchoInv, EchoType
  <1>4. \A b \in Client : Echoing(b)'
    BY <1>1, <1>2, <1>3 DEF EchoInv, Echoing, EchoedAll
  <1> QED BY <1>2, <1>4 DEF EchoInv

LEMMA EchoClients ==
  ASSUME EchoInv, NEW c \in Client, Sends(c) \/ Reads(c) \/ Writes(c)
  PROVE  EchoInv'
  <1>0. /\ EchoType /\ Echoing(c) /\ at' = at /\ demo' = demo
        /\ mem.sent[c] \in Nat /\ mem.got[c] \in Nat /\ mem.echoed[c] \in Nat
        /\ mem.data[c] \in Nat
    BY DEF EchoInv, EchoType, Sends, Reads, Writes
  <1>a. ASSUME EchoType', Echoing(c)', mem'.failed = mem.failed,
               \A b \in Client \ {c} :
                 /\ mem'.op[b] = mem.op[b] /\ mem'.sent[b] = mem.sent[b]
                 /\ mem'.got[b] = mem.got[b] /\ mem'.data[b] = mem.data[b]
                 /\ mem'.echoed[b] = mem.echoed[b]
                 /\ b \in mem'.closed <=> b \in mem.closed
        PROVE  EchoInv'
    <2>1. \A b \in Client \ {c} : Echoing(b)'
      BY <1>0, <1>a DEF EchoInv, Echoing, EchoedAll
    <2> QED BY <1>a, <2>1 DEF EchoInv
  <1>1. CASE Sends(c) /\ mem' = [mem EXCEPT !.sent[c] = @ + 1]
    <2>1. /\ DOMAIN mem' = DOMAIN mem /\ mem'.sent = [mem.sent EXCEPT ![c] = mem.sent[c] + 1]
          /\ mem'.op = mem.op /\ mem'.late = mem.late /\ mem'.closed = mem.closed
          /\ mem'.got = mem.got /\ mem'.data = mem.data /\ mem'.echoed = mem.echoed
          /\ mem'.failed = mem.failed
      BY <1>0, <1>1 DEF EchoType
    <2>2. EchoType' /\ mem'.sent[c] = mem.sent[c] + 1
      BY <1>0, <2>1 DEF EchoType
    <2>3. ~EchoedAll(c) /\ ~EchoedAll(c)' /\ at[c] # "done"
      BY <1>1, <2>1 DEF Sends, EchoedAll
    <2>4. Echoing(c)'
      BY <1>0, <2>1, <2>2, <2>3 DEF Echoing
    <2> QED BY <1>a, <1>0, <2>1, <2>2, <2>4 DEF EchoType
  <1>2. CASE Sends(c) /\ mem' = [mem EXCEPT !.closed = @ \cup {c}]
    <2>1. /\ DOMAIN mem' = DOMAIN mem /\ mem'.closed = mem.closed \cup {c}
          /\ mem'.op = mem.op /\ mem'.late = mem.late /\ mem'.sent = mem.sent
          /\ mem'.got = mem.got /\ mem'.data = mem.data /\ mem'.echoed = mem.echoed
          /\ mem'.failed = mem.failed
      BY <1>0, <1>2 DEF EchoType
    <2>2. EchoType'
      BY <1>0, <2>1 DEF EchoType
    <2>3. Echoing(c)'
      BY <1>0, <2>1 DEF Echoing, EchoedAll
    <2> QED BY <1>a, <2>1, <2>2, <2>3
  <1>3. ASSUME at[c] = "read", mem.op[c] = "pending", NEW n \in 1 .. Min({Arrived(c), Buffer}),
               mem' = [mem EXCEPT !.op[c] = "ok", !.data[c] = n, !.got[c] = @ + n]
        PROVE  EchoInv'
    <2>1. /\ DOMAIN mem' = DOMAIN mem /\ mem'.op = [mem.op EXCEPT ![c] = "ok"]
          /\ mem'.data = [mem.data EXCEPT ![c] = n]
          /\ mem'.got = [mem.got EXCEPT ![c] = mem.got[c] + n]
          /\ mem'.closed = mem.closed /\ mem'.late = mem.late /\ mem'.sent = mem.sent
          /\ mem'.echoed = mem.echoed /\ mem'.failed = mem.failed
      BY <1>0, <1>3 DEF EchoType
    <2>2. n \in Nat /\ mem.got[c] + n <= mem.sent[c]
      <3>1. Arrived(c) \in Nat /\ Arrived(c) = mem.sent[c] - mem.got[c]
        BY <1>0 DEF Arrived, Echoing
      <3>2. Min({Arrived(c), Buffer}) \in 0 .. Arrived(c)
        BY <3>1, EchoTasks, ReadTakes
      <3> QED BY <1>0, <3>1, <3>2
    <2>3. /\ mem'.op[c] = "ok" /\ mem'.data[c] = n /\ mem'.got[c] = mem.got[c] + n
          /\ \A b \in Client \ {c} : /\ mem'.op[b] = mem.op[b] /\ mem'.data[b] = mem.data[b]
                                     /\ mem'.got[b] = mem.got[b]
      BY <1>0, <2>1 DEF EchoType
    <2>4. EchoType'
      BY <1>0, <2>1, <2>2 DEF EchoType, EchoResults
    <2>5. Echoing(c)'
      BY <1>0, <1>3, <2>1, <2>2, <2>3 DEF Echoing
    <2> QED BY <1>a, <2>1, <2>3, <2>4, <2>5
  <1>4. CASE /\ at[c] = "read" /\ mem.op[c] = "pending" /\ Arrived(c) = 0
             /\ c \in mem.closed /\ mem' = [mem EXCEPT !.op[c] = "eof"]
    <2>1. /\ DOMAIN mem' = DOMAIN mem /\ mem'.op = [mem.op EXCEPT ![c] = "eof"]
          /\ mem'.data = mem.data /\ mem'.got = mem.got
          /\ mem'.closed = mem.closed /\ mem'.late = mem.late /\ mem'.sent = mem.sent
          /\ mem'.echoed = mem.echoed /\ mem'.failed = mem.failed
      BY <1>0, <1>4 DEF EchoType
    <2>2. EchoType'
      BY <1>0, <2>1 DEF EchoType, EchoResults
    <2>3. EchoedAll(c)'
      BY <1>0, <1>4, <2>1 DEF Echoing, Arrived, EchoedAll
    <2>4. /\ mem'.op[c] = "eof" /\ \A b \in Client \ {c} : mem'.op[b] = mem.op[b]
      BY <1>0, <2>1 DEF EchoType
    <2>5. Echoing(c)'
      BY <1>0, <1>4, <2>1, <2>3, <2>4 DEF Echoing
    <2> QED BY <1>a, <2>1, <2>2, <2>4, <2>5
  <1>5. ASSUME at[c] \in {"writeSome", "writeAll"}, mem.op[c] = "pending",
               NEW n \in IF at[c] = "writeAll" THEN {mem.data[c]} ELSE 1 .. mem.data[c],
               mem' = [mem EXCEPT !.op[c] = "ok", !.echoed[c] = @ + n]
        PROVE  EchoInv'
    <2>1. /\ DOMAIN mem' = DOMAIN mem /\ mem'.op = [mem.op EXCEPT ![c] = "ok"]
          /\ mem'.echoed = [mem.echoed EXCEPT ![c] = mem.echoed[c] + n]
          /\ mem'.data = mem.data /\ mem'.got = mem.got
          /\ mem'.closed = mem.closed /\ mem'.late = mem.late /\ mem'.sent = mem.sent
          /\ mem'.failed = mem.failed
      BY <1>0, <1>5 DEF EchoType
    <2>2. /\ n \in Nat /\ n <= mem.data[c] /\ (at[c] = "writeAll" => n = mem.data[c])
          /\ at[c] = "writeSome" => n > 0
      BY <1>0, <1>5
    <2>3. EchoType'
      BY <1>0, <2>1, <2>2 DEF EchoType, EchoResults
    <2>4. /\ mem'.op[c] = "ok" /\ mem'.echoed[c] = mem.echoed[c] + n
          /\ \A b \in Client \ {c} : mem'.op[b] = mem.op[b] /\ mem'.echoed[b] = mem.echoed[b]
      BY <1>0, <2>1 DEF EchoType
    <2>5. Echoing(c)'
      BY <1>0, <1>5, <2>1, <2>2, <2>4 DEF Echoing
    <2> QED BY <1>a, <2>1, <2>3, <2>4, <2>5
  <1> QED BY <1>1, <1>2, <1>3, <1>4, <1>5 DEF Sends, Reads, Writes, Pending

LEMMA EchoKeeps ==
  ASSUME EchoInv, demo \in Echoes, [Next]_vars
  PROVE  EchoInv'
  <1>1. ASSUME NEW t \in DOMAIN at, EchoStep(t)
        PROVE  EchoInv'
    BY <1>1, EchoSession, EchoServers DEF EchoStep
  <1>2. ASSUME NEW t \in DOMAIN at, EchoPeers(t)
        PROVE  EchoInv'
    <2>0. t \in {Server} \cup Client
      BY DEF EchoInv, EchoType
    <2>1. CASE Breaks(t)
      <3>1. PICK from : Completes(t, from, {"error"})
        BY <2>1 DEF Breaks
      <3> QED BY <2>0, <3>1, EchoCompletes
    <2>2. CASE Opens(t)
      <3>1. PICK from \in {"accept", "handshake", "shutdown"}, results \in SUBSET {"ok"} :
              Completes(t, from, results)
        BY <2>2 DEF Opens
      <3> QED BY <2>0, <3>1, EchoCompletes
    <2> QED BY <1>2, <2>1, <2>2, EchoClients DEF EchoPeers
  <1>3. CASE stop
    <2>1. mem' = mem /\ at' = [t \in {Server} \cup Client |-> "stopped"] /\ demo' = demo
      BY <1>3 DEF stop, EchoInv, EchoType
    <2>2. EchoType' /\ \A c \in Client : at'[c] = "stopped"
      BY <2>1 DEF EchoInv, EchoType, EchoPlaces
    <2> QED BY <2>1, <2>2 DEF EchoInv, Echoing
  <1>4. CASE UNCHANGED vars
    BY <1>4 DEF vars, EchoInv, EchoType, Echoing, EchoedAll
  <1> QED BY <1>1, <1>2, <1>3, <1>4, EchoNext

LEMMA EchoEchoes == EchoInv => Echoed
  BY DEF EchoInv, Echoing, EchoedAll, Echoed
-----------------------------------------------------------------------------
(* The blocking server and client.                                         *)

SyncInv ==
  /\ at \in [{Server, 1} -> {"start", "accept", "read", "send", "return", "done", "threw",
                             "recv"}]
  /\ {"listening", "connected", "line", "reply", "closed", "printed"} \subseteq DOMAIN mem
  /\ at[Server] \in {"return", "done"} => mem.reply
  /\ mem.closed => mem.reply
  /\ at[1] = "done" => mem.printed

LEMMA SyncStarts == SyncInit => SyncInv
  <1> SUFFICES ASSUME SyncInit PROVE SyncInv
    OBVIOUS
  <1>1. /\ {"listening", "connected", "line", "reply", "closed", "printed"} \subseteq DOMAIN mem
        /\ mem.closed = FALSE
    BY DEF SyncInit, Calls, Joined, Std
  <1>2. at = [t \in {Server, 1} |-> "start"]
    BY DEF SyncInit, Calls
  <1> QED BY <1>1, <1>2 DEF SyncInv, Server

LEMMA SyncNext ==
  ASSUME demo = "syncEcho", [Next]_vars
  PROVE  \/ \E t \in DOMAIN at : (t = Server /\ syncServer) \/ (t = 1 /\ syncClient)
         \/ UNCHANGED vars
  BY DEF Next, Do, Elapse, Peers, HttpStep, ClientStep, CancelStep, PollStep, SocketStep,
         RepStep, GreeterStep, FirmwareStep, EchoStep, SyncStep, run_client, httpGet,
         HttpTimes, HttpPeers, HttpSignal, ClientTimes, ClientResolves, CancelPeers, Rings,
         ClientPeers, EchoPeers, ClientsPeers, Connects, CancelSignal, stop, Network,
         Request, Dma, Interrupt, Stops, Echoers, Echoes

LEMMA SyncKeeps ==
  ASSUME SyncInv, demo = "syncEcho", [Next]_vars
  PROVE  SyncInv'
  <1>1. CASE syncServer
    BY <1>1 DEF syncServer, Goes, SyncInv, Server
  <1>2. CASE syncClient
    BY <1>2 DEF syncClient, Goes, SyncInv, Server
  <1>3. CASE UNCHANGED vars
    BY <1>3 DEF vars, SyncInv
  <1> QED BY <1>1, <1>2, <1>3, SyncNext

-----------------------------------------------------------------------------
(* The reply thread.                                                       *)

RepInv ==
  /\ at \in [{Main, Rep} -> {"start", "wait", "receive", "send", "recreate", "closing",
                             "done", "terminated"}]
  /\ {"turn", "inbox", "left", "taken", "replies", "context"} \subseteq DOMAIN mem
  /\ mem.taken \in Int /\ mem.replies \in Int
  /\ mem.replies <= mem.taken
  /\ mem.turn = "reply" => mem.replies < mem.taken
  /\ at[Rep] = "send" => mem.turn = "reply"

LEMMA RepStarts == RepInit => RepInv
  <1> SUFFICES ASSUME RepInit PROVE RepInv
    OBVIOUS
  <1>1. /\ {"turn", "inbox", "left", "taken", "replies", "context"} \subseteq DOMAIN mem
        /\ mem.taken = 0 /\ mem.replies = 0 /\ mem.turn = "none"
    BY DEF RepInit, Calls, Joined, Std
  <1>2. at = [t \in {Main, Rep} |-> "start"]
    BY DEF RepInit, Calls
  <1> QED BY <1>1, <1>2 DEF RepInv, Main, Rep

LEMMA RepNext ==
  ASSUME demo = "rep", [Next]_vars
  PROVE  (\E t \in DOMAIN at : RepStep(t)) \/ Request \/ UNCHANGED vars
  BY DEF Next, Do, Elapse, Peers, HttpStep, ClientStep, CancelStep, PollStep, SocketStep,
         GreeterStep, FirmwareStep, EchoStep, SyncStep, run_client, httpGet,
         HttpTimes, HttpPeers, HttpSignal, ClientTimes, ClientResolves, CancelPeers, Rings,
         ClientPeers, EchoPeers, ClientsPeers, Connects, CancelSignal, stop, Network,
         Dma, Interrupt, Stops, Echoers, Echoes

LEMMA RepKeeps ==
  ASSUME RepInv, demo = "rep", [Next]_vars
  PROVE  RepInv'
  <1>1. CASE repMain
    BY <1>1 DEF repMain, Goes, RepInv, Main, Rep
  <1>2. CASE bindFirst
    BY <1>2 DEF bindFirst, Goes, Terminates, RepInv, Main, Rep
  <1>3. CASE wait
    BY <1>3 DEF wait, Goes, RepInv, Main, Rep
  <1>4. CASE receive
    <2> DEFINE new == [mem EXCEPT !.inbox = @ - 1, !.taken = @ + 1, !.turn = "reply"]
    <2>1. CASE Goes(Rep, "receive", "send", new)
      <3>1. /\ DOMAIN new = DOMAIN mem /\ new.replies = mem.replies
            /\ new.taken = mem.taken + 1 /\ new.turn = "reply"
        BY DEF RepInv
      <3> HIDE DEF new
      <3> QED BY <2>1, <3>1 DEF Goes, RepInv, Main, Rep
    <2>2. CASE Goes(Rep, "receive", "wait", mem)
      BY <2>2 DEF Goes, RepInv, Main, Rep
    <2> QED BY <1>4, <2>1, <2>2 DEF receive
  <1>5. CASE send
    <2> DEFINE new == [mem EXCEPT !.replies = @ + 1, !.turn = "request"]
    <2>1. CASE Goes(Rep, "send", "wait", new)
      <3>1. /\ DOMAIN new = DOMAIN mem /\ new.replies = mem.replies + 1
            /\ new.taken = mem.taken /\ new.turn = "request"
        BY DEF RepInv
      <3>2. mem.replies < mem.taken
        BY <2>1 DEF Goes, RepInv
      <3> HIDE DEF new
      <3> QED BY <2>1, <3>1, <3>2 DEF Goes, RepInv, Main, Rep
    <2>2. CASE Goes(Rep, "send", "wait", mem)
      BY <2>2 DEF Goes, RepInv, Main, Rep
    <2> QED BY <1>5, <2>1, <2>2 DEF send
  <1>6. CASE recreate_socket
    BY <1>6 DEF recreate_socket, Goes, Terminates, RepInv, Main, Rep
  <1>7. CASE Request
    BY <1>7 DEF Request, RepInv, Main, Rep
  <1>8. CASE UNCHANGED vars
    BY <1>8 DEF vars, RepInv
  <1> QED BY <1>1, <1>2, <1>3, <1>4, <1>5, <1>6, <1>7, <1>8, RepNext DEF RepStep
-----------------------------------------------------------------------------
(* All of them.                                                            *)

DeliveredInv ==
  /\ demo = "poll" => PollInv
  /\ demo \in Echoes => EchoInv
  /\ demo = "syncEcho" => SyncInv
  /\ demo = "rep" => RepInv
  /\ demo = "firmware" => FirmwareInv

\* For any number of producers, clients, requests and bytes: poll.cpp counts a
\* pipe as ended once, and has read it to its end; an echo server never sends
\* more than it has read, reads no more before it has sent it, and a session that
\* has not failed ends with every byte of its client echoed (on TLS) or with some
\* (the others); the blocking client prints a reply; a request is answered at
\* most once; and the UART sends back what arrives, in order and each byte once,
\* from the start until its buffer is full between two polls or an error stops
\* it, and again from the first whole poll after that on.
THEOREM ServersDeliver == Spec => []Delivered
  <1>1. Init => DeliveredInv
    BY ProgramStarts, PollStarts, EchoStarts, SyncStarts, RepStarts, FirmwareStarts
       DEF DeliveredInv
  <1>2. DeliveredInv /\ [Next]_vars => DeliveredInv'
    BY DemoStays, PollKeeps, EchoKeeps, SyncKeeps, RepKeeps, FirmwareKeeps DEF DeliveredInv
  <1>3. DeliveredInv => Delivered
    <2> SUFFICES ASSUME DeliveredInv PROVE Delivered
      OBVIOUS
    <2>1. Heard
      BY PollHears DEF DeliveredInv, Heard
    <2>2. Echoed
      BY EchoEchoes DEF DeliveredInv, Echoed
    <2>3. Replied /\ InTurn
      BY DEF DeliveredInv, SyncInv, RepInv, Replied, InTurn
    <2>4. EchoesBytes
      BY FirmwareEchoes DEF DeliveredInv, EchoesBytes
    <2> QED BY <2>1, <2>2, <2>3, <2>4 DEF Delivered
  <1> QED BY <1>1, <1>2, <1>3, PTL DEF Spec
=============================================================================
