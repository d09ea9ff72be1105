------------------------------ MODULE RepThread ------------------------------
(***************************************************************************)
(* zeromq/include/rep_thread.h: a thread answers requests until main, an   *)
(* hour later, destroys the context under it; and the gRPC greeter.        *)
(***************************************************************************)
EXTENDS Threads

CONSTANT Inquiries    \* requests that clients make

Main == 0
Rep == 1

\* A reply socket takes a request, then the reply to it, and again.
RepInit == Calls("rep", {Main, Rep},
  [turn |-> "none", inbox |-> 0, left |-> Inquiries, taken |-> 0, replies |-> 0,
   context |-> "open"])

Terminates ==
  /\ at' = [at EXCEPT ![Main] = "terminated", ![Rep] = "terminated"]
  /\ UNCHANGED <<demo, mem>>

\* The destructor of the context fails every call on it, and waits until its
\* sockets are closed, which the thread does just before it makes the next one:
\* then main may return before that one's error ends the program.
repMain ==
  \/ Goes(Main, "start", "closing", [mem EXCEPT !.context = "terminated"])
  \/ mem.turn = "none" /\ Goes(Main, "closing", "done", mem)

\* The first socket: an error of bind leaves the thread, and ends the program.
bindFirst ==
  /\ at[Rep] = "start"
  /\ \/ mem.context = "open" /\ Goes(Rep, "start", "wait", [mem EXCEPT !.turn = "request"])
     \/ Terminates

Terminated == mem.context = "terminated"

wait ==
  /\ at[Rep] = "wait"
  /\ \/ /\ ~Terminated /\ mem.inbox > 0 /\ mem.turn = "request"
        /\ Goes(Rep, "wait", "receive", mem)
     \/ ~Terminated /\ Goes(Rep, "wait", "wait", mem)
     \/ Goes(Rep, "wait", "recreate", [mem EXCEPT !.turn = "none"])

\* Errors of one request are swallowed.  A request that is not there after all
\* is answered too, which the socket refuses; a reply that fails leaves the
\* socket waiting for one.
receive ==
  \/ ~Terminated /\ Goes(Rep, "receive", "send",
       [mem EXCEPT !.inbox = @ - 1, !.taken = @ + 1, !.turn = "reply"])
  \/ Goes(Rep, "receive", "wait", mem)
send ==
  \/ ~Terminated /\ Goes(Rep, "send", "wait",
       [mem EXCEPT !.replies = @ + 1, !.turn = "request"])
  \/ Goes(Rep, "send", "wait", mem)

\* The new socket is made inside the handler of the error: what it throws is
\* caught by nobody.
recreate_socket ==
  /\ at[Rep] = "recreate"
  /\ \/ ~Terminated /\ Goes(Rep, "recreate", "wait", [mem EXCEPT !.turn = "request"])
     \/ Terminates

RepStep(t) ==
  /\ demo = "rep"
  /\ \/ t = Main /\ repMain
     \/ t = Rep /\ (bindFirst \/ wait \/ receive \/ send \/ recreate_socket)

Request ==
  /\ demo = "rep" /\ mem.left > 0 /\ at[Rep] # "terminated"
  /\ mem' = [mem EXCEPT !.inbox = @ + 1, !.left = @ - 1]
  /\ UNCHANGED <<demo, at>>
-----------------------------------------------------------------------------
(* greeter_server.cpp: main dereferences no server when the port is taken. *)
GreeterInit == Calls("greeter", 0 .. Inquiries, [up |-> FALSE, answers |-> {}])

greeterServer ==
  \/ Goes(Main, "start", "serving", [mem EXCEPT !.up = TRUE])
  \/ Goes(Main, "start", "terminated", mem)

SayHello(name) == <<"Hello ", name>>
SayHelloAgain(name) == <<"Hello again ", name>>
Answer(c) ==
  \E a \in {SayHello(c), SayHelloAgain(c)} :
    Goes(c, "start", "done", [mem EXCEPT !.answers = @ \cup {<<c, a>>}])

GreeterStep(t) ==
  /\ demo = "greeter"
  /\ \/ t = Main /\ greeterServer
     \/ t # Main /\ mem.up /\ Answer(t)
-----------------------------------------------------------------------------
\* There are never more replies than requests that were taken, and the socket
\* waits for a reply only while one of those has none: no request is answered
\* twice, nor one that nobody has made.  A reply that fails is not made again.
InTurn ==
  demo = "rep" => /\ mem.replies <= mem.taken
                  /\ mem.turn = "reply" => mem.replies < mem.taken
=============================================================================
