----------------------------- MODULE PubThread -----------------------------
(***************************************************************************)
(* PubThread (zeromq/include/pub_thread.h): clients queue messages, one    *)
(* thread hands them to a ZeroMQ socket.  The owner of the object starts   *)
(* and stops the thread.  A critical section is one step, except that the  *)
(* semaphore is raised inside the one of send and after the one of stop.   *)
(***************************************************************************)
EXTENDS Storage, Functions

CONSTANTS Clients,      \* the threads that call send
          nullopt,      \* the queue entry that ends the thread
          Free,         \* mMutex: nobody holds it
          MaxSends,     \* bound: messages of one client
          MaxStarts,    \* bound: calls of start
          MaxStops,     \* bound: calls of stop
          Modes         \* the kinds of caller there may be: see careful

ASSUME PubThreadAssumption ==
  /\ Free \notin Clients
  /\ MaxSends \in Nat /\ MaxStarts \in Nat /\ MaxStops \in Nat
  /\ nullopt \notin Clients \X (0 .. MaxSends)
  /\ Modes \subseteq BOOLEAN

\* A message: its sender and how many that client sent before.
Message == Clients \X (0 .. MaxSends)

VARIABLES mutex,      \* who holds mMutex
          sem,        \* mMessageSemaphore
          queue,      \* mQueue
          joinable,   \* mThread.joinable()
          pc,         \* where the thread is in service()
          msg,        \* the message it took
          cpc, sends, \* where each client is in send(), the sends it made
          careful,    \* TRUE: as in main.cpp, send is called between start
                      \* and stop only, and stop after start only
          opc, starts, stops,   \* where the owner is in stop(), its calls so far
          accepted,   \* history: the messages queued since start
          offered     \* history: the messages handed to Pub::send since start

client == <<cpc, sends>>
owner == <<careful, opc, starts, stops>>
history == <<accepted, offered>>
vars == <<mutex, sem, queue, joinable, pc, msg, client, owner, history>>

Init == /\ mutex = Free /\ sem = 0 /\ queue = <<>>
        /\ joinable = FALSE /\ pc = "none" /\ msg = nullopt
        /\ cpc = [c \in Clients |-> "idle"] /\ sends = [c \in Clients |-> 0]
        /\ careful \in Modes /\ opc = "idle" /\ starts = 0 /\ stops = 0
        /\ accepted = <<>> /\ offered = <<>>

\* The process is up: no exception left the thread, no empty queue was read.
Alive == pc \notin {"terminated", "undefined"}

\* Mutant: a flag, not a count.
releaseFlag == sem' = 1
\* mMessageSemaphore.release().  The type is binary_semaphore, and to raise
\* one that is up is outside its contract; the libraries the program is built
\* with (libstdc++, libc++) then count, and the class relies on that.
release == sem' = sem + 1
-----------------------------------------------------------------------------
\* send()
SendPush(c) ==
  /\ Alive /\ cpc[c] = "idle" /\ sends[c] < MaxSends
  /\ careful => joinable /\ opc = "idle"
  /\ mutex = Free
  /\ mutex' = c
  /\ cpc' = [cpc EXCEPT ![c] = "release"]
  /\ sends' = [sends EXCEPT ![c] = @ + 1]
  /\ queue' = Append(queue, <<c, sends[c]>>)
  /\ accepted' = Append(accepted, <<c, sends[c]>>)
  /\ UNCHANGED <<sem, joinable, pc, msg, owner, offered>>

SendRelease(c) ==
  /\ Alive /\ cpc[c] = "release"
  /\ release
  /\ cpc' = [cpc EXCEPT ![c] = "unlock"]
  /\ UNCHANGED <<mutex, queue, joinable, pc, msg, sends, owner, history>>

SendUnlock(c) ==
  /\ Alive /\ cpc[c] = "unlock"
  /\ mutex' = Free
  /\ cpc' = [cpc EXCEPT ![c] = "idle"]
  /\ UNCHANGED <<sem, queue, joinable, pc, msg, sends, owner, history>>
-----------------------------------------------------------------------------
\* start() replaces the queue, without the mutex, and leaves the semaphore.
Start ==
  /\ Alive /\ opc = "idle" /\ ~joinable /\ starts < MaxStarts
  /\ queue' = <<>>
  /\ joinable' = TRUE /\ pc' = "bind" /\ msg' = nullopt
  /\ starts' = starts + 1
  /\ accepted' = <<>> /\ offered' = <<>>
  /\ UNCHANGED <<mutex, sem, client, careful, opc, stops>>

\* Mutant: stop jumps the queue.
StopPushFront ==
  /\ Alive /\ opc = "idle" /\ stops < MaxStops
  /\ careful => joinable /\ \A c \in Clients : cpc[c] = "idle"
  /\ mutex = Free
  /\ queue' = <<nullopt>> \o queue
  /\ opc' = "release" /\ stops' = stops + 1
  /\ UNCHANGED <<mutex, sem, joinable, pc, msg, client, careful, starts, history>>
\* stop()
StopPush ==
  /\ Alive /\ opc = "idle" /\ stops < MaxStops
  /\ careful => joinable /\ \A c \in Clients : cpc[c] = "idle"
  /\ mutex = Free
  /\ queue' = Append(queue, nullopt)
  /\ opc' = "release" /\ stops' = stops + 1
  /\ UNCHANGED <<mutex, sem, joinable, pc, msg, client, careful, starts, history>>

\* Mutant: stop does not wake the thread.
StopReleaseForgets ==
  /\ Alive /\ opc = "release"
  /\ opc' = "join"
  /\ UNCHANGED <<mutex, sem, queue, joinable, pc, msg, client, careful, starts,
                 stops, history>>
StopRelease ==
  /\ Alive /\ opc = "release"
  /\ release
  /\ opc' = "join"
  /\ UNCHANGED <<mutex, queue, joinable, pc, msg, client, careful, starts, stops,
                 history>>

\* join() waits for the thread; with no thread it throws.
StopJoin ==
  /\ Alive /\ opc = "join"
  /\ joinable => pc = "done"
  /\ joinable' = FALSE
  /\ opc' = "idle"
  /\ UNCHANGED <<mutex, sem, queue, pc, msg, client, careful, starts, stops,
                 history>>
-----------------------------------------------------------------------------
\* service().  An exception of bind, at the start or after a failed send,
\* leaves the thread: std::terminate.
Bind ==
  /\ pc = "bind"
  /\ pc' \in {"wait", "terminated"}
  /\ UNCHANGED <<mutex, sem, queue, joinable, msg, client, owner, history>>

\* Mutants: acquire does not block; nor does it stop at zero.
AcquireTry ==
  /\ pc = "wait"
  /\ sem' = IF sem > 0 THEN sem - 1 ELSE 0
  /\ pc' = "take"
  /\ UNCHANGED <<mutex, queue, joinable, msg, client, owner, history>>
AcquireUnguarded ==
  /\ pc = "wait"
  /\ sem' = sem - 1
  /\ pc' = "take"
  /\ UNCHANGED <<mutex, queue, joinable, msg, client, owner, history>>
Acquire ==
  /\ pc = "wait" /\ sem > 0
  /\ sem' = sem - 1
  /\ pc' = "take"
  /\ UNCHANGED <<mutex, queue, joinable, msg, client, owner, history>>

\* Mutant: the message stays in the queue.
TakeKeeps ==
  /\ pc = "take" /\ mutex = Free /\ queue # <<>>
  /\ msg' = Head(queue)
  /\ pc' = IF Head(queue) = nullopt THEN "close" ELSE "send"
  /\ UNCHANGED <<mutex, sem, queue, joinable, client, owner, history>>
Take ==
  /\ pc = "take" /\ mutex = Free /\ queue # <<>>
  /\ msg' = Head(queue) /\ queue' = Tail(queue)
  /\ pc' = IF Head(queue) = nullopt THEN "close" ELSE "send"
  /\ UNCHANGED <<mutex, sem, joinable, client, owner, history>>

\* front() and pop() of an empty queue: undefined.
TakeNothing ==
  /\ pc = "take" /\ mutex = Free /\ queue = <<>>
  /\ pc' = "undefined"
  /\ UNCHANGED <<mutex, sem, queue, joinable, msg, client, owner, history>>

\* Mutant: an error leaves both loops.
PublishGivesUp ==
  /\ pc = "send"
  /\ offered' = Append(offered, msg)
  /\ pc' \in {"wait", "close"}
  /\ UNCHANGED <<mutex, sem, queue, joinable, msg, client, owner, accepted>>
\* The message is gone whether Pub::send threw or not; after an error the
\* thread sleeps and binds a new socket.
Publish ==
  /\ pc = "send"
  /\ offered' = Append(offered, msg)
  /\ pc' \in {"wait", "sleep"}
  /\ UNCHANGED <<mutex, sem, queue, joinable, msg, client, owner, accepted>>

Sleep ==
  /\ pc = "sleep"
  /\ pc' = "bind"
  /\ UNCHANGED <<mutex, sem, queue, joinable, msg, client, owner, history>>

Close ==
  /\ pc = "close"
  /\ pc' = "done"
  /\ UNCHANGED <<mutex, sem, queue, joinable, msg, client, owner, history>>
-----------------------------------------------------------------------------
Client(c) == SendPush(c) \/ SendRelease(c) \/ SendUnlock(c)
Stopping == StopRelease \/ StopJoin
Service == Bind \/ Acquire \/ Take \/ TakeNothing \/ Publish \/ Sleep \/ Close

\* The owner has used up its starts and joined the last thread, or, if it
\* was careless, used up its stops before; or the process is down.
Finished == /\ \/ ~Alive
               \/ /\ opc = "idle" /\ \A c \in Clients : cpc[c] = "idle"
                  /\ \/ starts = MaxStarts /\ ~joinable
                     \/ stops = MaxStops
            /\ UNCHANGED vars

Next == \/ \E c \in Clients : Client(c)
        \/ Start \/ StopPush \/ Stopping
        \/ Service
        \/ Finished

Spec == Init /\ [][Next]_vars

\* Every thread that can run does: the calls a thread is inside of make
\* progress, and so does service().  No call has to be made.
FairSpec == /\ Spec
            /\ WF_vars(Service) /\ WF_vars(Stopping)
            /\ \A c \in Clients : WF_vars(SendRelease(c) \/ SendUnlock(c))
-----------------------------------------------------------------------------
TypeOK ==
  /\ mutex \in Clients \cup {Free}
  /\ sem \in Nat
  /\ queue \in Seq(Message \cup {nullopt})
  /\ joinable \in BOOLEAN
  /\ pc \in {"none", "bind", "wait", "take", "send", "sleep", "close", "done",
             "terminated", "undefined"}
  /\ msg \in Message \cup {nullopt}
  /\ cpc \in [Clients -> {"idle", "release", "unlock"}]
  /\ sends \in [Clients -> 0 .. MaxSends]
  /\ opc \in {"idle", "release", "join"}
  /\ careful \in BOOLEAN /\ starts \in Nat /\ stops \in Nat
  /\ accepted \in Seq(Message) /\ offered \in Seq(Message)

\* Who has pushed but not yet raised the semaphore.
Pending == (IF mutex # Free /\ cpc[mutex] = "release" THEN 1 ELSE 0)
           + (IF opc = "release" THEN 1 ELSE 0)

\* All but InOrder is promised to a careful caller.

\* "The binary semaphore is used to flag when there are messages in the
\* queue" (pub_thread.h:122): every entry raised it, or its caller is about
\* to, and the thread owes at most the one it has woken up for; so it never
\* sleeps on a queue that holds something.
SemCounts ==
  careful => sem + Pending + (IF pc = "take" THEN 1 ELSE 0) = Len(queue)

\* waitForMessage "Waits for the producer thread to send a message" and
\* returns "The message on the queue" (pub_thread.h:69-72): it never wakes up
\* to an empty one, whoever the caller is.
Documented == pc # "undefined"

\* For a careful caller that holds: no wake-up of an earlier message or of an
\* earlier thread is left for an empty queue (pub_thread.h:60, 73-80).
NeverEmpty == careful => Documented

Messages(q) == Kept(q, {i \in DOMAIN q : q[i] # nullopt})

\* Messages reach the socket in the order of the calls that queued them, none
\* twice and none skipped (pub_thread.h:57-61, 73-80, 90-105).
InOrder ==
  offered \o (IF pc = "send" THEN <<msg>> ELSE <<>>) \o Messages(queue) = accepted

\* stop() returns only after every message queued before it was handed to the
\* socket (pub_thread.h:44-51, 93-98).
StopDrains == careful /\ ~joinable => offered = accepted

\* stop() returns, however many sends fail on the way, unless one of the binds
\* that follow them ends the process (pub_thread.h:44-51, 88-110).
StopReturns ==
  (careful /\ opc # "idle") ~> (opc = "idle" \/ pc = "terminated")

\* "If there is an error during send, recreate the socket after a delay"
\* (pub_thread.h:87): a failed send costs its own message and none of those
\* queued before or after it, during the delay included.  Each of them is
\* handed to a socket, and nothing but an exception of bind prevents it.
AllOffered ==
  \A m \in Message :
    (careful /\ m \in Range(accepted)) ~> (m \in Range(offered) \/ pc = "terminated")
=============================================================================
