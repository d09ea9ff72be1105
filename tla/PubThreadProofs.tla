--------------------------- MODULE PubThreadProofs ---------------------------
(***************************************************************************)
(* PubThread, for any number of clients, messages and restarts: a careful  *)
(* caller never makes the thread read an empty queue, the semaphore counts *)
(* the entries nobody has been woken for, and stop() drains the queue.     *)
(***************************************************************************)
EXTENDS PubThread, DataTheorems

Entry == Message \cup {nullopt}

\* A message is not the end mark, and a client is not the free mutex.
LEMMA Marks ==
  /\ nullopt \notin Message /\ Free \notin Clients
  /\ \A c \in Clients, n \in 0 .. MaxSends : <<c, n>> \in Message
  BY PubThreadAssumption DEF Message

-----------------------------------------------------------------------------
\* The thread is about to publish a message, never the end mark.
Taken == pc = "send" => msg \in Message

LEMMA TypeInit == Init => TypeOK /\ Taken
  <1> SUFFICES ASSUME Init PROVE TypeOK /\ Taken
    OBVIOUS
  <1>1. <<>> \in Seq(Message) /\ <<>> \in Seq(Message \cup {nullopt})
    OBVIOUS
  <1>2. careful \in BOOLEAN /\ 0 \in 0 .. MaxSends
    BY PubThreadAssumption DEF Init
  <1> QED BY <1>1, <1>2 DEF Init, TypeOK, Taken

LEMMA TypeStep == TypeOK /\ Taken /\ [Next]_vars => TypeOK' /\ Taken'
  <1> SUFFICES ASSUME TypeOK, Taken, [Next]_vars PROVE TypeOK' /\ Taken'
    OBVIOUS
  <1>1. ASSUME NEW c \in Clients, SendPush(c) PROVE TypeOK' /\ Taken'
    <2>1. sends[c] \in 0 .. MaxSends /\ sends[c] + 1 \in 0 .. MaxSends
      BY <1>1, PubThreadAssumption DEF SendPush, TypeOK
    <2>2. <<c, sends[c]>> \in Message
      BY <2>1, Marks
    <2>3. queue' \in Seq(Message \cup {nullopt}) /\ accepted' \in Seq(Message)
      BY <1>1, <2>2, Grow DEF SendPush, TypeOK
    <2>4. sends' \in [Clients -> 0 .. MaxSends]
          /\ cpc' \in [Clients -> {"idle", "release", "unlock"}]
      BY <1>1, <2>1 DEF SendPush, TypeOK
    <2> QED BY <1>1, <2>3, <2>4 DEF SendPush, TypeOK, Taken, owner
  <1>2. ASSUME NEW c \in Clients, SendRelease(c) PROVE TypeOK' /\ Taken'
    BY <1>2 DEF SendRelease, release, TypeOK, Taken, owner, history
  <1>3. ASSUME NEW c \in Clients, SendUnlock(c) PROVE TypeOK' /\ Taken'
    BY <1>3 DEF SendUnlock, TypeOK, Taken, owner, history
  <1>4. ASSUME Start PROVE TypeOK' /\ Taken'
    BY <1>4 DEF Start, TypeOK, Taken, client
  <1>5. ASSUME StopPush PROVE TypeOK' /\ Taken'
    <2>1. queue' \in Seq(Message \cup {nullopt})
      BY <1>5, Grow DEF StopPush, TypeOK
    <2> QED BY <1>5, <2>1 DEF StopPush, TypeOK, Taken, client, history
  <1>6. ASSUME StopRelease PROVE TypeOK' /\ Taken'
    BY <1>6 DEF StopRelease, release, TypeOK, Taken, client, history
  <1>7. ASSUME StopJoin PROVE TypeOK' /\ Taken'
    BY <1>7 DEF StopJoin, TypeOK, Taken, client, history
  <1>8. ASSUME Bind PROVE TypeOK' /\ Taken'
    BY <1>8 DEF Bind, TypeOK, Taken, client, owner, history
  <1>9. ASSUME Acquire PROVE TypeOK' /\ Taken'
    BY <1>9 DEF Acquire, TypeOK, Taken, client, owner, history
  <1>10. ASSUME Take PROVE TypeOK' /\ Taken'
    <2>1. queue \in Seq(Message \cup {nullopt}) /\ queue # <<>>
      BY <1>10 DEF Take, TypeOK
    <2>2. queue' \in Seq(Message \cup {nullopt}) /\ msg' \in Message \cup {nullopt}
      BY <1>10, <2>1, Shrink DEF Take
    <2>3. /\ pc' \in {"send", "close"}
          /\ pc' = "send" => msg' # nullopt
      BY <1>10 DEF Take
    <2> QED BY <1>10, <2>2, <2>3 DEF Take, TypeOK, Taken, client, owner, history
  <1>11. ASSUME TakeNothing PROVE TypeOK' /\ Taken'
    BY <1>11 DEF TakeNothing, TypeOK, Taken, client, owner, history
  <1>12. ASSUME Publish PROVE TypeOK' /\ Taken'
    <2>1. offered' \in Seq(Message)
      BY <1>12, Grow DEF Publish, TypeOK, Taken
    <2> QED BY <1>12, <2>1 DEF Publish, TypeOK, Taken, client, owner
  <1>13. ASSUME Sleep PROVE TypeOK' /\ Taken'
    BY <1>13 DEF Sleep, TypeOK, Taken, client, owner, history
  <1>14. ASSUME Close PROVE TypeOK' /\ Taken'
    BY <1>14 DEF Close, TypeOK, Taken, client, owner, history
  <1>15. CASE UNCHANGED vars
    BY <1>15 DEF vars, TypeOK, Taken, client, owner, history
  <1> QED BY <1>1, <1>2, <1>3, <1>4, <1>5, <1>6, <1>7, <1>8, <1>9, <1>10, <1>11,
             <1>12, <1>13, <1>14, <1>15
          DEF Next, Client, Stopping, Service, Finished

\* Every variable keeps its type: the thread hands the socket a message and
\* never the mark of stop() (pub_thread.h:84-104).
THEOREM TypeInvariant == Spec => []TypeOK
  BY TypeInit, TypeStep, PTL DEF Spec

-----------------------------------------------------------------------------
\* Who is inside send() holds the mutex, and nobody else does.
Locked == \A c \in Clients : (cpc[c] # "idle") <=> (mutex = c)

\* Where a careful caller can find the thread, and where the end mark is:
\* outside stop() the queue has none; inside, it is the last entry, until the
\* thread takes it.
Idle == ~joinable =>
          opc = "idle" /\ mutex = Free /\ queue = <<>> /\ pc \in {"none", "done"}
Running == joinable /\ opc = "idle" =>
             /\ pc \notin {"none", "close", "done"}
             /\ \A i \in 1 .. Len(queue) : queue[i] # nullopt
Ending == opc # "idle" =>
            /\ mutex = Free /\ pc # "none"
            /\ pc \in {"close", "done"} => queue = <<>> /\ opc = "join"
            /\ pc \notin {"close", "done"} =>
                 /\ queue # <<>>
                 /\ \A i \in 1 .. Len(queue) :
                      (queue[i] = nullopt) <=> (i = Len(queue))
Up == pc # "undefined"

CarefulUse == careful => Idle /\ Running /\ Ending /\ Up

Inv == TypeOK /\ Taken /\ Locked /\ SemCounts /\ CarefulUse

LEMMA LockedStep == TypeOK /\ Locked /\ [Next]_vars => Locked'
  <1> SUFFICES ASSUME TypeOK, Locked, [Next]_vars PROVE Locked'
    OBVIOUS
  <1>1. ASSUME NEW c \in Clients, SendPush(c) PROVE Locked'
    BY <1>1, Marks DEF SendPush, TypeOK, Locked
  <1>2. ASSUME NEW c \in Clients, SendRelease(c) PROVE Locked'
    BY <1>2 DEF SendRelease, TypeOK, Locked
  <1>3. ASSUME NEW c \in Clients, SendUnlock(c) PROVE Locked'
    BY <1>3, Marks DEF SendUnlock, TypeOK, Locked
  <1>4. ASSUME UNCHANGED <<mutex, cpc>> PROVE Locked'
    BY <1>4 DEF Locked
  <1>5. CASE Start \/ StopPush \/ Stopping
    BY <1>4, <1>5 DEF Start, StopPush, Stopping, StopRelease, StopJoin, client
  <1>6. CASE Service
    BY <1>4, <1>6 DEF Service, Bind, Acquire, Take, TakeNothing, Publish, Sleep,
                      Close, client
  <1>7. CASE Finished \/ UNCHANGED vars
    BY <1>4, <1>7 DEF Finished, vars, client
  <1> QED BY <1>1, <1>2, <1>3, <1>5, <1>6, <1>7 DEF Next, Client

LEMMA CarefulInit == Init => Locked /\ SemCounts /\ CarefulUse
  <1> SUFFICES ASSUME Init PROVE Locked /\ SemCounts /\ CarefulUse
    OBVIOUS
  <1>1. Locked
    BY Marks DEF Init, Locked
  <1>2. SemCounts
    BY DEF Init, SemCounts, Pending
  <1>3. CarefulUse
    BY DEF Init, CarefulUse, Idle, Running, Ending, Up
  <1> QED BY <1>1, <1>2, <1>3

\* Nobody turns careful, or careless.
LEMMA SameCaller == [Next]_vars => careful' = careful
  <1> SUFFICES ASSUME [Next]_vars PROVE careful' = careful
    OBVIOUS
  <1>1. ASSUME UNCHANGED owner PROVE careful' = careful
    BY <1>1 DEF owner
  <1>2. CASE \E c \in Clients : Client(c)
    BY <1>1, <1>2 DEF Client, SendPush, SendRelease, SendUnlock
  <1>3. CASE Start \/ StopPush \/ Stopping
    BY <1>3 DEF Start, StopPush, Stopping, StopRelease, StopJoin
  <1>4. CASE Service
    BY <1>1, <1>4 DEF Service, Bind, Acquire, Take, TakeNothing, Publish, Sleep,
                      Close
  <1>5. CASE Finished \/ UNCHANGED vars
    BY <1>1, <1>5 DEF Finished, vars
  <1> QED BY <1>2, <1>3, <1>4, <1>5 DEF Next

LEMMA CarefulStep == Inv /\ Locked' /\ [Next]_vars => SemCounts' /\ CarefulUse'
  <1> SUFFICES ASSUME Inv, Locked', [Next]_vars, careful
               PROVE  SemCounts' /\ CarefulUse'
    BY SameCaller DEF SemCounts, CarefulUse
  <1>0. /\ queue \in Seq(Message \cup {nullopt}) /\ sem \in Nat
        /\ sem + Pending + (IF pc = "take" THEN 1 ELSE 0) = Len(queue)
        /\ Len(queue) \in Nat /\ Pending \in 0 .. 2
        /\ Idle /\ Running /\ Ending /\ Up /\ Locked /\ TypeOK
    <2>1. Pending \in 0 .. 2
      BY DEF Pending
    <2> QED BY <2>1 DEF Inv, TypeOK, SemCounts, CarefulUse
  <1> DEFINE Stays == SemCounts' /\ Idle' /\ Running' /\ Ending' /\ Up'
  <1>c. Stays => SemCounts' /\ CarefulUse'
    BY DEF CarefulUse
  <1>s. (sem' + Pending' + (IF pc' = "take" THEN 1 ELSE 0) = Len(queue')) => SemCounts'
    BY DEF SemCounts
  <1>1. ASSUME NEW c \in Clients, SendPush(c) PROVE Stays
    <2>1. joinable /\ opc = "idle" /\ mutex = Free /\ Free # c
      BY <1>1, Marks DEF SendPush
    <2>2. sends[c] \in 0 .. MaxSends
      BY <1>0 DEF TypeOK
    <2>3. <<c, sends[c]>> \in Message /\ <<c, sends[c]>> # nullopt
      BY <2>2, Marks
    <2>4. /\ Len(queue') = Len(queue) + 1 /\ queue'[Len(queue) + 1] # nullopt
          /\ \A i \in 1 .. Len(queue) : queue'[i] = queue[i]
      BY <1>1, <2>3, <1>0, Grow DEF SendPush
    <2>5. Pending = 0 /\ Pending' = 1
      BY <1>1, <1>0, <2>1 DEF SendPush, Pending, TypeOK, owner
    <2>6. SemCounts'
      BY <1>1, <1>0, <1>s, <2>4, <2>5 DEF SendPush
    <2>7. Running'
      BY <1>1, <1>0, <2>1, <2>4 DEF SendPush, Running, owner
    <2> QED BY <1>1, <1>0, <2>1, <2>6, <2>7 DEF SendPush, Idle, Ending, Up, owner
  <1>2. ASSUME NEW c \in Clients, SendRelease(c) PROVE Stays
    <2>1. mutex = c /\ c # Free /\ opc = "idle"
      BY <1>2, <1>0, Marks DEF SendRelease, Locked, Ending
    <2>2. Pending = 1 /\ Pending' = 0
      BY <1>2, <1>0, <2>1 DEF SendRelease, Pending, TypeOK, owner
    <2>3. SemCounts'
      BY <1>2, <1>0, <1>s, <2>2 DEF SendRelease, release
    <2> QED BY <1>2, <1>0, <2>1, <2>3
            DEF SendRelease, Idle, Running, Ending, Up, owner
  <1>3. ASSUME NEW c \in Clients, SendUnlock(c) PROVE Stays
    <2>1. mutex = c /\ c # Free /\ opc = "idle"
      BY <1>3, <1>0, Marks DEF SendUnlock, Locked, Ending
    <2>2. Pending = 0 /\ Pending' = 0
      BY <1>3, <1>0, <2>1 DEF SendUnlock, Pending, TypeOK, owner
    <2>3. SemCounts'
      BY <1>3, <1>0, <1>s, <2>2 DEF SendUnlock
    <2> QED BY <1>3, <1>0, <2>1, <2>3
            DEF SendUnlock, Idle, Running, Ending, Up, owner
  <1>4. ASSUME Start PROVE Stays
    <2>1. opc = "idle" /\ mutex = Free /\ queue = <<>> /\ pc \in {"none", "done"}
      BY <1>4, <1>0 DEF Start, Idle
    <2>2. Pending = 0 /\ Pending' = 0
      BY <1>4, <2>1 DEF Start, Pending, client
    <2>3. SemCounts'
      BY <1>4, <1>0, <1>s, <2>1, <2>2 DEF Start
    <2> QED BY <1>4, <2>1, <2>3 DEF Start, Idle, Running, Ending, Up
  <1>5. ASSUME StopPush PROVE Stays
    <2>1. joinable /\ opc = "idle" /\ mutex = Free /\ opc' = "release"
      BY <1>5 DEF StopPush
    <2>2. /\ Len(queue') = Len(queue) + 1 /\ queue'[Len(queue) + 1] = nullopt
          /\ queue' # <<>>
          /\ \A i \in 1 .. Len(queue) : queue'[i] = queue[i]
      BY <1>5, <1>0, Grow DEF StopPush
    <2>3. Pending = 0 /\ Pending' = 1
      BY <1>5, <2>1 DEF StopPush, Pending, client
    <2>4. SemCounts'
      BY <1>5, <1>0, <1>s, <2>2, <2>3 DEF StopPush
    <2>5. \A i \in 1 .. Len(queue') : (queue'[i] = nullopt) <=> (i = Len(queue'))
      BY <1>0, <2>1, <2>2 DEF Running
    <2>6. pc \notin {"none", "close", "done"} /\ pc' = pc
      BY <1>5, <1>0, <2>1 DEF Running, StopPush
    <2> QED BY <1>5, <1>0, <2>1, <2>2, <2>4, <2>5, <2>6
            DEF StopPush, Idle, Running, Ending, Up
  <1>6. ASSUME StopRelease PROVE Stays
    <2>1. opc = "release" /\ opc' = "join" /\ mutex = Free
      BY <1>6, <1>0 DEF StopRelease, Ending
    <2>2. Pending = 1 /\ Pending' = 0
      BY <1>6, <2>1 DEF StopRelease, Pending, client
    <2>3. SemCounts'
      BY <1>6, <1>0, <1>s, <2>2 DEF StopRelease, release
    <2> QED BY <1>6, <1>0, <2>1, <2>3
            DEF StopRelease, Idle, Running, Ending, Up
  <1>7. ASSUME StopJoin PROVE Stays
    <2>1. opc = "join" /\ opc' = "idle" /\ mutex = Free /\ joinable /\ pc = "done"
          /\ queue = <<>>
      BY <1>7, <1>0 DEF StopJoin, Ending, Idle
    <2>2. Pending = 0 /\ Pending' = 0
      BY <1>7, <2>1 DEF StopJoin, Pending, client
    <2>3. SemCounts'
      BY <1>7, <1>0, <1>s, <2>2 DEF StopJoin
    <2> QED BY <1>7, <1>0, <2>1, <2>3
            DEF StopJoin, Idle, Running, Ending, Up
  <1>8. ASSUME UNCHANGED <<mutex, cpc, opc>> PROVE Pending' = Pending
    BY <1>8 DEF Pending
  <1>9. ASSUME Bind PROVE Stays
    <2>1. pc = "bind" /\ pc' \in {"wait", "terminated"} /\ Pending' = Pending
      BY <1>9, <1>8 DEF Bind, client, owner
    <2>2. SemCounts'
      BY <1>9, <1>0, <1>s, <2>1 DEF Bind
    <2> QED BY <1>9, <1>0, <2>1, <2>2
            DEF Bind, Idle, Running, Ending, Up, owner
  <1>10. ASSUME Acquire PROVE Stays
    <2>1. pc = "wait" /\ pc' = "take" /\ Pending' = Pending
      BY <1>10, <1>8 DEF Acquire, client, owner
    <2>2. SemCounts'
      BY <1>10, <1>0, <1>s, <2>1 DEF Acquire
    <2> QED BY <1>10, <1>0, <2>1, <2>2
            DEF Acquire, Idle, Running, Ending, Up, owner
  <1>11. ASSUME Take PROVE Stays
    <2>1. /\ pc = "take" /\ mutex = Free /\ queue # <<>> /\ queue' = Tail(queue)
          /\ pc' = IF queue[1] = nullopt THEN "close" ELSE "send"
          /\ Pending' = Pending
      BY <1>11, <1>8, <1>0, Shrink DEF Take, client, owner
    <2>2. /\ Len(queue') = Len(queue) - 1 /\ Len(queue) \in Nat \ {0}
          /\ queue' \in Seq(Message \cup {nullopt})
          /\ \A i \in 1 .. Len(queue) - 1 : queue'[i] = queue[i + 1]
      BY <1>0, <2>1, Shrink
    <2>3. SemCounts'
      <3>1. sem' = sem /\ pc' # "take"
        BY <1>11, <2>1 DEF Take
      <3> QED BY <1>0, <1>s, <2>1, <2>2, <3>1
    <2>4. joinable /\ joinable' = joinable /\ opc' = opc /\ mutex' = mutex
      BY <1>11, <1>0, <2>1 DEF Take, Idle, owner
    <2>5. CASE opc = "idle"
      <3>1. \A i \in 1 .. Len(queue) : queue[i] # nullopt
        BY <1>0, <2>4, <2>5 DEF Running
      <3>2. pc' = "send"
        BY <2>1, <2>2, <3>1
      <3>3. \A i \in 1 .. Len(queue') : queue'[i] # nullopt
        BY <2>2, <3>1
      <3> QED BY <2>3, <2>4, <2>5, <3>2, <3>3 DEF Idle, Running, Ending, Up
    <2>6. CASE opc # "idle"
      <3>1. \A i \in 1 .. Len(queue) : (queue[i] = nullopt) <=> (i = Len(queue))
        BY <1>0, <2>1, <2>6 DEF Ending
      <3>2. CASE Len(queue) = 1
        <4>1. Pending = 0
          BY <1>0, <2>1, <3>2 DEF Pending
        <4>2. opc = "join"
          BY <1>0, <2>1, <2>6, <4>1 DEF Pending, TypeOK
        <4>3. pc' = "close" /\ queue' = <<>>
          BY <2>1, <2>2, <3>1, <3>2
        <4> QED BY <2>1, <2>3, <2>4, <2>6, <4>2, <4>3 DEF Idle, Running, Ending, Up
      <3>3. CASE Len(queue) # 1
        <4>1. 1 \in 1 .. Len(queue) /\ 1 # Len(queue)
          BY <2>2, <3>3
        <4>4. pc' = "send"
          BY <2>1, <3>1, <4>1
        <4>2. queue' # <<>>
          BY <2>2, <3>3
        <4>3. \A i \in 1 .. Len(queue') : (queue'[i] = nullopt) <=> (i = Len(queue'))
          BY <2>2, <3>1, <3>3
        <4> QED BY <2>1, <2>3, <2>4, <2>6, <4>4, <4>2, <4>3
                DEF Idle, Running, Ending, Up
      <3> QED BY <3>2, <3>3
    <2> QED BY <2>5, <2>6
  <1>12. ASSUME TakeNothing PROVE FALSE
    <2>1. Len(queue) = 0 /\ pc = "take" /\ Pending \in Nat
      BY <1>12 DEF TakeNothing, Pending
    <2> QED BY <1>0, <2>1
  <1>13. ASSUME Publish PROVE Stays
    <2>1. pc = "send" /\ pc' \in {"wait", "sleep"} /\ Pending' = Pending
      BY <1>13, <1>8 DEF Publish, client, owner
    <2>2. SemCounts'
      BY <1>13, <1>0, <1>s, <2>1 DEF Publish
    <2> QED BY <1>13, <1>0, <2>1, <2>2
            DEF Publish, Idle, Running, Ending, Up, owner
  <1>14. ASSUME Sleep PROVE Stays
    <2>1. pc = "sleep" /\ pc' = "bind" /\ Pending' = Pending
      BY <1>14, <1>8 DEF Sleep, client, owner
    <2>2. SemCounts'
      BY <1>14, <1>0, <1>s, <2>1 DEF Sleep
    <2> QED BY <1>14, <1>0, <2>1, <2>2
            DEF Sleep, Idle, Running, Ending, Up, owner
  <1>15. ASSUME Close PROVE Stays
    <2>1. pc = "close" /\ pc' = "done" /\ Pending' = Pending
      BY <1>15, <1>8 DEF Close, client, owner
    <2>2. SemCounts'
      BY <1>15, <1>0, <1>s, <2>1 DEF Close
    <2> QED BY <1>15, <1>0, <2>1, <2>2
            DEF Close, Idle, Running, Ending, Up, owner
  <1>16. CASE UNCHANGED vars
    <2>1. SemCounts'
      BY <1>16, <1>0, <1>s, <1>8 DEF vars, client, owner
    <2> QED BY <1>16, <1>0, <1>c, <2>1
            DEF vars, Idle, Running, Ending, Up, client, owner
  <1> QED BY <1>c, <1>1, <1>2, <1>3, <1>4, <1>5, <1>6, <1>7, <1>9, <1>10, <1>11,
             <1>12, <1>13, <1>14, <1>15, <1>16
          DEF Next, Client, Stopping, Service, Finished

LEMMA CarefulInvariant == Spec => []Inv
  <1>1. Inv /\ [Next]_vars => Inv'
    BY TypeStep, LockedStep, CarefulStep DEF Inv
  <1>2. Init => Inv
    BY TypeInit, CarefulInit DEF Inv
  <1> QED BY <1>1, <1>2, PTL DEF Spec

\* The semaphore counts the entries that nobody has been woken for, although it
\* is raised inside the critical section of send() and after the one of
\* stop() (pub_thread.h:44-61, 69-80).
THEOREM SemaphoreInvariant == Spec => []SemCounts
  BY CarefulInvariant, PTL DEF Inv

\* A thread that was woken finds a message, in every interleaving and across
\* restarts (pub_thread.h:73-80).
THEOREM QueueNeverEmpty == Spec => []NeverEmpty
  <1>1. Inv => NeverEmpty
    BY DEF Inv, CarefulUse, Up, NeverEmpty, Documented
  <1> QED BY <1>1, CarefulInvariant, PTL

-----------------------------------------------------------------------------
\* Where the accepted messages are: the first ones offered to the socket, one
\* perhaps in the hands of the thread, the others in the queue, in order.
Before == Len(offered) + (IF pc = "send" THEN 1 ELSE 0)
Mark == IF opc # "idle" /\ pc \notin {"close", "done"} THEN 1 ELSE 0
Placed == /\ Len(accepted) = Before + Len(queue) - Mark
          /\ \A i \in 1 .. Len(offered) : accepted[i] = offered[i]
          /\ pc = "send" => accepted[Before] = msg
          /\ \A i \in 1 .. Len(queue) :
               queue[i] # nullopt => accepted[Before + i] = queue[i]
Accounted == careful => Placed

LEMMA AccountedInit == Init => Accounted
  BY DEF Init, Accounted, Placed, Before, Mark

LEMMA AccountedStep == Inv /\ Accounted /\ [Next]_vars => Accounted'
  <1> SUFFICES ASSUME Inv, Placed, [Next]_vars, careful PROVE Placed'
    BY SameCaller DEF Accounted
  <1>0. /\ queue \in Seq(Message \cup {nullopt})
        /\ accepted \in Seq(Message) /\ offered \in Seq(Message)
        /\ Len(queue) \in Nat /\ Len(accepted) \in Nat /\ Len(offered) \in Nat
        /\ Mark \in {0, 1} /\ Before \in Nat
        /\ Before = Len(offered) \/ Before = Len(offered) + 1
        /\ Idle /\ Running /\ Ending /\ TypeOK
    BY DEF Inv, TypeOK, CarefulUse, Mark, Before
  <1>a. ASSUME UNCHANGED <<queue, msg, history>>,
               (pc = "send") <=> (pc' = "send"), Mark' = Mark
        PROVE  Placed'
    <2>1. Before' = Before
      BY <1>a DEF Before, history
    <2> QED BY <1>a, <2>1 DEF Placed, history
  <1>1. ASSUME NEW c \in Clients, SendPush(c) PROVE Placed'
    <2> DEFINE m == <<c, sends[c]>>
    <2>1. m \in Message
      BY <1>0, Marks DEF TypeOK
    <2>2. /\ queue' = Append(queue, m) /\ accepted' = Append(accepted, m)
          /\ offered' = offered /\ pc' = pc /\ msg' = msg /\ opc' = opc
      BY <1>1 DEF SendPush, owner
    <2>3. Mark = 0 /\ Mark' = 0 /\ Before' = Before
      BY <1>1, <1>0, <2>2 DEF SendPush, Mark, Before
    <2> HIDE DEF m
    <2>4. /\ Len(queue') = Len(queue) + 1 /\ queue'[Len(queue) + 1] = m
          /\ \A i \in 1 .. Len(queue) : queue'[i] = queue[i]
      BY <1>0, <2>1, <2>2, Grow
    <2>5. /\ Len(accepted') = Len(accepted) + 1 /\ accepted'[Len(accepted) + 1] = m
          /\ \A i \in 1 .. Len(accepted) : accepted'[i] = accepted[i]
      BY <1>0, <2>1, <2>2, Grow
    <2>6. Len(accepted) = Before + Len(queue)
      BY <1>0, <2>3 DEF Placed
    <2>7. Len(accepted') = Before' + Len(queue') - Mark'
      BY <1>0, <2>3, <2>4, <2>5, <2>6
    <2>8. \A i \in 1 .. Len(offered') : accepted'[i] = offered'[i]
      BY <1>0, <2>2, <2>5, <2>6 DEF Placed
    <2>9. pc' = "send" => accepted'[Before'] = msg'
      <3>1. pc = "send" => Before \in 1 .. Len(accepted)
        BY <1>0, <2>6 DEF Before
      <3> QED BY <2>2, <2>3, <2>5, <3>1 DEF Placed
    <2>10. \A i \in 1 .. Len(queue') :
             queue'[i] # nullopt => accepted'[Before' + i] = queue'[i]
      <3> TAKE i \in 1 .. Len(queue')
      <3>1. CASE i = Len(queue) + 1
        BY <1>0, <2>3, <2>4, <2>5, <2>6, <3>1
      <3>2. CASE i # Len(queue) + 1
        <4>1. i \in 1 .. Len(queue) /\ Before + i \in 1 .. Len(accepted)
          BY <1>0, <2>4, <2>6, <3>2
        <4> QED BY <2>3, <2>4, <2>5, <4>1 DEF Placed
      <3> QED BY <3>1, <3>2
    <2> QED BY <2>7, <2>8, <2>9, <2>10 DEF Placed
  <1>2. ASSUME NEW c \in Clients, SendRelease(c) \/ SendUnlock(c) PROVE Placed'
    BY <1>2, <1>a DEF SendRelease, SendUnlock, Mark, owner
  <1>3. ASSUME Start PROVE Placed'
    BY <1>3 DEF Start, Placed, Before, Mark
  <1>4. ASSUME StopPush PROVE Placed'
    <2>1. /\ queue' = Append(queue, nullopt) /\ accepted' = accepted
          /\ offered' = offered /\ pc' = pc /\ msg' = msg
          /\ opc = "idle" /\ opc' = "release" /\ joinable
      BY <1>4 DEF StopPush, history
    <2>2. Mark = 0 /\ Mark' = 1 /\ Before' = Before
      BY <1>0, <2>1 DEF Running, Mark, Before
    <2>3. /\ Len(queue') = Len(queue) + 1 /\ queue'[Len(queue) + 1] = nullopt
          /\ \A i \in 1 .. Len(queue) : queue'[i] = queue[i]
      BY <1>0, <2>1, Grow
    <2>4. Len(accepted') = Before' + Len(queue') - Mark'
      BY <1>0, <2>1, <2>2, <2>3 DEF Placed
    <2>5. \A i \in 1 .. Len(queue') :
            queue'[i] # nullopt => accepted'[Before' + i] = queue'[i]
      BY <1>0, <2>1, <2>2, <2>3 DEF Placed
    <2> QED BY <2>1, <2>2, <2>4, <2>5 DEF Placed
  <1>5. ASSUME StopRelease PROVE Placed'
    BY <1>5, <1>a DEF StopRelease, Mark
  <1>6. ASSUME StopJoin PROVE Placed'
    <2>1. pc = "done" /\ pc' = "done"
      BY <1>6, <1>0 DEF StopJoin, Idle
    <2> QED BY <1>6, <1>a, <2>1 DEF StopJoin, Mark
  <1>7. ASSUME Bind \/ Acquire \/ Sleep \/ Close PROVE Placed'
    BY <1>7, <1>a DEF Bind, Acquire, Sleep, Close, Mark, owner
  <1>8. ASSUME Take PROVE Placed'
    <2>1. /\ pc = "take" /\ queue # <<>> /\ queue' = Tail(queue) /\ msg' = queue[1]
          /\ pc' = IF queue[1] = nullopt THEN "close" ELSE "send"
          /\ accepted' = accepted /\ offered' = offered /\ opc' = opc
          /\ joinable
      BY <1>8, <1>0, Shrink DEF Take, owner, history, Idle
    <2>2. /\ Len(queue') = Len(queue) - 1 /\ Len(queue) \in Nat \ {0}
          /\ \A i \in 1 .. Len(queue) - 1 : queue'[i] = queue[i + 1]
      BY <1>0, <2>1, Shrink
    <2>3. Before = Len(offered) /\ 1 \in 1 .. Len(queue)
      BY <1>0, <2>1, <2>2 DEF Before
    <2>4. CASE queue[1] = nullopt
      <3>1. opc # "idle"
        BY <1>0, <2>1, <2>3, <2>4 DEF Running
      <3>2. Len(queue) = 1
        BY <1>0, <2>1, <2>3, <2>4, <3>1 DEF Ending
      <3>3. Mark = 1 /\ Mark' = 0 /\ Before' = Before /\ pc' = "close"
        BY <1>0, <2>1, <2>4, <3>1 DEF Mark, Before
      <3> QED BY <1>0, <2>1, <2>2, <3>2, <3>3 DEF Placed
    <2>5. CASE queue[1] # nullopt
      <3>1. Mark' = Mark /\ Before' = Before + 1 /\ pc' = "send"
        BY <1>0, <2>1, <2>3, <2>5 DEF Mark, Before
      <3>2. accepted[Before + 1] = queue[1]
        BY <2>3, <2>5 DEF Placed
      <3>3. \A i \in 1 .. Len(queue') :
              queue'[i] # nullopt => accepted'[Before' + i] = queue'[i]
        <4> TAKE i \in 1 .. Len(queue')
        <4>0. i \in 1 .. Len(queue) - 1
          BY <2>2
        <4>1. i + 1 \in 1 .. Len(queue) /\ queue'[i] = queue[i + 1]
          BY <2>2, <4>0
        <4>2. Before' + i = Before + (i + 1)
          BY <1>0, <3>1, <4>0
        <4> QED BY <2>1, <4>1, <4>2 DEF Placed
      <3>4. Len(accepted') = Before' + Len(queue') - Mark'
        <4>1. Len(accepted) = Before + Len(queue) - Mark
          BY DEF Placed
        <4>2. Len(accepted') = Len(accepted) /\ Len(queue') = Len(queue) - 1
          BY <2>1, <2>2
        <4>3. Before \in Nat /\ Len(queue) \in Nat /\ Mark \in {0, 1}
          BY <1>0
        <4> QED BY <3>1, <4>1, <4>2, <4>3
      <3> QED BY <2>1, <3>1, <3>2, <3>3, <3>4 DEF Placed
    <2> QED BY <2>4, <2>5
  <1>9. ASSUME TakeNothing PROVE Placed'
    BY <1>9, <1>a DEF TakeNothing, Mark, owner
  <1>10. ASSUME Publish PROVE Placed'
    <2>1. /\ pc = "send" /\ pc' \in {"wait", "sleep"} /\ opc' = opc /\ queue' = queue
          /\ offered' = Append(offered, msg) /\ accepted' = accepted
      BY <1>10 DEF Publish, owner
    <2>2. msg \in Message
      BY <2>1 DEF Inv, Taken
    <2>3. /\ Len(offered') = Len(offered) + 1 /\ offered'[Len(offered) + 1] = msg
          /\ \A i \in 1 .. Len(offered) : offered'[i] = offered[i]
      BY <1>0, <2>1, <2>2, Grow
    <2>4. Before = Len(offered) + 1 /\ Before' = Before /\ Mark' = Mark
      BY <1>0, <2>1, <2>3 DEF Before, Mark
    <2>5. \A i \in 1 .. Len(offered') : accepted'[i] = offered'[i]
      <3> TAKE i \in 1 .. Len(offered')
      <3>1. i \in 1 .. Len(offered) \/ i = Before
        BY <1>0, <2>3, <2>4
      <3> QED BY <2>1, <2>3, <2>4, <3>1 DEF Placed
    <2> QED BY <2>1, <2>4, <2>5 DEF Placed
  <1>11. CASE UNCHANGED vars
    BY <1>11, <1>a DEF vars, Mark, owner
  <1> QED BY <1>1, <1>2, <1>3, <1>4, <1>5, <1>6, <1>7, <1>8, <1>9, <1>10, <1>11
          DEF Next, Client, Stopping, Service, Finished

\* When stop() has returned, the messages handed to the socket are exactly
\* those that send() had queued since start(), in that order
\* (pub_thread.h:44-51, 93-98).
THEOREM StopDrainsQueue == Spec => []StopDrains
  <1>1. Inv /\ Accounted => StopDrains
    <2> SUFFICES ASSUME Inv, Placed, careful, ~joinable PROVE offered = accepted
      BY DEF Accounted, StopDrains
    <2>1. /\ opc = "idle" /\ queue = <<>> /\ pc \in {"none", "done"}
          /\ offered \in Seq(Message) /\ accepted \in Seq(Message)
      BY DEF Inv, CarefulUse, Idle, TypeOK
    <2>2. Len(accepted) = Len(offered)
      BY <2>1 DEF Placed, Before, Mark
    <2>3. \A i \in 1 .. Len(offered) : accepted[i] = offered[i]
      BY DEF Placed
    <2> QED BY <2>1, <2>2, <2>3
  <1> QED BY <1>1, CarefulInvariant, AccountedInit, AccountedStep, PTL DEF Spec

-----------------------------------------------------------------------------
(* The order of the messages, for every caller.                            *)

\* A queued message comes behind the queued ones; the end mark is none.
LEMMA MessagesAppend ==
  ASSUME NEW q \in Seq(Entry), NEW e \in Entry
  PROVE  Messages(Append(q, e)) =
           IF e = nullopt THEN Messages(q) ELSE Append(Messages(q), e)
  <1> DEFINE t == Append(q, e)
             I == {i \in DOMAIN t : t[i] # nullopt}
             J == {i \in DOMAIN q : q[i] # nullopt}
  <1>1. /\ t \in Seq(Entry) /\ Len(t) = Len(q) + 1 /\ t[Len(q) + 1] = e
        /\ \A i \in 1 .. Len(q) : t[i] = q[i]
        /\ DOMAIN t = 1 .. Len(q) + 1 /\ DOMAIN q = 1 .. Len(q) /\ Len(q) \in Nat
    BY Grow
  <1> HIDE DEF t
  <1>2. \A i \in 1 .. Len(q) : i \in I <=> i \in J
    BY <1>1
  <1>3. Len(q) + 1 \in I <=> e # nullopt
    BY <1>1
  <1> HIDE DEF I, J
  <1>4. Kept(t, I) = IF Len(q) + 1 \in I THEN Append(Kept(q, I), e) ELSE Kept(q, I)
    BY KeptAppend DEF t
  <1>5. Kept(q, I) = Kept(q, J)
    BY <1>2, KeptSame
  <1>6. Messages(t) = Kept(t, I) /\ Messages(q) = Kept(q, J)
    BY DEF Messages, I, J
  <1> QED BY <1>3, <1>4, <1>5, <1>6 DEF t

\* What is taken off the queue was its first message, or the end mark.
LEMMA MessagesTail ==
  ASSUME NEW q \in Seq(Entry), q # <<>>
  PROVE  Messages(q) =
           Joint(IF Head(q) = nullopt THEN <<>> ELSE <<Head(q)>>, Messages(Tail(q)))
  <1> DEFINE t == Tail(q)
             I == {i \in DOMAIN q : q[i] # nullopt}
             J == {i \in DOMAIN t : t[i] # nullopt}
  <1>1. /\ t \in Seq(Entry) /\ Len(t) = Len(q) - 1 /\ Head(q) = q[1]
        /\ \A i \in 1 .. Len(q) - 1 : t[i] = q[i + 1]
        /\ DOMAIN q = 1 .. Len(q) /\ DOMAIN t = 1 .. Len(q) - 1
        /\ Len(q) \in Nat \ {0}
    BY Shrink
  <1> HIDE DEF t
  <1>2. \A i \in 1 .. Len(q) - 1 : i \in J <=> i + 1 \in I
    BY <1>1
  <1>3. 1 \in I <=> Head(q) # nullopt
    BY <1>1
  <1> HIDE DEF I, J
  <1>4. Kept(q, I) = Joint(IF 1 \in I THEN <<Head(q)>> ELSE <<>>, Kept(t, J))
    BY <1>2, KeptTail DEF t
  <1>5. Messages(q) = Kept(q, I) /\ Messages(t) = Kept(t, J)
    BY DEF Messages, I, J
  <1> QED BY <1>3, <1>4, <1>5 DEF t

\* The messages sent, the one in hand and those in the queue, in a row.
Row(sent, hand, waiting) == sent \o hand \o waiting
Hand == IF pc = "send" THEN <<msg>> ELSE <<>>

LEMMA RowQueued ==
  ASSUME NEW S, NEW a \in Seq(S), NEW b \in Seq(S), NEW c \in Seq(S), NEW e \in S
  PROVE  Row(a, b, Append(c, e)) = Append(Row(a, b, c), e)
  BY DEF Row

LEMMA RowTaken ==
  ASSUME NEW S, NEW a \in Seq(S), NEW c \in Seq(S), NEW h \in Seq(S)
  PROVE  Row(a, <<>>, Joint(h, c)) = Row(a, h, c)
  BY DEF Row, Joint

LEMMA RowSent ==
  ASSUME NEW S, NEW a \in Seq(S), NEW c \in Seq(S), NEW e \in S
  PROVE  Row(Append(a, e), <<>>, c) = Row(a, <<e>>, c)
  BY DEF Row

LEMMA RowNothing == Row(<<>>, <<>>, <<>>) = <<>>
  BY DEF Row

LEMMA InOrderRow == InOrder <=> Row(offered, Hand, Messages(queue)) = accepted
  BY DEF InOrder, Row, Hand

LEMMA MessagesSeq == \A q \in Seq(Entry) : Messages(q) \in Seq(Entry)
  BY KeptSeq DEF Messages

LEMMA MessagesNone == Messages(<<>>) = <<>>
  BY KeptEmpty DEF Messages

LEMMA InOrderInit == Init => InOrder
  BY InOrderRow, RowNothing, MessagesNone DEF Init, Hand

LEMMA InOrderStep == TypeOK /\ Taken /\ InOrder /\ [Next]_vars => InOrder'
  <1> DEFINE Rowed == Row(offered, Hand, Messages(queue)) = accepted
  <1> SUFFICES ASSUME TypeOK, Taken, Rowed, [Next]_vars PROVE Rowed'
    BY InOrderRow DEF InOrder, Row, Hand
  <1>0. /\ queue \in Seq(Entry) /\ accepted \in Seq(Entry) /\ offered \in Seq(Entry)
        /\ msg \in Entry /\ Hand \in Seq(Entry) /\ Messages(queue) \in Seq(Entry)
    <2>1. /\ queue \in Seq(Entry) /\ msg \in Entry
          /\ accepted \in Seq(Entry) /\ offered \in Seq(Entry)
      BY DEF TypeOK, Entry
    <2>2. Hand \in Seq(Entry)
      BY <2>1 DEF Hand
    <2> QED BY <2>1, <2>2, MessagesSeq
  <1>a. ASSUME UNCHANGED <<queue, msg, history>>, (pc = "send") <=> (pc' = "send")
        PROVE  Rowed'
    BY <1>a DEF Hand, history, Messages
  <1>1. ASSUME NEW c \in Clients, SendPush(c) PROVE Rowed'
    <2> DEFINE m == <<c, sends[c]>>
    <2>1. m \in Entry /\ m # nullopt
      BY Marks DEF TypeOK, Entry
    <2>2. /\ queue' = Append(queue, m) /\ accepted' = Append(accepted, m)
          /\ offered' = offered /\ Hand' = Hand
      BY <1>1 DEF SendPush, Hand
    <2> HIDE DEF m
    <2>3. Messages(queue)' = Append(Messages(queue), m)
      <3>1. Messages(Append(queue, m)) = Append(Messages(queue), m)
        BY <1>0, <2>1, MessagesAppend
      <3> QED BY <2>2, <3>1 DEF Messages
    <2>4. Row(offered, Hand, Append(Messages(queue), m))
            = Append(Row(offered, Hand, Messages(queue)), m)
      <3>1. /\ offered \in Seq(Entry) /\ Hand \in Seq(Entry)
            /\ Messages(queue) \in Seq(Entry) /\ m \in Entry
        BY <1>0, <2>1
      <3> QED BY ONLY <3>1, RowQueued
    <2> QED BY <2>2, <2>3, <2>4
  <1>2. ASSUME NEW c \in Clients, SendRelease(c) \/ SendUnlock(c) PROVE Rowed'
    BY <1>2, <1>a DEF SendRelease, SendUnlock
  <1>3. ASSUME Start PROVE Rowed'
    <2>1. Messages(queue)' = <<>> /\ Hand' = <<>> /\ offered' = <<>> /\ accepted' = <<>>
      BY <1>3, MessagesNone DEF Start, Messages, Hand
    <2> QED BY <2>1, RowNothing
  <1>4. ASSUME StopPush PROVE Rowed'
    <2>1. /\ queue' = Append(queue, nullopt) /\ accepted' = accepted
          /\ offered' = offered /\ Hand' = Hand
      BY <1>4 DEF StopPush, history, Hand
    <2>2. Messages(Append(queue, nullopt)) = Messages(queue)
      BY <1>0, MessagesAppend DEF Entry
    <2>3. Messages(queue)' = Messages(queue)
      BY <2>1, <2>2 DEF Messages
    <2> QED BY <2>1, <2>3
  <1>5. ASSUME StopRelease \/ StopJoin PROVE Rowed'
    BY <1>5, <1>a DEF StopRelease, StopJoin
  <1>6. ASSUME Bind \/ Acquire \/ TakeNothing \/ Sleep \/ Close PROVE Rowed'
    BY <1>6, <1>a DEF Bind, Acquire, TakeNothing, Sleep, Close
  <1>7. ASSUME Take PROVE Rowed'
    <2>1. /\ pc = "take" /\ queue # <<>> /\ queue' = Tail(queue) /\ msg' = Head(queue)
          /\ pc' = IF Head(queue) = nullopt THEN "close" ELSE "send"
          /\ accepted' = accepted /\ offered' = offered
      BY <1>7 DEF Take, history
    <2>2. Hand = <<>> /\ Hand' = IF Head(queue) = nullopt THEN <<>> ELSE <<Head(queue)>>
      BY <2>1 DEF Hand
    <2>3. Messages(queue) = Joint(Hand', Messages(Tail(queue)))
      BY <1>0, <2>1, <2>2, MessagesTail
    <2>4. Messages(queue)' = Messages(Tail(queue))
      BY <2>1 DEF Messages
    <2>5. Messages(Tail(queue)) \in Seq(Entry) /\ Head(queue) \in Entry
      BY <1>0, <2>1, MessagesSeq, Shrink
    <2>6. Hand' \in Seq(Entry)
      BY <2>2, <2>5
    <2>7. Row(offered, <<>>, Messages(queue)) = Row(offered, Hand', Messages(Tail(queue)))
      BY <1>0, <2>3, <2>5, <2>6, RowTaken
    <2> QED BY <2>1, <2>2, <2>4, <2>7
  <1>8. ASSUME Publish PROVE Rowed'
    <2>1. /\ Hand = <<msg>> /\ Hand' = <<>> /\ queue' = queue
          /\ offered' = Append(offered, msg) /\ accepted' = accepted
      BY <1>8 DEF Publish, Hand
    <2>2. Messages(queue)' = Messages(queue)
      BY <2>1 DEF Messages
    <2> QED BY <1>0, <2>1, <2>2, RowSent
  <1>9. CASE UNCHANGED vars
    BY <1>9, <1>a DEF vars
  <1> QED BY <1>1, <1>2, <1>3, <1>4, <1>5, <1>6, <1>7, <1>8, <1>9
          DEF Next, Client, Stopping, Service, Finished

\* Messages reach the socket in the order of the calls that queued them, none
\* twice and none skipped, whoever the caller is and however often bind or
\* a send fails (pub_thread.h:57-61, 73-80, 90-105).
THEOREM MessagesInOrder == Spec => []InOrder
  <1> QED BY TypeInit, TypeStep, InOrderInit, InOrderStep, PTL DEF Spec
=============================================================================
