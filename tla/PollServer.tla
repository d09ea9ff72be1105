----------------------------- MODULE PollServer -----------------------------
(***************************************************************************)
(* io_multiplexing/src/poll.cpp: main reads, with poll, the pipes on which *)
(* the producer threads write, until every pipe has been hung up.          *)
(***************************************************************************)
EXTENDS Threads

CONSTANTS Producers,   \* how many there are
          ReadMax      \* the messages that fit in the buffer of one read

ASSUME PollServerAssumption == Producers \in Nat /\ ReadMax \in Nat

Thread == 1 .. Producers
Messages(i) == 3 * (i - 1) + 2

InPipe(i) == mem.sent[i] - mem.got[i]

PollInit == Calls("poll", 0 .. Producers,
  [wfd |-> [i \in Thread |-> "none"], rfd |-> [i \in Thread |-> "none"],
   sent |-> [i \in Thread |-> 0], got |-> [i \in Thread |-> 0],
   revents |-> <<>>, next |-> 1, terminatedCount |-> 0, failed |-> FALSE])
-----------------------------------------------------------------------------
\* A producer whose reader is gone is killed by the signal of its write, and
\* with it the program.
producerThread(i) ==
  \/ /\ mem.wfd[i] = "open" /\ mem.sent[i] < Messages(i)
     /\ mem.rfd[i] = "open"
     /\ Goes(i, "start", "start", [mem EXCEPT !.sent[i] = @ + 1])
  \/ /\ mem.wfd[i] = "open" /\ mem.sent[i] < Messages(i)
     /\ mem.rfd[i] = "closed" /\ at[i] = "start"
     /\ at' = [t \in DOMAIN at |-> "killed"]
     /\ UNCHANGED <<demo, mem>>
  \/ /\ mem.sent[i] = Messages(i)
     /\ Goes(i, "start", "done", [mem EXCEPT !.wfd[i] = "closed"])

\* Main makes the pipes and the threads; when a pipe fails, so does main, with
\* threads that are not joined.
createProducer(i) ==
  /\ mem.wfd[i] = "none" /\ \A j \in 1 .. i - 1 : mem.wfd[j] # "none"
  /\ \/ Goes(0, "start", IF i = Producers THEN "poll" ELSE "start",
             [mem EXCEPT !.wfd[i] = "open", !.rfd[i] = "open"])
     \/ /\ at[0] = "start"
        /\ at' = [t \in DOMAIN at |-> "killed"]
        /\ UNCHANGED <<demo, mem>>

Revents(i) == IF mem.rfd[i] = "closed" THEN "nval"
              ELSE IF InPipe(i) > 0 THEN "in"
              ELSE IF mem.wfd[i] = "closed" THEN "hup" ELSE "none"

\* poll sleeps until there is something, a descriptor that is closed included.
poll ==
  /\ \/ /\ mem.terminatedCount # Producers
        /\ \E i \in Thread : Revents(i) # "none"
        /\ Goes(0, "poll", "process",
                [mem EXCEPT !.revents = [i \in Thread |-> Revents(i)], !.next = 1])
     \/ /\ mem.terminatedCount # Producers
        /\ Goes(0, "poll", "join",
                [mem EXCEPT !.failed = TRUE, !.rfd = [i \in Thread |-> "closed"]])
     \/ /\ mem.terminatedCount = Producers
        /\ Goes(0, "poll", "join", mem)

Took(i) == [mem EXCEPT !.got[i] = @ + Min({InPipe(i), ReadMax}), !.next = @ + 1]

processPollFd ==
  /\ at[0] = "process"
  /\ LET i == mem.next IN
     CASE mem.revents[i] = "in" ->
            Goes(0, "process", IF i = Producers THEN "poll" ELSE "process", Took(i))
       [] mem.revents[i] = "hup" ->
            Goes(0, "process", IF i = Producers THEN "poll" ELSE "process",
                 [mem EXCEPT !.rfd[i] = "closed", !.terminatedCount = @ + 1,
                             !.next = @ + 1])
       [] OTHER ->
            Goes(0, "process", IF i = Producers THEN "poll" ELSE "process",
                 [mem EXCEPT !.next = @ + 1])

join ==
  /\ \A i \in Thread : at[i] = "done"
  /\ Goes(0, "join", "done", mem)

PollStep(t) ==
  /\ demo = "poll"
  /\ \/ t \in Thread /\ producerThread(t)
     \/ t = 0 /\ \/ \E i \in Thread : createProducer(i)
                 \/ poll \/ processPollFd \/ join
-----------------------------------------------------------------------------
\* A pipe is counted as ended once, when it is closed, and never before all
\* that was written on it has been read: poll.cpp:102 ends with every message.
Heard ==
  demo = "poll" /\ ~mem.failed =>
    /\ mem.terminatedCount = Cardinality({i \in Thread : mem.rfd[i] = "closed"})
    /\ \A i \in Thread : mem.rfd[i] = "closed" => mem.got[i] = Messages(i)

\* Why the consumer may end early: a system call of it has failed.
PollFailed == mem.failed \/ at[0] = "killed"
=============================================================================
