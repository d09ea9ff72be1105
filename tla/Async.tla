-------------------------------- MODULE Async --------------------------------
(***************************************************************************)
(* What the programs on boost::asio have in common: coroutines that await  *)
(* one operation at a time.  The operation completes, with one result, at  *)
(* some moment; the coroutine is resumed later, when the queue of the      *)
(* io_context reaches it.                                                  *)
(***************************************************************************)
EXTENDS Threads

\* op is what each task awaits, or its result; late tells the tasks whose
\* time has run out, cancelled the ones that have been asked to stop.
Operations(tasks) == [op |-> [t \in tasks |-> "none"],
                      late |-> {}, cancelled |-> {}]

Pending(t) == mem.op[t] = "pending"
Ready(t) == mem.op[t] \notin {"none", "pending"}
Live(t) == at[t] \notin {"idle", "done"}

\* Task t starts, at from, the operation it awaits at to.
Started(memory, t) ==
  [memory EXCEPT !.op[t] = IF t \in memory.late THEN "timeout" ELSE "pending"]
Awaits(t, from, to, memory) == Goes(t, from, to, Started(memory, t))

\* Task t is resumed at from with one of the results.
Resumed(t, from, results) == at[t] = from /\ mem.op[t] \in results

Finishes(t, from, memory) == Goes(t, from, "done", [memory EXCEPT !.op[t] = "none"])

\* The peer, or the operating system, completes an operation.
Completes(t, from, results) ==
  /\ at[t] = from /\ Pending(t)
  /\ \E r \in results : mem' = [mem EXCEPT !.op[t] = r]
  /\ UNCHANGED <<demo, at>>

\* The time given to a stream runs out: what is pending on it, and whatever is
\* started on it from now on, fails.
Elapses(t) ==
  /\ t \notin mem.late
  /\ mem' = [mem EXCEPT !.late = @ \cup {t},
                        !.op[t] = IF @ = "pending" THEN "timeout" ELSE @]
  /\ UNCHANGED <<demo, at>>

\* A cancellation signal tells tasks to stop, and aborts what some of them await.
Emit(memory, told, stopped) ==
  [memory EXCEPT !.cancelled = @ \cup told,
                 !.op = [t \in DOMAIN @ |->
                    IF t \in stopped /\ @[t] = "pending" THEN "aborted" ELSE @[t]]]

\* A client awaits one operation after the other and gives up at a failure;
\* memory is what it leaves before the next one.
InOrder(t, next, memory) ==
  LET step == at[t] IN
  \/ /\ step \in DOMAIN next /\ (step = "start" \/ mem.op[t] = "ok")
     /\ Awaits(t, step, next[step], memory)
  \/ /\ Ready(t) /\ (mem.op[t] # "ok" \/ step \notin DOMAIN next)
     /\ Finishes(t, step, mem)
=============================================================================
