---------------------------- MODULE Coroutines ------------------------------
(***************************************************************************)
(* cpp-concepts/src/coroutines.cpp: a caller and its coroutine hand the    *)
(* control to each other, and the frame of the coroutine is destroyed by   *)
(* whoever has to.  The messages of firstcoroutine and awaitables are      *)
(* numbered in the order the source says they are printed in.              *)
(***************************************************************************)
EXTENDS Threads

CONSTANT Limit   \* 10: the generator's numbers the caller prints

Prints(n) == <<"print", n>>
Suspends(s) == <<"await", s>>   \* "always" or "never"
Returns(n) == <<"return", n>>   \* return_void or return_value prints n
Yields == <<"yield", 0>>

\* What each coroutine does; what its promise prints when it is created and
\* at the initial and the final suspension, and whether it suspends there;
\* and what the caller does: "end" is the handle's destructor.
Coroutine(body, prints, initial, final, caller) ==
  [body |-> body, prints |-> prints, initial |-> initial, final |-> final,
   caller |-> caller]
Call == <<"call", 0>>
Resume == <<"resume", 0>>
firstcoroutine ==
  Coroutine(<<Prints(6), Returns(7)>>, <<<<2>>, <<3>>, <<8>>>>,
            "always", "never",
            <<Prints(1), Call, Prints(4), Prints(5), Resume, Prints(9),
              Prints(10)>>)
generatorexample ==
  Coroutine(<<Yields>>, <<<<>>, <<>>, <<>>>>, "always", "always",
            <<Call, <<"getNext", 0>>, <<"end", 0>>>>)
awaitables ==
  Coroutine(<<Prints(4), Suspends("always"), Prints(6), Suspends("never"),
              Prints(7), Suspends("always"), Prints(9), Returns(10)>>,
            <<<<2>>, <<3>>, <<11>>>>, "never", "never",
            <<Prints(1), Call, Prints(5), Resume, Prints(8), Resume,
              Prints(12), <<"done", 0>>, Prints(13)>>)
Of == [firstcoroutine |-> firstcoroutine, awaitables |-> awaitables,
       generatorexample |-> generatorexample]
-----------------------------------------------------------------------------
Statement(script, i) == IF i > Len(script) THEN <<"over", 0>> ELSE script[i]
CallerAt == Statement(Of[demo].caller, mem.pc)
BodyAt == Statement(Of[demo].body, mem.line)
Caller(op) == mem.running = "caller" /\ CallerAt[1] = op
Body(op) == mem.running = "coroutine" /\ BodyAt[1] = op
Stays(memory) == Goes("main", "start", "start", memory)
NextStatement == [mem EXCEPT !.pc = @ + 1]
NextLine == [mem EXCEPT !.line = @ + 1]
Printed(memory, out) == [memory EXCEPT !.out = @ \o out]

print ==
  \/ Caller("print") /\ Stays(Printed(NextStatement, <<CallerAt[2]>>))
  \/ Body("print") /\ Stays(Printed(NextLine, <<BodyAt[2]>>))

\* A call makes the frame, and the coroutine runs unless it is suspended.
call ==
  LET c == Of[demo]
      made == Printed(NextStatement, c.prints[1] \o c.prints[2])
  IN /\ Caller("call")
     /\ Stays(IF c.initial = "always" THEN [made EXCEPT !.frame = "suspended"]
              ELSE [made EXCEPT !.frame = "running", !.running = "coroutine"])

\* Resuming what is not suspended is undefined.
Resumed(memory) ==
  /\ memory.frame = "suspended"
  /\ Stays([memory EXCEPT !.frame = "running", !.running = "coroutine"])
resume == Caller("resume") /\ Resumed(NextStatement)
getNext == /\ Caller("getNext")
           /\ \/ mem.value < Limit /\ Resumed(mem)
              \/ mem.value >= Limit /\ Stays(NextStatement)

Suspended(memory) == [memory EXCEPT !.frame = "suspended", !.running = "caller"]
co_await ==
  /\ Body("await")
  /\ Stays(IF BodyAt[2] = "always" THEN Suspended(NextLine) ELSE NextLine)
\* What getNext() returns is printed, if the caller's loop goes on with it.
yield_value ==
  /\ Body("yield")
  /\ Stays(Suspended([mem EXCEPT !.value = @ + 1,
             !.out = IF mem.value + 1 < Limit THEN Append(@, mem.value + 1)
                     ELSE @]))
\* The frame of a coroutine that does not suspend at its end is destroyed.
final_suspend(memory) ==
  IF Of[demo].final = "always" THEN Suspended(memory)
  ELSE [memory EXCEPT !.frame = "destroyed", !.running = "caller",
                      !.destroyed = @ + 1]
co_return ==
  /\ Body("return")
  /\ Stays(final_suspend(Printed(NextLine,
                                 <<BodyAt[2]>> \o Of[demo].prints[3])))

\* done() of a frame that is gone says one thing or the other.
done ==
  /\ Caller("done")
  /\ \E said \in IF mem.frame = "destroyed" THEN BOOLEAN ELSE {FALSE} :
       Stays([NextStatement EXCEPT !.said = <<said>>])
Destructor ==
  /\ Caller("end")
  /\ Stays([NextStatement EXCEPT !.frame = "destroyed", !.destroyed = @ + 1])
Returned == Caller("over") /\ Goes("main", "start", "done", mem)

CoroutinesInit ==
  \E name \in DOMAIN Of :
    Calls(name, {"main"},
          [pc |-> 1, line |-> 1, running |-> "caller", frame |-> "none",
           value |-> 0 - 1, out |-> <<>>, said |-> <<>>, destroyed |-> 0])
CoroutinesStep(t) ==
  /\ demo \in DOMAIN Of /\ t = "main" /\ at[t] = "start"
  /\ \/ print \/ call \/ resume \/ getNext \/ co_await \/ yield_value
     \/ co_return \/ done \/ Destructor \/ Returned
-----------------------------------------------------------------------------
\* The messages come in the order of their numbers, without a gap; and when
\* the caller is done the frame has been destroyed, once.
NoGap == \A i \in 1 .. Len(mem.out) - 1 : mem.out[i + 1] = mem.out[i] + 1
Narrated ==
  demo \in DOMAIN Of =>
    /\ NoGap
    /\ mem.destroyed <= 1 /\ mem.running = "coroutine" => mem.frame = "running"
    /\ Done => mem.frame = "destroyed" /\ mem.destroyed = 1
=============================================================================
