------------------------------ MODULE Threads ------------------------------
(***************************************************************************)
(* What the thread demonstrations of cpp-concepts have in common: threads, *)
(* shared memory, and the mutexes and condition variables of the standard  *)
(* library.  Main starts the threads of one demonstration and joins them.  *)
(*                                                                         *)
(* A critical section that nobody else can look into is one step; one that *)
(* sleeps, tries a second lock or is itself the subject takes several.     *)
(***************************************************************************)
EXTENDS Integers, Sequences, FiniteSets, FiniteSetsExt, TLC

CONSTANT Nobody    \* the owner of a free mutex

VARIABLES demo,    \* the demonstration main has called
          at,      \* where each of its threads is
          mem      \* its shared objects, by their names, and thread locals

vars == <<demo, at, mem>>

Mutexes == {"lockA", "lockB"}
Std == [owner |-> [m \in Mutexes |-> Nobody], asleep |-> {}]

\* The objects of f and those of g.
Joined(f, g) ==
  [x \in DOMAIN f \cup DOMAIN g |-> IF x \in DOMAIN f THEN f[x] ELSE g[x]]

Calls(name, ids, objects) ==
  /\ demo = name
  /\ at = [t \in ids |-> "start"]
  /\ mem = Joined(Std, objects)

Goes(t, from, to, memory) ==
  /\ at[t] = from /\ at' = [at EXCEPT ![t] = to]
  /\ mem' = memory
  /\ UNCHANGED demo

Done == \A t \in DOMAIN at : at[t] \in {"done", "threw"}
-----------------------------------------------------------------------------
(* std::mutex                                                              *)
Free(m) == mem.owner[m] = Nobody
Locked(t, m) == [mem EXCEPT !.owner[m] = t]
Unlocked(m) == [mem EXCEPT !.owner[m] = Nobody]

(* std::condition_variable: who waits sleeps with the mutex free, until a  *)
(* notification or, the standard says, for no reason.                      *)
Awake(t) == t \notin mem.asleep
Asleep(t) == [mem EXCEPT !.asleep = @ \cup {t}]
NotifyOne(memory) ==
  IF memory.asleep = {} THEN {memory}
  ELSE {[memory EXCEPT !.asleep = @ \ {t}] : t \in memory.asleep}
NotifyAll(memory) == [memory EXCEPT !.asleep = {}]

Spurious ==
  \E t \in mem.asleep : /\ mem' = [mem EXCEPT !.asleep = @ \ {t}]
                        /\ UNCHANGED <<demo, at>>
=============================================================================
