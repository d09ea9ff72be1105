-------------------------------- MODULE SimC --------------------------------
(***************************************************************************)
(* sim2-gtk/src/sim.c and main.c: the predator and prey simulation in C.   *)
(* The creatures are one linked list: babies are appended to it while      *)
(* g_list_foreach walks it, so most of them act in the iteration they are  *)
(* born in.  sim_check audits the counters after every iteration.          *)
(*                                                                         *)
(* What a creature's program answers is any action at all (the awake time  *)
(* only the program reads is left out).  The numbers of the code are       *)
(* constants, so that few iterations cross every threshold.                *)
(***************************************************************************)
EXTENDS Storage, FiniteSets

CONSTANTS XSize, YSize,         \* the grid, SIZE by SIZE with SIZE 100
          INIT_ENERGY,          \* 100
          Threshold,            \* 25: fit to breed above it
          BreedCost, KillGain, HuntCost, Roll,   \* 25, 20, 10, 100
          KillPause, BreedPause,                 \* 3 and 6 iterations
          Times, Short, Long,   \* rests a program may ask for, 8 and 24
          Preys, Predators,     \* the numbers that may be typed
          MaxConfigs, MaxTimers, MaxRounds   \* bounds of the exploration

ASSUME SimCAssumption ==
  /\ {XSize, YSize} \subseteq Nat \ {0}
  /\ {INIT_ENERGY, Threshold, BreedCost, KillGain, HuntCost, Roll, KillPause,
      BreedPause, Short, Long} \subseteq Nat
  /\ INIT_ENERGY > Threshold
  /\ UNION {Times, Preys, Predators} \subseteq Nat

VARIABLES creatures, locations,
          number,      \* calls of sim_act, less the dead
          turn,        \* the list element sim_act is called for, 0 for none
          compiled,    \* prey_program and pred_program are set
          run, timers,
          printed,     \* what the last sim_check printed
          configs, rounds   \* bounded counts of configurations, iterations

sim  == <<creatures, locations, number>>
ui   == <<compiled, run, timers, configs, rounds>>
vars == <<sim, turn, printed, ui>>

Types == {"prey", "pred"}
Cells == (0 .. XSize - 1) \X (0 .. YSize - 1)
Still == <<0, 0>>
Direction == (-1 .. 1) \X (-1 .. 1)
One(b) == IF b THEN 1 ELSE 0
Fit(energy) == One(energy > Threshold)
-----------------------------------------------------------------------------
(* A location counts, for each type, its visible creatures, those of them  *)
(* fit to breed and the resting ones; and the kills nobody has died of.    *)
Empty == [num |-> [t \in Types |-> 0], breed |-> [t \in Types |-> 0],
          resting |-> [t \in Types |-> 0], kill |-> 0]

\* By how much the counters of the creature's own location change.
Count(s, num, breed, resting) ==
  LET l == s.loc[s.me.at]
      t == s.me.type
  IN  [s EXCEPT !.loc[s.me.at] =
         [l EXCEPT !.num[t] = @ + num, !.breed[t] = @ + breed,
                   !.resting[t] = @ + resting]]

\* Below, s holds a creature (me), the locations (loc) and its babies (born).
creature_new(s, type, at) ==
  Count([s EXCEPT !.me = [type |-> type, at |-> at, energy |-> INIT_ENERGY,
                          count_down |-> 0, visible |-> TRUE]], 1, 1, 0)

change_energy(s, d) ==
  [Count(s, 0, Fit(s.me.energy + d) - Fit(s.me.energy), 0)
     EXCEPT !.me.energy = @ + d]

\* Mutant: a creature falling asleep stays among those fit to breed.
set_invisibleFit(s) == [Count(s, -1, 0, 1) EXCEPT !.me.visible = FALSE]
set_invisible(s) ==
  [Count(s, -1, -Fit(s.me.energy), 1) EXCEPT !.me.visible = FALSE]
set_visible(s) ==
  [Count(s, 1, Fit(s.me.energy), -1) EXCEPT !.me.visible = TRUE]

Neighbour(at, d) == <<(at[1] + d[1]) % XSize, (at[2] + d[2]) % YSize>>
Arrive(s) == Count(s, 1, Fit(s.me.energy), 0)
move(s, d) ==
  Arrive([Count(s, -1, -Fit(s.me.energy), 0)
            EXCEPT !.me.energy = @ - 1, !.me.at = Neighbour(@, d)])

RestCost(time) == IF time < Short THEN 1 ELSE IF time >= Long THEN 5 ELSE 0
rest(s, time) ==
  [set_invisible(s) EXCEPT !.me.count_down = time,
                           !.me.energy = @ - RestCost(time)]

Kill(s) == [change_energy(s, KillGain) EXCEPT !.me.count_down = KillPause,
                                              !.loc[s.me.at].kill = @ + 1]
hunt(s, d, roll) ==
  LET m == move(s, d) IN
  IF m.me.type = "prey" THEN change_energy(m, 2)
  ELSE IF m.loc[m.me.at].num["prey"] <= 0 THEN m
  ELSE change_energy(IF m.me.energy > roll THEN Kill(m) ELSE m, -HuntCost)

Baby(s) ==
  LET b == [set_invisible(creature_new(s, s.me.type, s.me.at))
              EXCEPT !.me.count_down = BreedPause]
  IN  [b EXCEPT !.me = s.me, !.born = Append(@, b.me)]
breed(s, d) ==
  LET m == move(s, d)
      parent == [set_invisible(m) EXCEPT !.me.count_down = BreedPause,
                                         !.me.energy = @ - BreedCost]
  IN  IF m.loc[m.me.at].breed[m.me.type] > 1 THEN Baby(Baby(parent)) ELSE m

Buried(s) == IF s.me.energy > 0 THEN s
             ELSE Count(s, -One(s.me.visible), 0, -One(~s.me.visible))
-----------------------------------------------------------------------------
Init ==
  /\ creatures = <<>> /\ locations = [c \in Cells |-> Empty]
  /\ number = 0 /\ turn = 0 /\ printed = {}
  /\ compiled = FALSE /\ run = FALSE /\ timers = 0
  /\ configs = 0 /\ rounds = 0

\* sim_act, and g_list_foreach, which reads the next element before the call:
\* babies of the last element are appended behind its back.
Called(s) ==
  /\ creatures' = [creatures EXCEPT ![turn] = s.me] \o s.born
  /\ locations' = s.loc
  /\ number' = number + 1
  /\ turn' = IF turn < Len(creatures) THEN turn + 1
             ELSE Len(creatures') + 1
  /\ UNCHANGED <<printed, ui>>

InTurn == turn \in 1 .. Len(creatures)
Counted ==
  [me |-> [creatures[turn] EXCEPT !.count_down = IF @ > 0 THEN @ - 1 ELSE 0],
   loc |-> locations, born |-> <<>>]

IsEaten ==
  LET me == creatures[turn] IN
  InTurn /\ me.type = "prey" /\ locations[me.at].kill > 0 /\ me.visible
Eaten ==
  /\ IsEaten
  /\ LET dead == Count(change_energy(Counted, -Counted.me.energy), -1, 0, 0)
     IN  Called([dead EXCEPT !.loc[dead.me.at].kill = @ - 1])

Wait == InTurn /\ ~IsEaten /\ Counted.me.count_down > 0 /\ Called(Counted)

Ready == InTurn /\ ~IsEaten /\ Counted.me.count_down = 0
Woken == IF Counted.me.visible THEN Counted ELSE set_visible(Counted)
Undecided == Ready /\ Called(Woken)
Move  == Ready /\ \E d \in Direction : Called(Buried(move(Woken, d)))
Rest  == Ready /\ \E t \in Times : Called(Buried(rest(Woken, t)))
Breed == Ready /\ \E d \in Direction : Called(Buried(breed(Woken, d)))
Hunt  == Ready /\ \E d \in Direction, roll \in 0 .. Roll - 1 :
                     Called(Buried(hunt(Woken, d, roll)))
Act == Eaten \/ Wait \/ Undecided \/ Move \/ Rest \/ Breed \/ Hunt

Alive(c) == c.energy > 0
\* The creatures counted in all the locations.
Total(loc) ==
  LET here(c) == loc[c].num["prey"] + loc[c].resting["prey"]
                   + loc[c].num["pred"] + loc[c].resting["pred"]
      sum[S \in SUBSET Cells] ==
        IF S = {} THEN 0
        ELSE LET c == CHOOSE x \in S : TRUE IN here(c) + sum[S \ {c}]
  IN  sum[Cells]

Insane(l) == \/ l.kill < 0
             \/ \E t \in Types : l.num[t] < 0 \/ l.breed[t] < 0 \/ l.resting[t] < 0
\* The second "too_many" of the code compares the prey again.
sim_check(loc, n) ==
  {m \in {"insane", "too_many", "prey_escaped", "number_mismatch"} :
     CASE m = "insane" -> \E c \in Cells : Insane(loc[c])
       [] m = "too_many" ->
            \E c \in Cells : loc[c].num["prey"] < loc[c].breed["prey"]
       [] m = "prey_escaped" -> \E c \in Cells : loc[c].num["prey"] < loc[c].kill
       [] m = "number_mismatch" -> Total(loc) # n}

\* The dead leave the list, and sim_check reports.
\* Mutant: they are not taken off the count.
PurgeCounts ==
  /\ turn > 0 /\ turn > Len(creatures)
  /\ creatures' = Kept(creatures, {i \in DOMAIN creatures : Alive(creatures[i])})
  /\ number' = number
  /\ printed' = sim_check(locations, number')
  /\ turn' = 0
  /\ UNCHANGED <<locations, ui>>
Purge ==
  /\ turn > 0 /\ turn > Len(creatures)
  /\ creatures' = Kept(creatures, {i \in DOMAIN creatures : Alive(creatures[i])})
  /\ number' = number - (Len(creatures) - Len(creatures'))
  /\ printed' = sim_check(locations, number')
  /\ turn' = 0
  /\ UNCHANGED <<locations, ui>>
-----------------------------------------------------------------------------
(* app_iteration: nothing acts before the programs are compiled.           *)
Tick ==
  /\ turn = 0 /\ timers > 0 /\ run /\ rounds < MaxRounds
  /\ rounds' = rounds + 1
  /\ number' = 0
  /\ turn' = One(compiled)
  /\ printed' = IF compiled THEN {} ELSE sim_check(locations, 0)
  /\ UNCHANGED <<creatures, locations, compiled, run, timers, configs>>

LastTick ==
  /\ turn = 0 /\ timers > 0 /\ ~run
  /\ timers' = timers - 1
  /\ UNCHANGED <<sim, turn, printed, compiled, run, configs, rounds>>

\* A second timeout runs beside one that has not seen the pause.
app_play ==
  /\ turn = 0 /\ ~run /\ timers < MaxTimers
  /\ run' = TRUE /\ timers' = timers + 1
  /\ UNCHANGED <<sim, turn, printed, compiled, configs, rounds>>

app_pause ==
  /\ turn = 0 /\ run' = FALSE
  /\ UNCHANGED <<sim, turn, printed, compiled, timers, configs, rounds>>

\* sim_reset: the counters are cleared with the creatures, prey come first.
\* Mutant: the locations keep what they counted.
ClearedNot == locations
Cleared == [c \in Cells |-> Empty]
Placed(prey, pred) ==
  LET made(places, t) == [i \in DOMAIN places |->
        [type |-> t, at |-> places[i], energy |-> INIT_ENERGY,
         count_down |-> 0, visible |-> TRUE]]
  IN  made(prey, "prey") \o made(pred, "pred")
Populated(base, list) ==
  LET all(c, t) == Cardinality({i \in DOMAIN list :
                                  list[i].at = c /\ list[i].type = t})
      more(c) == [t \in Types |-> all(c, t)]
  IN  [c \in Cells |-> [base[c] EXCEPT
         !.num = [t \in Types |-> @[t] + more(c)[t]],
         !.breed = [t \in Types |-> @[t] + more(c)[t]]]]
app_config ==
  /\ turn = 0 /\ configs < MaxConfigs
  /\ \E n \in Preys \X Predators :
       \E prey \in [1 .. n[1] -> Cells], pred \in [1 .. n[2] -> Cells] :
         creatures' = Placed(prey, pred)
  /\ locations' = Populated(Cleared, creatures')
  /\ compiled' = TRUE /\ run' = FALSE
  /\ configs' = configs + 1
  /\ UNCHANGED <<number, turn, printed, timers, rounds>>

\* What app_draw paints a location: who is awake shows before who rests.
status(l) ==
  LET seen == <<l.num["prey"], l.num["pred"], l.resting["prey"], l.resting["pred"]>>
      first == {i \in 1 .. 4 : seen[i] > 0 /\ \A j \in 1 .. i - 1 : seen[j] <= 0}
  IN  {<<"prey", "pred", "prey", "pred">>[i] : i \in first}
app_draw == [c \in Cells |->
  CASE status(locations[c]) = {"prey"} -> "blue"
    [] status(locations[c]) = {"pred"} -> "red"
    [] OTHER -> "white"]

Next == Act \/ Purge \/ Tick \/ LastTick \/ app_play \/ app_pause \/ app_config
Spec == Init /\ [][Next]_vars
-----------------------------------------------------------------------------
\* With one predator, the audit of sim_check finds nothing wrong but its own
\* count: no negative counter, no more fit than visible prey, no kill left
\* over (sim.c:442-465); two predators may be fed by one prey.
AuditClean == printed \subseteq {"number_mismatch"}

\* sim_act is counted once for every creature alive after an iteration; only
\* the babies of the creature that acted last are missed, always two of
\* them (sim.c:310, 386, 397), and then the audit says so (sim.c:469).
EveryoneCounted ==
  [][Purge => LET missed == Len(creatures') - number' IN
              /\ missed \in {0, 2}
              /\ (missed = 0) <=> "number_mismatch" \notin printed']_vars

\* A location's counters are at every turn those of the creatures alive in
\* it, in spite of the eleven places that add and subtract (sim.c:66-367),
\* and after a second configuration too; the window is white where nobody is.
CountersAgree ==
  \A c \in Cells, t \in Types :
    LET here(v) == {i \in DOMAIN creatures :
                      /\ Alive(creatures[i]) /\ creatures[i].at = c
                      /\ creatures[i].type = t /\ creatures[i].visible = v}
    IN  /\ locations[c].num[t] = Cardinality(here(TRUE))
        /\ locations[c].resting[t] = Cardinality(here(FALSE))
        /\ locations[c].breed[t] =
             Cardinality({i \in here(TRUE) : creatures[i].energy > Threshold})
        /\ here(TRUE) \cup here(FALSE) # {} => app_draw[c] # "white"
=============================================================================
