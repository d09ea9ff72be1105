-------------------------------- MODULE Sim2 --------------------------------
(***************************************************************************)
(* The predator and prey simulation of rust-intro/sim2: the creatures, the *)
(* counters every location of the grid keeps about the creatures it holds, *)
(* and the buttons and timers of the window.  An iteration lets every      *)
(* creature act once, in the order of the vector; it runs inside one       *)
(* callback of the main loop, so no button is handled in the middle of it. *)
(*                                                                         *)
(* What a creature's program answers is any action at all.  The energies   *)
(* and pauses written as numbers in the code are constants, so that a few  *)
(* iterations take a creature across every threshold.                      *)
(***************************************************************************)
EXTENDS Storage, FiniteSets

CONSTANTS XSize, YSize,           \* the grid, 100 by 100 in the code
          InitEnergy,             \* 100: energy of a new creature
          BreedEnergyThreshold,   \* 25: breeding needs more
          BreedCost,              \* 25
          KillGain,               \* 25: energy of a prey to its predator
          HuntCost,               \* 10: every attempt costs it
          RollRange,              \* 100: a hunt succeeds above a roll
          KillPause, BreedPause,  \* 3 and 6 iterations
          Rests,                  \* the rests a program may ask for
          ShortRest, LongRest,    \* 8 and 24: what a rest costs changes here
          PredNums, PreyNums,     \* what may be typed in the two entries
          MaxConfigs, MaxTimers, MaxRounds   \* bounds of the exploration

ASSUME Sim2Assumption ==
  /\ {XSize, YSize} \subseteq Nat \ {0}
  /\ {InitEnergy, BreedEnergyThreshold, BreedCost, KillGain, HuntCost,
      RollRange, KillPause, BreedPause, ShortRest, LongRest} \subseteq Nat
  /\ UNION {Rests, PredNums, PreyNums} \subseteq Nat

VARIABLES creatures,   \* the vector of creatures
          newborn,     \* those born in this iteration, appended at its end
          grid,        \* the counters of each location
          turn,        \* the creature whose turn it is, 0 between iterations
          run, valid_configuration,
          timers,      \* timeouts registered with the main loop
          configs, rounds   \* bounded counts of configurations, iterations

sim  == <<creatures, newborn, grid, turn>>
ui   == <<run, valid_configuration, timers>>
vars == <<sim, ui, configs, rounds>>

Kinds      == {"predator", "prey"}
Cells      == (0 .. XSize - 1) \X (0 .. YSize - 1)
Directions == ((-1 .. 1) \X (-1 .. 1)) \ {<<0, 0>>}

One(b) == IF b THEN 1 ELSE 0
Fit(energy) == energy > BreedEnergyThreshold

-----------------------------------------------------------------------------
(* A location: for each kind the visible creatures, those of them fit to   *)
(* breed, and the resting ones; and the kills no prey has died of yet.     *)

Empty == [num     |-> [k \in Kinds |-> 0],
          breed   |-> [k \in Kinds |-> 0],
          resting |-> [k \in Kinds |-> 0],
          kill    |-> 0]

Add(l, kind, energy) ==
  [l EXCEPT !.num[kind] = @ + 1, !.breed[kind] = @ + One(Fit(energy))]

Remove(l, kind, energy) ==
  [l EXCEPT !.num[kind] = @ - 1, !.breed[kind] = @ - One(Fit(energy))]

Rested(l, kind, energy) ==
  [Remove(l, kind, energy) EXCEPT !.resting[kind] = @ + 1]

Awoken(l, kind, energy) ==
  [Add(l, kind, energy) EXCEPT !.resting[kind] = @ - 1]

remove_killed_prey(l) == [l EXCEPT !.num["prey"] = @ - 1, !.kill = @ - 1]

\* Mutant: counts the resting prey.
has_preyResting(l) == l.num["prey"] + l.resting["prey"] > 0
has_prey(l) == l.num["prey"] > 0

\* Mutant: the creature is its own partner.
has_partnerSelf(l, kind) == l.breed[kind] > 0
has_partner(l, kind) == l.breed[kind] > 1

\* How the window shows a location.
status(l) ==
  CASE l.num["predator"] > 0     -> "PredHere"
    [] l.num["predator"] <= 0 /\ l.num["prey"] > 0 -> "PreyHere"
    [] l.num["predator"] <= 0 /\ l.num["prey"] <= 0
         /\ l.resting["predator"] > 0 -> "PredRestingHere"
    [] l.num["predator"] <= 0 /\ l.num["prey"] <= 0
         /\ l.resting["predator"] <= 0 /\ l.resting["prey"] > 0
                                 -> "PreyRestingHere"
    [] OTHER                     -> "Nothing"

-----------------------------------------------------------------------------
(* What a creature does to itself and to the grid.  Each operator maps a   *)
(* record of the creature (me), the grid and its babies (born) to the next *)

Creature(kind, cell) ==
  [kind |-> kind, energy |-> InitEnergy, cell |-> cell,
   count_down |-> 0, visible |-> TRUE]

\* The creature is counted where it now is.
Entered(s) == [s EXCEPT !.grid[s.me.cell] = Add(@, s.me.kind, s.me.energy)]

\* Mutant: fit at the threshold itself.
change_energyBoundary(s, delta) ==
  LET energy == s.me.energy + delta
  IN  [s EXCEPT !.me.energy = energy,
                !.grid[s.me.cell].breed[s.me.kind] =
                     @ + One(energy >= BreedEnergyThreshold)
                       - One(Fit(s.me.energy))]
change_energy(s, delta) ==
  LET energy == s.me.energy + delta
  IN  [s EXCEPT !.me.energy = energy,
                !.grid[s.me.cell].breed[s.me.kind] =
                     @ + One(Fit(energy)) - One(Fit(s.me.energy))]

set_invisible(s) ==
  [s EXCEPT !.grid[s.me.cell] = Rested(@, s.me.kind, s.me.energy),
            !.me.visible = FALSE]
set_visible(s) ==
  [s EXCEPT !.grid[s.me.cell] = Awoken(@, s.me.kind, s.me.energy),
            !.me.visible = TRUE]

Neighbour(cell, d) ==
  <<(cell[1] + d[1]) % XSize, (cell[2] + d[2]) % YSize>>

movee(s, d) ==
  Entered([s EXCEPT !.grid[s.me.cell] = Remove(@, s.me.kind, s.me.energy),
                    !.me.energy = @ - 1,
                    !.me.cell = Neighbour(@, d)])

RestCost(count) ==
  IF count < ShortRest THEN 1 ELSE IF count >= LongRest THEN 5 ELSE 0

rest(s, count) ==
  [set_invisible(s) EXCEPT !.me.count_down = count,
                           !.me.energy = @ - RestCost(count)]

Kill(s) ==
  [change_energy(s, KillGain) EXCEPT !.me.count_down = KillPause,
                                     !.grid[s.me.cell].kill = @ + 1]

\* A prey grazes.  A predator needs a visible prey and luck, and pays.
hunt(s, d, roll) ==
  LET m == movee(s, d)
  IN  IF s.me.kind = "prey" THEN change_energy(m, 2)
      ELSE IF ~has_prey(m.grid[m.me.cell]) THEN m
      ELSE change_energy(IF m.me.energy > roll THEN Kill(m) ELSE m, -HuntCost)

\* The parent stays behind invisible, and a baby is born and rests.
GiveBirth(s) ==
  LET me   == Creature(s.me.kind, s.me.cell)
      baby == rest(Entered([s EXCEPT !.me = me]), BreedPause)
  IN  [baby EXCEPT !.me = s.me, !.born = Append(@, baby.me)]

breed(s, d) ==
  LET m == movee(s, d)
      parent == [set_invisible(m) EXCEPT !.me.count_down = BreedPause,
                                         !.me.energy = @ - BreedCost]
  IN  IF has_partner(m.grid[m.me.cell], m.me.kind)
      THEN GiveBirth(GiveBirth(parent))
      ELSE m

\* A creature without energy leaves the grid at once and the vector later.
Buried(s) ==
  IF s.me.energy > 0 THEN s
  ELSE IF s.me.visible
       THEN [s EXCEPT !.grid[s.me.cell].num[s.me.kind] = @ - 1]
       ELSE [s EXCEPT !.grid[s.me.cell].resting[s.me.kind] = @ - 1]

-----------------------------------------------------------------------------
Init ==
  /\ creatures = <<>> /\ newborn = <<>>
  /\ grid = [c \in Cells |-> Empty]
  /\ turn = 0
  /\ run = FALSE /\ valid_configuration = FALSE
  /\ timers = 0 /\ configs = 0 /\ rounds = 0

\* The creature whose turn it is, after the countdown.
Acting ==
  LET me == creatures[turn]
  IN  [me   |-> [me EXCEPT !.count_down = IF @ > 0 THEN @ - 1 ELSE 0],
       grid |-> grid, born |-> <<>>]

\* The creature's turn ends with it, the grid and its babies as in s.
EndTurn(s) ==
  /\ creatures' = [creatures EXCEPT ![turn] = s.me]
  /\ grid' = s.grid
  /\ newborn' = newborn \o s.born
  /\ turn' = turn + 1
  /\ UNCHANGED <<ui, configs, rounds>>

InTurn == turn \in 1 .. Len(creatures)

IsEaten ==
  LET me == creatures[turn]
  IN  me.kind = "prey" /\ me.visible /\ grid[me.cell].kill > 0

Eaten ==
  /\ InTurn /\ IsEaten
  /\ LET dead == change_energy(Acting, -Acting.me.energy)
     IN  EndTurn([dead EXCEPT !.grid[dead.me.cell] = remove_killed_prey(@)])

\* Still resting, breeding or eating.
Busy == Acting.me.count_down > 0
Wait == InTurn /\ ~IsEaten /\ Busy /\ EndTurn(Acting)

\* The creature is about to do a new action: it is visible again.
Ready == InTurn /\ ~IsEaten /\ ~Busy
Woken == IF Acting.me.visible THEN Acting ELSE set_visible(Acting)

Idle  == Ready /\ EndTurn(Buried(Woken))
Move  == Ready /\ \E d \in Directions : EndTurn(Buried(movee(Woken, d)))
Rest  == Ready /\ \E count \in Rests : EndTurn(Buried(rest(Woken, count)))
Breed == Ready /\ \E d \in Directions : EndTurn(Buried(breed(Woken, d)))
Hunt  == /\ Ready
         /\ \E d \in Directions, roll \in 0 .. RollRange - 1 :
               EndTurn(Buried(hunt(Woken, d, roll)))

Alive(creature) == creature.energy > 0

EndIteration ==
  /\ turn = Len(creatures) + 1
  /\ creatures' = Kept(creatures, {i \in DOMAIN creatures : Alive(creatures[i])})
                    \o newborn
  /\ newborn' = <<>>
  /\ turn' = 0
  /\ UNCHANGED <<grid, ui, configs, rounds>>

-----------------------------------------------------------------------------
(* The window, between iterations.                                         *)

\* A timeout while the simulation runs starts an iteration...
Tick ==
  /\ turn = 0 /\ timers > 0 /\ run /\ rounds < MaxRounds
  /\ turn' = 1 /\ rounds' = rounds + 1
  /\ UNCHANGED <<creatures, newborn, grid, ui, configs>>

\* ... and removes itself when it finds that it does not.
LastTick ==
  /\ turn = 0 /\ timers > 0 /\ ~run
  /\ timers' = timers - 1
  /\ UNCHANGED <<sim, run, valid_configuration, configs, rounds>>

Play ==
  /\ turn = 0 /\ timers < MaxTimers
  /\ run' = valid_configuration
  /\ timers' = timers + 1
  /\ UNCHANGED <<sim, valid_configuration, configs, rounds>>

Pause ==
  /\ turn = 0
  /\ run' = FALSE
  /\ UNCHANGED <<sim, valid_configuration, timers, configs, rounds>>

\* The creatures are replaced, predators first; the grid is added to.
Placed(places, kind) == [i \in DOMAIN places |-> Creature(kind, places[i])]

Populated(g, cs) ==
  LET all(c, k) == Cardinality({i \in DOMAIN cs : cs[i].cell = c /\ cs[i].kind = k})
      more(c) == [k \in Kinds |-> all(c, k)]
  IN  [c \in Cells |->
         [g[c] EXCEPT !.num   = [k \in Kinds |-> @[k] + more(c)[k]],
                      !.breed = [k \in Kinds |->
                                   @[k] + One(Fit(InitEnergy)) * more(c)[k]]]]

Config ==
  /\ turn = 0 /\ configs < MaxConfigs
  /\ \E n \in PredNums, m \in PreyNums :
       \E preds \in [1 .. n -> Cells], preys \in [1 .. m -> Cells] :
         creatures' = Placed(preds, "predator") \o Placed(preys, "prey")
  /\ grid' = Populated(grid, creatures')
  /\ valid_configuration' = TRUE
  /\ configs' = configs + 1
  /\ UNCHANGED <<newborn, turn, run, timers, rounds>>

Act  == Eaten \/ Wait \/ Idle \/ Move \/ Rest \/ Hunt \/ Breed
Next == \/ Act \/ EndIteration
        \/ Tick \/ LastTick \/ Play \/ Pause \/ Config

Spec == Init /\ [][Next]_vars

-----------------------------------------------------------------------------
(* Properties.                                                             *)

Everyone == creatures \o newborn

\* The positions of the living of a kind in a cell, visible or not.
Living(cell, kind, visible) ==
  {i \in DOMAIN Everyone :
     /\ Alive(Everyone[i])
     /\ Everyone[i].cell = cell
     /\ Everyone[i].kind = kind
     /\ Everyone[i].visible = visible}

\* The counters a location keeps incrementally (location.rs) are at every
\* turn the numbers of living creatures there: visible, fit, resting.
CountersAgree ==
  \A c \in Cells, k \in Kinds :
    LET here == Living(c, k, TRUE) IN
    /\ grid[c].num[k] = Cardinality(here)
    /\ grid[c].breed[k] = Cardinality({i \in here : Fit(Everyone[i].energy)})
    /\ grid[c].resting[k] = Cardinality(Living(c, k, FALSE))

\* With a single predator no kill is left over for a prey that comes later:
\* each pending kill (location.rs:110) has a visible prey in its cell that
\* has still to take its turn, so between iterations none is pending.
KillsCovered ==
  \A c \in Cells :
    LET due == {i \in Living(c, "prey", TRUE) : 0 < turn /\ turn <= i}
    IN  grid[c].kill <= Cardinality(due)

\* Babies are only born where the parent met another living, visible
\* creature of its kind with the energy to breed (creature.rs:207-241).
BirthNeedsPair ==
  [][Len(newborn') > Len(newborn) /\ turn > 0
     => LET parent == creatures'[turn] IN
        \E i \in Living(parent.cell, parent.kind, TRUE) \ {turn} :
           Fit(Everyone[i].energy)]_vars
=============================================================================
