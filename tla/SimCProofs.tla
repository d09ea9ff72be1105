----------------------------- MODULE SimCProofs -----------------------------
(***************************************************************************)
(* The counters of the C simulation agree with its list of creatures, its  *)
(* count misses two babies or none, and with one predator its audit finds  *)
(* nothing else: for grids of any size and any number of creatures.  The   *)
(* counters are changed by differences, so what an operator changes of     *)
(* them is compared with what it changes of the creature and its babies.   *)
(***************************************************************************)
EXTENDS SimC, DataTheorems

Beings == [type : Types, at : Cells, energy : Int, count_down : Int, visible : BOOLEAN]
Locations == [num : [Types -> Int], breed : [Types -> Int], resting : [Types -> Int],
              kill : Int]
Grids == [Cells -> Locations]
Scenes == [me : Beings, loc : Grids, born : Seq(Beings)]

-----------------------------------------------------------------------------
(* The three counters of a location, read alike.                           *)

Gauges == {"num", "breed", "resting"}
Read(x, n, b, r) == IF x = "num" THEN n ELSE IF x = "breed" THEN b ELSE r
Value(loc, c, k, x) == Read(x, loc[c].num[k], loc[c].breed[k], loc[c].resting[k])

\* What a creature is to a counter, that of its type where it is or another.
Weight(r, x) == IF r.visible THEN Read(x, 1, Fit(r.energy), 0) ELSE Read(x, 0, 0, 1)
Share(r, c, k, x) == IF r.at = c /\ r.type = k THEN Weight(r, x) ELSE 0
\* The creatures a counter counts.
Group(c, k, x) == {r \in Beings : Alive(r) /\ Share(r, c, k, x) = 1}

LEMMA Numbers ==
  /\ XSize \in Nat \ {0} /\ YSize \in Nat \ {0}
  /\ INIT_ENERGY \in Int /\ Threshold \in Int /\ INIT_ENERGY > Threshold /\ INIT_ENERGY > 0
  /\ Threshold >= 0 /\ BreedCost \in Int /\ KillGain \in Int /\ HuntCost \in Int /\ Roll \in Int
  /\ KillPause \in Int /\ BreedPause \in Int /\ Times \subseteq Int
  /\ Preys \subseteq Nat /\ Predators \subseteq Nat
  <1>1. /\ XSize \in Nat \ {0} /\ YSize \in Nat \ {0}
        /\ INIT_ENERGY \in Nat /\ Threshold \in Nat /\ INIT_ENERGY > Threshold
        /\ BreedCost \in Nat /\ KillGain \in Nat /\ HuntCost \in Nat /\ Roll \in Nat
        /\ KillPause \in Nat /\ BreedPause \in Nat
    BY SimCAssumption
  <1>2. Times \subseteq Nat /\ Preys \subseteq Nat /\ Predators \subseteq Nat
    BY SimCAssumption
  <1> QED BY <1>1, <1>2

LEMMA Reading ==
  ASSUME NEW x \in Gauges, NEW n \in Int, NEW b \in Int, NEW r \in Int
  PROVE  Read(x, n, b, r) \in Int /\ Read(x, 0, 0, 0) = 0
  BY DEF Read, Gauges

LEMMA SceneType ==
  ASSUME NEW s \in Scenes
  PROVE  /\ s.me \in Beings /\ s.loc \in Grids /\ s.born \in Seq(Beings)
         /\ s.me.type \in Types /\ s.me.at \in Cells /\ s.me.energy \in Int
         /\ s.me.count_down \in Int /\ s.me.visible \in BOOLEAN
         /\ s.loc[s.me.at] \in Locations
         /\ \A c \in Cells : s.loc[c].kill \in Int
  <1>1. /\ s.me \in Beings /\ s.loc \in Grids /\ s.born \in Seq(Beings)
    BY DEF Scenes
  <1>2. /\ s.me.type \in Types /\ s.me.at \in Cells /\ s.me.energy \in Int
        /\ s.me.count_down \in Int /\ s.me.visible \in BOOLEAN
    BY <1>1 DEF Beings
  <1>3. \A c \in Cells : s.loc[c] \in Locations
    BY <1>1 DEF Grids
  <1> QED BY <1>1, <1>2, <1>3 DEF Locations

LEMMA GridType ==
  ASSUME NEW g \in Grids, NEW c \in Cells, NEW k \in Types
  PROVE  /\ g[c].num[k] \in Int /\ g[c].breed[k] \in Int /\ g[c].resting[k] \in Int
         /\ g[c].kill \in Int
         /\ \A x \in Gauges : Value(g, c, k, x) \in Int
  <1>1. g[c] \in Locations
    BY DEF Grids
  <1>2. /\ g[c].num[k] \in Int /\ g[c].breed[k] \in Int /\ g[c].resting[k] \in Int
        /\ g[c].kill \in Int
    BY <1>1 DEF Locations
  <1> QED BY <1>2 DEF Value, Read

\* The weight of a creature is one or nothing.
LEMMA Weights ==
  ASSUME NEW r, NEW c, NEW k, NEW x
  PROVE  Weight(r, x) \in {0, 1} /\ Share(r, c, k, x) \in {0, 1}
  BY DEF Weight, Share, Read, Fit, One

LEMMA InGroup ==
  ASSUME NEW r \in Beings, NEW c, NEW k, NEW x
  PROVE  OneIf(r \in Group(c, k, x)) = IF Alive(r) THEN Share(r, c, k, x) ELSE 0
  BY Weights DEF Group, OneIf

-----------------------------------------------------------------------------
(* What Count does.                                                        *)

SameKills(s, t) == \A c \in Cells : t.loc[c].kill = s.loc[c].kill

Shifted(g, h, at, type, n, b, r) ==
  \A c \in Cells, k \in Types, x \in Gauges :
    Value(h, c, k, x) = Value(g, c, k, x)
                          + IF c = at /\ k = type THEN Read(x, n, b, r) ELSE 0

CountedIn(s, t, n, b, r) ==
  /\ t \in Scenes /\ t.me = s.me /\ t.born = s.born /\ SameKills(s, t)
  /\ Shifted(s.loc, t.loc, s.me.at, s.me.type, n, b, r)

LEMMA CountEffect ==
  ASSUME NEW s \in Scenes, NEW n \in Int, NEW b \in Int, NEW r \in Int
  PROVE  CountedIn(s, Count(s, n, b, r), n, b, r)
  <1> DEFINE t == Count(s, n, b, r)
             at == s.me.at
             type == s.me.type
             l == s.loc[at]
             N == [l.num EXCEPT ![type] = @ + n]
             B == [l.breed EXCEPT ![type] = @ + b]
             R == [l.resting EXCEPT ![type] = @ + r]
             L == [l EXCEPT !.num = N, !.breed = B, !.resting = R]
             G == [s.loc EXCEPT ![at] = L]
  <1>1. /\ s.loc \in Grids /\ at \in Cells /\ type \in Types /\ l \in Locations
        /\ \A c \in Cells : s.loc[c].kill \in Int
    BY SceneType
  <1>2. t = [s EXCEPT !.loc = G]
    BY Zenon DEF Count
  <1>3. /\ l.num \in [Types -> Int] /\ l.breed \in [Types -> Int]
        /\ l.resting \in [Types -> Int]
    BY <1>1 DEF Locations
  <1>4. /\ N \in [Types -> Int] /\ B \in [Types -> Int] /\ R \in [Types -> Int]
        /\ \A k \in Types :
             /\ l.num[k] \in Int /\ l.breed[k] \in Int /\ l.resting[k] \in Int
             /\ N[k] = l.num[k] + IF k = type THEN n ELSE 0
             /\ B[k] = l.breed[k] + IF k = type THEN b ELSE 0
             /\ R[k] = l.resting[k] + IF k = type THEN r ELSE 0
    <2> HIDE DEF at, type, l
    <2>1. N \in [Types -> Int] /\ B \in [Types -> Int] /\ R \in [Types -> Int]
      BY <1>1, <1>3
    <2>2. ASSUME NEW k \in Types
          PROVE  /\ l.num[k] \in Int /\ l.breed[k] \in Int /\ l.resting[k] \in Int
                 /\ N[k] = l.num[k] + IF k = type THEN n ELSE 0
                 /\ B[k] = l.breed[k] + IF k = type THEN b ELSE 0
                 /\ R[k] = l.resting[k] + IF k = type THEN r ELSE 0
      BY <1>1, <1>3
    <2> QED BY <2>1, <2>2
  <1>0. L = [l EXCEPT !.num = N, !.breed = B, !.resting = R]
    OBVIOUS
  <1> HIDE DEF L, N, B, R, l
  <1>5. /\ L \in Locations /\ L.num = N /\ L.breed = B /\ L.resting = R /\ L.kill = l.kill
    BY <1>0, <1>1, <1>4 DEF Locations
  <1>6. /\ G \in Grids /\ G[at] = L /\ \A c \in Cells : c # at => G[c] = s.loc[c]
    BY <1>1, <1>5 DEF Grids
  <1> HIDE DEF G, t
  <1>7. t \in Scenes /\ t.loc = G /\ t.me = s.me /\ t.born = s.born
    BY <1>2, <1>6 DEF Scenes
  <1>8. SameKills(s, t)
    BY <1>5, <1>6, <1>7 DEF SameKills, l
  <1>9. Shifted(s.loc, G, at, type, n, b, r)
    <2>1. ASSUME NEW c \in Cells, NEW k \in Types, NEW x \in Gauges
          PROVE  Value(G, c, k, x) = Value(s.loc, c, k, x)
                          + IF c = at /\ k = type THEN Read(x, n, b, r) ELSE 0
      <3>1. CASE c # at
        <4>1. Value(G, c, k, x) = Value(s.loc, c, k, x)
          BY <1>6, <3>1 DEF Value
        <4>2. Value(s.loc, c, k, x) \in Int
          BY <1>1, GridType
        <4> QED BY <3>1, <4>1, <4>2
      <3>2. CASE c = at
        <4>1. /\ Value(G, c, k, x) = Read(x, N[k], B[k], R[k])
              /\ Value(s.loc, c, k, x) = Read(x, l.num[k], l.breed[k], l.resting[k])
          BY <1>5, <1>6, <3>2 DEF Value, l
        <4> QED BY <1>4, <3>2, <4>1 DEF Read
      <3> QED BY <3>1, <3>2
    <2> HIDE DEF at, type
    <2> QED BY <2>1 DEF Shifted
  <1> QED BY <1>7, <1>8, <1>9 DEF CountedIn, t
-----------------------------------------------------------------------------
(* Balances.                                                               *)

\* What a counter says beside the creature that acts and its babies.
Others(s, c, k, x) ==
  (Value(s.loc, c, k, x) - Share(s.me, c, k, x)) - Tally(s.born, Group(c, k, x))

Balanced(s, t) ==
  \A c \in Cells, k \in Types, x \in Gauges : Others(t, c, k, x) = Others(s, c, k, x)

LEMMA BalancedTrans ==
  ASSUME NEW s, NEW t, NEW u, Balanced(s, t), Balanced(t, u)
  PROVE  Balanced(s, u)
  BY DEF Balanced

LEMMA KillsTrans ==
  ASSUME NEW s, NEW t, NEW u, SameKills(s, t), SameKills(t, u)
  PROVE  SameKills(s, u)
  BY DEF SameKills

LEMMA OthersType ==
  ASSUME NEW s \in Scenes, NEW c \in Cells, NEW k \in Types, NEW x \in Gauges
  PROVE  /\ Value(s.loc, c, k, x) \in Int /\ Share(s.me, c, k, x) \in {0, 1}
         /\ Tally(s.born, Group(c, k, x)) \in Nat /\ Others(s, c, k, x) \in Int
         /\ s.born = <<>> => Others(s, c, k, x) = Value(s.loc, c, k, x) - Share(s.me, c, k, x)
  <1>1. Value(s.loc, c, k, x) \in Int
    BY SceneType, GridType
  <1>2. Share(s.me, c, k, x) \in {0, 1}
    BY Weights
  <1>3. Tally(s.born, Group(c, k, x)) \in Nat
    BY SceneType, Tallied
  <1>4. s.born = <<>> => Tally(s.born, Group(c, k, x)) = 0
    BY TallyEmpty
  <1> QED BY <1>1, <1>2, <1>3, <1>4 DEF Others

\* What becomes of a creature.
Became(r, new, energy, at, count, visible) ==
  /\ new \in Beings /\ new.type = r.type /\ new.energy = energy /\ new.at = at
  /\ new.count_down = count /\ new.visible = visible

\* How the weight of a creature that stays where it is changes.
Weighs(r, new, n, b, d) ==
  \A x \in Gauges : Weight(new, x) = Weight(r, x) + Read(x, n, b, d)

Recounted(s, q, M, n, b, r) ==
  /\ n \in Int /\ b \in Int /\ r \in Int /\ CountedIn(s, q, n, b, r)
  /\ M \in Beings /\ M.at = s.me.at /\ M.type = s.me.type /\ Weighs(s.me, M, n, b, r)

LEMMA SelfBalances ==
  ASSUME NEW s \in Scenes, NEW q, NEW M, NEW n, NEW b, NEW r, Recounted(s, q, M, n, b, r)
  PROVE  LET t == [q EXCEPT !.me = M]
         IN  /\ t \in Scenes /\ t.me = M /\ t.born = s.born
             /\ Balanced(s, t) /\ SameKills(s, t)
  <1> DEFINE t == [q EXCEPT !.me = M]
  <1>0. /\ n \in Int /\ b \in Int /\ r \in Int /\ CountedIn(s, q, n, b, r)
        /\ M \in Beings /\ M.at = s.me.at /\ M.type = s.me.type /\ Weighs(s.me, M, n, b, r)
    BY DEF Recounted
  <1>1. q \in Scenes /\ q.born = s.born /\ SameKills(s, q)
        /\ Shifted(s.loc, q.loc, s.me.at, s.me.type, n, b, r)
    BY <1>0 DEF CountedIn
  <1>2. t \in Scenes /\ t.me = M /\ t.born = s.born /\ t.loc = q.loc
    BY <1>0, <1>1 DEF Scenes
  <1> HIDE DEF t
  <1>3. ASSUME NEW c \in Cells, NEW k \in Types, NEW x \in Gauges
        PROVE  Others(t, c, k, x) = Others(s, c, k, x)
    <2>1. Value(t.loc, c, k, x) - Share(t.me, c, k, x)
            = Value(s.loc, c, k, x) - Share(s.me, c, k, x)
      <3>1. /\ Value(s.loc, c, k, x) \in Int /\ Read(x, n, b, r) \in Int
            /\ Share(s.me, c, k, x) \in Int
        BY <1>0, OthersType, Reading
      <3>2. Value(t.loc, c, k, x) = Value(s.loc, c, k, x)
              + IF c = s.me.at /\ k = s.me.type THEN Read(x, n, b, r) ELSE 0
        BY <1>1, <1>2 DEF Shifted
      <3>3. Share(t.me, c, k, x) = Share(s.me, c, k, x)
              + IF c = s.me.at /\ k = s.me.type THEN Read(x, n, b, r) ELSE 0
        <4>1. CASE c = s.me.at /\ k = s.me.type
          BY <1>0, <1>2, <4>1 DEF Share, Weighs
        <4>2. CASE ~(c = s.me.at /\ k = s.me.type)
          BY <1>0, <1>2, <4>2 DEF Share
        <4> QED BY <4>1, <4>2
      <3> QED BY <3>1, <3>2, <3>3
    <2> QED BY ONLY <1>2, <2>1 DEF Others
  <1>4. Balanced(s, t)
    BY <1>3 DEF Balanced
  <1>5. SameKills(s, t)
    BY <1>1, <1>2 DEF SameKills
  <1> QED BY <1>2, <1>4, <1>5 DEF t

\* A creature that counts as it did.
LEMMA SelfChanges ==
  ASSUME NEW s \in Scenes, NEW M \in Beings,
         M.at = s.me.at, M.type = s.me.type, M.visible = s.me.visible,
         s.me.visible => M.energy = s.me.energy
  PROVE  LET t == [s EXCEPT !.me = M]
         IN  /\ t \in Scenes /\ t.me = M /\ t.born = s.born
             /\ Balanced(s, t) /\ SameKills(s, t)
  <1>1. CountedIn(s, s, 0, 0, 0)
    <2>1. Shifted(s.loc, s.loc, s.me.at, s.me.type, 0, 0, 0)
      <3>1. ASSUME NEW c \in Cells, NEW k \in Types, NEW x \in Gauges
            PROVE  Value(s.loc, c, k, x) \in Int /\ Read(x, 0, 0, 0) = 0
        BY OthersType, Reading
      <3> QED BY <3>1 DEF Shifted
    <2> QED BY <2>1 DEF CountedIn, SameKills
  <1>2. Weighs(s.me, M, 0, 0, 0)
    BY SceneType DEF Weighs, Weight, Read, Gauges, Fit, One
  <1> QED BY <1>1, <1>2, SelfBalances DEF Recounted

-----------------------------------------------------------------------------
(* What the operators do.                                                  *)

LEMMA EnergyEffect ==
  ASSUME NEW s \in Scenes, s.me.visible, NEW d \in Int
  PROVE  LET t == change_energy(s, d)
         IN  /\ t \in Scenes /\ t.born = s.born
             /\ Became(s.me, t.me, s.me.energy + d, s.me.at, s.me.count_down, TRUE)
             /\ Balanced(s, t) /\ SameKills(s, t)
  <1> DEFINE t == change_energy(s, d)
             b == Fit(s.me.energy + d) - Fit(s.me.energy)
             q == Count(s, 0, b, 0)
             M == [q.me EXCEPT !.energy = @ + d]
             u == [q EXCEPT !.me = M]
  <1>1. /\ s.me \in Beings /\ s.me.energy \in Int /\ b \in Int
    BY SceneType DEF Fit, One
  <1>2. CountedIn(s, q, 0, b, 0)
    <2> HIDE DEF b
    <2> QED BY <1>1, CountEffect
  <1>3. t = u
    BY Zenon DEF change_energy
  <1> HIDE DEF q, t
  <1>4. q.me = s.me
    BY <1>2 DEF CountedIn
  <1>5. Became(s.me, M, s.me.energy + d, s.me.at, s.me.count_down, TRUE)
    <2> PICK energy \in Int : energy = s.me.energy + d
      BY <1>1
    <2>1. M = [s.me EXCEPT !.energy = energy]
      BY <1>4
    <2> QED BY <1>1, <2>1 DEF Became, Beings
  <1> HIDE DEF M
  <1>6. Weighs(s.me, M, 0, b, 0)
    <2>1. s.me.visible /\ M.visible /\ M.energy = s.me.energy + d
      BY <1>5 DEF Became
    <2> QED BY <2>1 DEF Weighs, Weight, Read, Gauges, Fit, One
  <1> HIDE DEF b
  <1>7. Recounted(s, q, M, 0, b, 0)
    BY <1>1, <1>2, <1>5, <1>6 DEF Became, Recounted
  <1>8. /\ u \in Scenes /\ u.me = M /\ u.born = s.born
        /\ Balanced(s, u) /\ SameKills(s, u)
    BY <1>7, SelfBalances
  <1> QED BY <1>3, <1>5, <1>8 DEF t

LEMMA InvisibleEffect ==
  ASSUME NEW s \in Scenes, s.me.visible
  PROVE  LET t == set_invisible(s)
         IN  /\ t \in Scenes /\ t.born = s.born
             /\ Became(s.me, t.me, s.me.energy, s.me.at, s.me.count_down, FALSE)
             /\ Balanced(s, t) /\ SameKills(s, t)
  <1> DEFINE t == set_invisible(s)
             b == -Fit(s.me.energy)
             q == Count(s, -1, b, 1)
             M == [q.me EXCEPT !.visible = FALSE]
             u == [q EXCEPT !.me = M]
  <1>1. /\ s.me \in Beings /\ s.me.energy \in Int /\ b \in Int /\ -1 \in Int
    BY SceneType DEF Fit, One
  <1>2. CountedIn(s, q, -1, b, 1)
    <2> HIDE DEF b
    <2> QED BY <1>1, CountEffect
  <1>3. t = u
    BY Zenon DEF set_invisible
  <1> HIDE DEF q, t
  <1>4. q.me = s.me
    BY <1>2 DEF CountedIn
  <1>5. Became(s.me, M, s.me.energy, s.me.at, s.me.count_down, FALSE)
    BY <1>1, <1>4 DEF Became, Beings
  <1> HIDE DEF M
  <1>6. Weighs(s.me, M, -1, b, 1)
    <2>1. s.me.visible /\ ~M.visible
      BY <1>5 DEF Became
    <2> QED BY <2>1 DEF Weighs, Weight, Read, Gauges, Fit, One
  <1> HIDE DEF b
  <1>7. Recounted(s, q, M, -1, b, 1)
    BY <1>1, <1>2, <1>5, <1>6 DEF Became, Recounted
  <1>8. /\ u \in Scenes /\ u.me = M /\ u.born = s.born
        /\ Balanced(s, u) /\ SameKills(s, u)
    BY <1>7, SelfBalances
  <1> QED BY <1>3, <1>5, <1>8 DEF t

LEMMA VisibleEffect ==
  ASSUME NEW s \in Scenes, ~s.me.visible
  PROVE  LET t == set_visible(s)
         IN  /\ t \in Scenes /\ t.born = s.born
             /\ Became(s.me, t.me, s.me.energy, s.me.at, s.me.count_down, TRUE)
             /\ Balanced(s, t) /\ SameKills(s, t)
  <1> DEFINE t == set_visible(s)
             b == Fit(s.me.energy)
             q == Count(s, 1, b, -1)
             M == [q.me EXCEPT !.visible = TRUE]
             u == [q EXCEPT !.me = M]
  <1>1. /\ s.me \in Beings /\ s.me.energy \in Int /\ b \in Int /\ -1 \in Int
    BY SceneType DEF Fit, One
  <1>2. CountedIn(s, q, 1, b, -1)
    <2> HIDE DEF b
    <2> QED BY <1>1, CountEffect
  <1>3. t = u
    BY Zenon DEF set_visible
  <1> HIDE DEF q, t
  <1>4. q.me = s.me
    BY <1>2 DEF CountedIn
  <1>5. Became(s.me, M, s.me.energy, s.me.at, s.me.count_down, TRUE)
    BY <1>1, <1>4 DEF Became, Beings
  <1> HIDE DEF M
  <1>6. Weighs(s.me, M, 1, b, -1)
    <2>1. ~s.me.visible /\ M.visible /\ M.energy = s.me.energy
      BY <1>5 DEF Became
    <2> QED BY <2>1 DEF Weighs, Weight, Read, Gauges, Fit, One
  <1> HIDE DEF b
  <1>7. Recounted(s, q, M, 1, b, -1)
    BY <1>1, <1>2, <1>5, <1>6 DEF Became, Recounted
  <1>8. /\ u \in Scenes /\ u.me = M /\ u.born = s.born
        /\ Balanced(s, u) /\ SameKills(s, u)
    BY <1>7, SelfBalances
  <1> QED BY <1>3, <1>5, <1>8 DEF t

LEMMA NeighbourCell ==
  ASSUME NEW at \in Cells, NEW d \in Direction
  PROVE  Neighbour(at, d) \in Cells
  <1>1. /\ XSize \in Nat /\ XSize > 0 /\ YSize \in Nat /\ YSize > 0
    BY Numbers
  <1>2. at[1] \in Int /\ at[2] \in Int /\ d[1] \in Int /\ d[2] \in Int
    BY <1>1 DEF Cells, Direction
  <1>3. PICK x \in Int, y \in Int : x = at[1] + d[1] /\ y = at[2] + d[2]
    BY <1>2
  <1>4. x % XSize \in 0 .. XSize - 1 /\ y % YSize \in 0 .. YSize - 1
    BY <1>1
  <1> QED BY <1>3, <1>4 DEF Neighbour, Cells

\* It leaves the counters of one location and enters those of another.
LEMMA MoveEffect ==
  ASSUME NEW s \in Scenes, s.me.visible, NEW d \in Direction
  PROVE  LET t == move(s, d)
         IN  /\ t \in Scenes /\ t.born = s.born
             /\ Became(s.me, t.me, s.me.energy - 1, Neighbour(s.me.at, d),
                       s.me.count_down, TRUE)
             /\ Balanced(s, t) /\ SameKills(s, t)
  <1> DEFINE t == move(s, d)
             next == Neighbour(s.me.at, d)
             b == -Fit(s.me.energy)
             q == Count(s, -1, b, 0)
             M == [q.me EXCEPT !.energy = @ - 1, !.at = Neighbour(@, d)]
             u == [q EXCEPT !.me = M]
             a == Fit(u.me.energy)
  <1>1. /\ s.me \in Beings /\ s.me.energy \in Int /\ b \in Int /\ -1 \in Int
        /\ next \in Cells /\ s.me.at \in Cells
    BY SceneType, NeighbourCell DEF Fit, One
  <1>0. a \in Int
    BY DEF Fit, One
  <1>2. CountedIn(s, q, -1, b, 0)
    <2> HIDE DEF b
    <2> QED BY <1>1, CountEffect
  <1>3. t = Count(u, 1, a, 0)
    BY Zenon DEF move, Arrive
  <1> HIDE DEF q, t
  <1>4. q.me = s.me /\ q \in Scenes /\ q.born = s.born
    BY <1>2 DEF CountedIn
  <1>5. Became(s.me, M, s.me.energy - 1, next, s.me.count_down, TRUE)
    <2> PICK energy \in Int : energy = s.me.energy - 1
      BY <1>1
    <2>1. M = [s.me EXCEPT !.energy = energy, !.at = next]
      BY <1>4
    <2> HIDE DEF M, next
    <2>2. M \in Beings
      BY <1>1, <2>1 DEF Beings
    <2>3. /\ M.type = s.me.type /\ M.energy = energy /\ M.at = next
          /\ M.count_down = s.me.count_down /\ M.visible
      BY <1>1, <2>1 DEF Beings
    <2> QED BY <2>2, <2>3 DEF Became, Beings
  <1> HIDE DEF M, next
  <1>6. u \in Scenes /\ u.me = M /\ u.loc = q.loc /\ u.born = s.born
    BY <1>4, <1>5 DEF Scenes, Became
  <1> HIDE DEF u
  <1>7. CountedIn(u, t, 1, a, 0)
    <2> HIDE DEF a
    <2> QED BY <1>0, <1>3, <1>6, CountEffect
  <1>8. t \in Scenes /\ t.me = M /\ t.born = s.born
    BY <1>6, <1>7 DEF CountedIn
  <1>9. SameKills(s, t)
    BY <1>2, <1>6, <1>7 DEF CountedIn, SameKills
  <1>10. ASSUME NEW c \in Cells, NEW k \in Types, NEW x \in Gauges
         PROVE  Others(t, c, k, x) = Others(s, c, k, x)
    <2> DEFINE here == c = s.me.at /\ k = s.me.type
               there == c = next /\ k = s.me.type
    <2>1. /\ Value(s.loc, c, k, x) \in Int
          /\ Read(x, -1, b, 0) \in Int /\ Read(x, 1, a, 0) \in Int
      BY <1>0, <1>1, OthersType, Reading
    <2>2. Value(u.loc, c, k, x)
            = Value(s.loc, c, k, x) + IF here THEN Read(x, -1, b, 0) ELSE 0
      BY <1>2, <1>6 DEF CountedIn, Shifted
    <2>3. M.at = next /\ M.type = s.me.type /\ M.visible
      BY <1>5 DEF Became
    <2>4. Value(t.loc, c, k, x)
            = Value(u.loc, c, k, x) + IF there THEN Read(x, 1, a, 0) ELSE 0
      BY <1>6, <1>7, <2>3 DEF CountedIn, Shifted
    <2>5. Share(t.me, c, k, x) = IF there THEN Read(x, 1, a, 0) ELSE 0
      BY <1>6, <1>8, <2>3 DEF Share, Weight
    <2>6. Share(s.me, c, k, x) = IF here THEN -Read(x, -1, b, 0) ELSE 0
      <3>1. Weight(s.me, x) = -Read(x, -1, b, 0)
        BY <1>1 DEF Weight, Read, Fit, One
      <3> QED BY <3>1 DEF Share
    <2> HIDE DEF here, there
    <2>7. Value(t.loc, c, k, x) - Share(t.me, c, k, x)
            = Value(s.loc, c, k, x) - Share(s.me, c, k, x)
      BY <2>1, <2>2, <2>4, <2>5, <2>6
    <2> QED BY ONLY <1>8, <2>7 DEF Others
  <1>11. Balanced(s, t)
    BY <1>10 DEF Balanced
  <1> QED BY <1>5, <1>8, <1>9, <1>11 DEF t, next

LEMMA RestEffect ==
  ASSUME NEW s \in Scenes, s.me.visible, NEW time \in Int
  PROVE  LET t == rest(s, time)
         IN  /\ t \in Scenes /\ t.born = s.born
             /\ Became(s.me, t.me, s.me.energy - RestCost(time), s.me.at, time, FALSE)
             /\ Balanced(s, t) /\ SameKills(s, t)
  <1> DEFINE i == set_invisible(s)
             t == rest(s, time)
             M == [i.me EXCEPT !.count_down = time, !.energy = @ - RestCost(time)]
             u == [i EXCEPT !.me = M]
  <1>1. /\ i \in Scenes /\ i.born = s.born /\ Balanced(s, i) /\ SameKills(s, i)
        /\ Became(s.me, i.me, s.me.energy, s.me.at, s.me.count_down, FALSE)
    BY InvisibleEffect
  <1>2. t = u
    BY Zenon DEF rest
  <1> HIDE DEF i, t
  <1>3. Became(s.me, M, s.me.energy - RestCost(time), s.me.at, time, FALSE)
    <2>1. s.me.energy \in Int /\ RestCost(time) \in Int
      BY SceneType DEF RestCost
    <2> PICK energy \in Int : energy = s.me.energy - RestCost(time)
      BY <2>1
    <2>2. i.me \in Beings /\ i.me.energy = s.me.energy
      BY <1>1 DEF Became
    <2>3. M = [i.me EXCEPT !.count_down = time, !.energy = energy]
      BY <2>2
    <2> HIDE DEF M
    <2>4. M \in Beings
      BY <2>2, <2>3 DEF Beings
    <2>5. /\ M.type = i.me.type /\ M.energy = energy /\ M.at = i.me.at
          /\ M.count_down = time /\ M.visible = i.me.visible
      BY <2>2, <2>3 DEF Beings
    <2> QED BY <1>1, <2>4, <2>5 DEF Became, Beings
  <1> HIDE DEF M
  <1>4. /\ u \in Scenes /\ u.me = M /\ u.born = i.born /\ Balanced(i, u) /\ SameKills(i, u)
    <2>1. /\ M \in Beings /\ M.at = i.me.at /\ M.type = i.me.type
          /\ M.visible = i.me.visible /\ ~i.me.visible
      BY <1>1, <1>3 DEF Became
    <2> QED BY <1>1, <2>1, SelfChanges
  <1> HIDE DEF u
  <1>5. Balanced(s, u) /\ SameKills(s, u)
    BY <1>1, <1>4, BalancedTrans, KillsTrans
  <1> QED BY <1>1, <1>2, <1>3, <1>4, <1>5 DEF t

\* A baby is alive, invisible, where its parent is.
BabyOf(b, r) ==
  b \in Beings /\ b.type = r.type /\ b.at = r.at /\ ~b.visible /\ Alive(b)

LEMMA BabyEffect ==
  ASSUME NEW s \in Scenes
  PROVE  LET t == Baby(s)
         IN  /\ t \in Scenes /\ t.me = s.me
             /\ \E b : t.born = Append(s.born, b) /\ BabyOf(b, s.me)
             /\ Balanced(s, t) /\ SameKills(s, t)
  <1> DEFINE t == Baby(s)
             fresh == [type |-> s.me.type, at |-> s.me.at, energy |-> INIT_ENERGY,
                       count_down |-> 0, visible |-> TRUE]
             v == [s EXCEPT !.me = fresh]
             w == Count(v, 1, 1, 0)
             i == set_invisible(w)
             b == [i.me EXCEPT !.count_down = BreedPause]
             B == Append(s.born, b)
  <1>1. /\ s.me \in Beings /\ s.loc \in Grids /\ s.me.at \in Cells /\ s.me.type \in Types
        /\ s.born \in Seq(Beings)
        /\ INIT_ENERGY \in Int /\ BreedPause \in Int /\ INIT_ENERGY > 0
        /\ INIT_ENERGY > Threshold
    BY SceneType, Numbers
  <1>2. /\ fresh \in Beings /\ fresh.type = s.me.type /\ fresh.at = s.me.at
        /\ fresh.energy = INIT_ENERGY /\ fresh.visible
    BY <1>1 DEF Beings
  <1>3. t = [i EXCEPT !.me = s.me, !.born = Append(i.born, b)]
    <2> DEFINE e == [i EXCEPT !.me.count_down = BreedPause]
    <2>1. t = [e EXCEPT !.me = s.me, !.born = Append(e.born, e.me)]
      BY Zenon DEF Baby, creature_new
    <2>2. e = [i EXCEPT !.me = b]
      <3> HIDE DEF i
      <3> QED BY Zenon
    <2>3. i \in Scenes
      <3>1. v \in Scenes /\ v.me = fresh
        <4> HIDE DEF fresh
        <4> QED BY <1>2 DEF Scenes
      <3> HIDE DEF v, fresh
      <3>2. CountedIn(v, w, 1, 1, 0)
        BY <3>1, CountEffect
      <3> HIDE DEF w
      <3>3. w \in Scenes /\ w.me = fresh
        BY <3>1, <3>2 DEF CountedIn
      <3> QED BY <1>2, <3>3, InvisibleEffect
    <2> HIDE DEF i, b, e, t
    <2>4. e.me = b /\ e.born = i.born
      BY <2>2, <2>3 DEF Scenes
    <2> QED BY <2>1, <2>2, <2>3, <2>4 DEF Scenes
  <1> HIDE DEF fresh, t
  <1>4. v \in Scenes /\ v.me = fresh /\ v.loc = s.loc /\ v.born = s.born
    BY <1>2 DEF Scenes
  <1> HIDE DEF v
  <1>5. CountedIn(v, w, 1, 1, 0)
    BY <1>4, CountEffect
  <1> HIDE DEF w
  <1>6. w \in Scenes /\ w.me = fresh /\ w.born = s.born /\ SameKills(s, w)
    BY <1>4, <1>5 DEF CountedIn, SameKills
  <1>7. /\ i \in Scenes /\ i.born = s.born /\ Balanced(w, i) /\ SameKills(w, i)
        /\ Became(fresh, i.me, INIT_ENERGY, s.me.at, fresh.count_down, FALSE)
    BY <1>2, <1>6, InvisibleEffect
  <1> HIDE DEF i
  <1>8. BabyOf(b, s.me) /\ \A x : Weight(b, x) = Weight(i.me, x)
    <2>1. /\ b \in Beings /\ b.type = i.me.type /\ b.at = i.me.at
          /\ b.visible = i.me.visible /\ b.energy = i.me.energy
      BY <1>1, <1>7 DEF Became, Beings
    <2> HIDE DEF b
    <2> QED BY <1>1, <1>2, <1>7, <2>1 DEF BabyOf, Became, Alive, Weight
  <1>9. B \in Seq(Beings)
    <2> HIDE DEF b
    <2> QED BY <1>1, <1>8 DEF BabyOf
  <1>10. t \in Scenes /\ t.me = s.me /\ t.loc = i.loc /\ t.born = B
    <2> HIDE DEF b
    <2> QED BY <1>1, <1>3, <1>7, <1>9 DEF Scenes
  <1>11. ASSUME NEW c \in Cells, NEW k \in Types, NEW x \in Gauges
         PROVE  Others(t, c, k, x) = Others(s, c, k, x)
    <2> DEFINE P == Group(c, k, x)
               here == c = s.me.at /\ k = s.me.type
    <2>1. /\ Value(s.loc, c, k, x) \in Int /\ Share(s.me, c, k, x) \in Int
          /\ Tally(s.born, P) \in Int /\ Value(i.loc, c, k, x) \in Int
          /\ Share(i.me, c, k, x) \in Int /\ Read(x, 1, 1, 0) \in Int
      BY <1>7, OthersType, Reading
    <2>2. Value(w.loc, c, k, x)
            = Value(s.loc, c, k, x) + IF here THEN Read(x, 1, 1, 0) ELSE 0
      BY <1>2, <1>4, <1>5 DEF CountedIn, Shifted
    <2>3. Share(w.me, c, k, x) = IF here THEN Read(x, 1, 1, 0) ELSE 0
      <3>1. Fit(INIT_ENERGY) = 1
        BY <1>1 DEF Fit, One
      <3> QED BY <1>2, <1>6, <3>1 DEF Share, Weight
    <2>4. (Value(i.loc, c, k, x) - Share(i.me, c, k, x)) - Tally(s.born, P)
            = (Value(w.loc, c, k, x) - Share(w.me, c, k, x)) - Tally(s.born, P)
      BY <1>6, <1>7 DEF Balanced, Others
    <2>5. Tally(B, P) = Tally(s.born, P) + Share(i.me, c, k, x)
      <3>1. b \in Beings /\ Alive(b) /\ b.at = i.me.at /\ b.type = i.me.type
        BY <1>2, <1>7, <1>8 DEF BabyOf, Became
      <3> HIDE DEF b
      <3>2. OneIf(b \in P) = Share(b, c, k, x)
        BY <3>1, InGroup
      <3>3. Share(b, c, k, x) = Share(i.me, c, k, x)
        BY <1>8, <3>1 DEF Share
      <3>4. Tally(B, P) = Tally(s.born, P) + OneIf(b \in P)
        BY <1>1, <3>1, TallyAppend
      <3> QED BY <3>2, <3>3, <3>4
    <2> HIDE DEF P, here, B
    <2>6. Value(i.loc, c, k, x) - Share(i.me, c, k, x) = Value(s.loc, c, k, x)
      BY <2>1, <2>2, <2>3, <2>4
    <2>7. (Value(i.loc, c, k, x) - Share(s.me, c, k, x)) - Tally(B, P)
            = (Value(s.loc, c, k, x) - Share(s.me, c, k, x)) - Tally(s.born, P)
      BY <2>1, <2>5, <2>6
    <2> QED BY <1>10, <2>7 DEF Others, P
  <1>12. Balanced(s, t)
    BY <1>11 DEF Balanced
  <1>13. SameKills(s, t)
    BY <1>6, <1>7, <1>10 DEF SameKills
  <1>14. \E e : t.born = Append(s.born, e) /\ BabyOf(e, s.me)
    BY <1>8, <1>10
  <1> QED BY <1>10, <1>12, <1>13, <1>14 DEF t

\* One kill is noted where the creature is.
KillNoted(s, t) ==
  \A c \in Cells : t.loc[c].kill = s.loc[c].kill + IF c = t.me.at THEN 1 ELSE 0

LEMMA KillEffect ==
  ASSUME NEW s \in Scenes, s.me.visible
  PROVE  LET t == Kill(s)
         IN  /\ t \in Scenes /\ t.born = s.born
             /\ t.me.type = s.me.type /\ t.me.at = s.me.at /\ t.me.visible
             /\ Balanced(s, t) /\ KillNoted(s, t)
  <1> DEFINE e == change_energy(s, KillGain)
             t == Kill(s)
             at == s.me.at
             M == [e.me EXCEPT !.count_down = KillPause]
             u == [e EXCEPT !.me = M]
             L == [u.loc[at] EXCEPT !.kill = @ + 1]
             G == [u.loc EXCEPT ![at] = L]
  <1>1. KillGain \in Int /\ KillPause \in Int /\ s.me.energy \in Int /\ at \in Cells
    BY Numbers, SceneType
  <1>2. /\ e \in Scenes /\ e.born = s.born /\ Balanced(s, e) /\ SameKills(s, e)
        /\ Became(s.me, e.me, s.me.energy + KillGain, at, s.me.count_down, TRUE)
    BY <1>1, EnergyEffect
  <1>3. t = [u EXCEPT !.loc = G]
    <2>1. t = [u EXCEPT !.loc[at].kill = e.loc[at].kill + 1]
      BY Zenon DEF Kill
    <2>2. u.loc = e.loc
      <3> HIDE DEF e, M
      <3> QED BY <1>2 DEF Scenes
    <2> HIDE DEF e, u, t
    <2> QED BY <2>1, <2>2, Zenon
  <1> HIDE DEF e, t
  <1>4. Became(e.me, M, e.me.energy, at, KillPause, TRUE)
    BY <1>1, <1>2 DEF Became, Beings
  <1> HIDE DEF M
  <1>5. /\ u \in Scenes /\ u.me = M /\ u.born = s.born /\ Balanced(e, u) /\ SameKills(e, u)
    <2>1. /\ M \in Beings /\ M.at = e.me.at /\ M.type = e.me.type
          /\ M.visible = e.me.visible /\ M.energy = e.me.energy
      BY <1>2, <1>4 DEF Became
    <2> QED BY <1>2, <2>1, SelfChanges
  <1> HIDE DEF u
  <1>6. u.loc \in Grids /\ \A c \in Cells : u.loc[c] \in Locations /\ u.loc[c].kill \in Int
    BY <1>5, SceneType DEF Grids
  <1>7. /\ L \in Locations /\ L.num = u.loc[at].num /\ L.breed = u.loc[at].breed
        /\ L.resting = u.loc[at].resting /\ L.kill = u.loc[at].kill + 1
    BY <1>1, <1>6 DEF Locations
  <1> HIDE DEF L
  <1>8. G \in Grids /\ G[at] = L /\ \A c \in Cells : c # at => G[c] = u.loc[c]
    BY <1>1, <1>6, <1>7 DEF Grids
  <1> HIDE DEF G
  <1>9. t \in Scenes /\ t.me = M /\ t.loc = G /\ t.born = s.born
    BY <1>3, <1>5, <1>8 DEF Scenes
  <1>10. Balanced(u, t)
    <2>1. ASSUME NEW c \in Cells, NEW k \in Types, NEW x \in Gauges
          PROVE  Value(t.loc, c, k, x) = Value(u.loc, c, k, x)
      BY <1>7, <1>8, <1>9 DEF Value
    <2> QED BY <1>5, <1>9, <2>1 DEF Balanced, Others
  <1>11. Balanced(s, t)
    BY <1>2, <1>5, <1>10, BalancedTrans
  <1>12. t.me.type = s.me.type /\ t.me.at = at /\ t.me.visible
    BY <1>2, <1>4, <1>9 DEF Became
  <1>13. KillNoted(s, t)
    <2>1. ASSUME NEW c \in Cells
          PROVE  t.loc[c].kill = s.loc[c].kill + IF c = at THEN 1 ELSE 0
      <3>1. u.loc[c].kill = s.loc[c].kill /\ s.loc[c].kill \in Int
        BY <1>2, <1>5, SceneType DEF SameKills
      <3>2. t.loc[c].kill = IF c = at THEN u.loc[c].kill + 1 ELSE u.loc[c].kill
        BY <1>7, <1>8, <1>9
      <3> QED BY <3>1, <3>2
    <2> QED BY <1>12, <2>1 DEF KillNoted
  <1> QED BY <1>9, <1>11, <1>12, <1>13 DEF t

\* A predator that kills does so where a visible prey is.
LEMMA HuntEffect ==
  ASSUME NEW s \in Scenes, s.me.visible, s.born = <<>>, NEW d \in Direction,
         NEW roll \in Int
  PROVE  LET t == hunt(s, d, roll)
         IN  /\ t \in Scenes /\ t.born = <<>> /\ t.me.type = s.me.type
             /\ Balanced(s, t)
             /\ \/ SameKills(s, t)
                \/ /\ KillNoted(s, t) /\ s.me.type = "pred"
                   /\ Others(s, t.me.at, "prey", "num") > 0
  <1> DEFINE m == move(s, d)
             t == hunt(s, d, roll)
             n == m.loc[m.me.at].num["prey"]
             a == IF m.me.energy > roll THEN Kill(m) ELSE m
  <1>1. /\ m \in Scenes /\ m.born = <<>> /\ Balanced(s, m) /\ SameKills(s, m)
        /\ m.me.type = s.me.type /\ m.me.visible
    BY MoveEffect DEF Became
  <1>2. /\ m.me.at \in Cells /\ s.me.type \in {"prey", "pred"} /\ m.me.type \in Types
        /\ HuntCost \in Int
    BY <1>1, SceneType, Numbers DEF Types
  <1>3. t = IF m.me.type = "prey" THEN change_energy(m, 2)
            ELSE IF n <= 0 THEN m ELSE change_energy(a, -HuntCost)
    BY Zenon DEF hunt
  <1> HIDE DEF m, t
  <1>4. ASSUME NEW gain \in Int, NEW p \in Scenes, p.me.visible
        PROVE  LET e == change_energy(p, gain)
               IN  /\ e \in Scenes /\ e.born = p.born /\ e.me.type = p.me.type
                   /\ e.me.at = p.me.at /\ Balanced(p, e) /\ SameKills(p, e)
    BY <1>4, EnergyEffect DEF Became
  <1>5. CASE m.me.type = "prey"
    <2> PICK gain \in Int : gain = 2
      OBVIOUS
    <2>1. t = change_energy(m, gain)
      BY <1>3, <1>5
    <2>2. /\ t \in Scenes /\ t.born = m.born /\ t.me.type = m.me.type
          /\ Balanced(m, t) /\ SameKills(m, t)
      BY <1>1, <1>4, <2>1
    <2> QED BY <1>1, <2>2, BalancedTrans, KillsTrans DEF t
  <1>6. CASE m.me.type # "prey" /\ n <= 0
    <2>1. t = m
      BY <1>3, <1>6
    <2> QED BY <1>1, <2>1 DEF t
  <1>7. CASE m.me.type # "prey" /\ ~(n <= 0)
    <2> PICK gain \in Int : gain = -HuntCost
      BY <1>2
    <2>0. t = change_energy(a, gain)
      BY <1>3, <1>7
    <2>1. CASE ~(m.me.energy > roll)
      <3>1. a = m
        BY <2>1
      <3>2. /\ t \in Scenes /\ t.born = m.born /\ t.me.type = m.me.type
            /\ Balanced(m, t) /\ SameKills(m, t)
        BY <1>1, <1>4, <2>0, <3>1
      <3> QED BY <1>1, <3>2, BalancedTrans, KillsTrans DEF t
    <2>2. CASE m.me.energy > roll
      <3>1. a = Kill(m)
        BY <2>2
      <3>2. /\ a \in Scenes /\ a.born = m.born /\ a.me.type = m.me.type
            /\ a.me.at = m.me.at /\ a.me.visible /\ Balanced(m, a) /\ KillNoted(m, a)
        BY <1>1, <3>1, KillEffect
      <3> HIDE DEF a
      <3>3. /\ t \in Scenes /\ t.born = a.born /\ t.me.type = a.me.type
            /\ t.me.at = a.me.at /\ Balanced(a, t) /\ SameKills(a, t)
        BY <1>4, <2>0, <3>2
      <3>4. Balanced(s, t)
        BY <1>1, <3>2, <3>3, BalancedTrans
      <3>5. KillNoted(s, t)
        BY <1>1, <3>2, <3>3 DEF KillNoted, SameKills
      <3>6. Others(s, t.me.at, "prey", "num") > 0
        <4> DEFINE c == m.me.at
        <4>1. "prey" \in Types /\ "num" \in Gauges
          BY DEF Types, Gauges
        <4>2. Share(m.me, c, "prey", "num") = 0
          BY <1>7 DEF Share
        <4>3. Others(m, c, "prey", "num")
                = Value(m.loc, c, "prey", "num") - Share(m.me, c, "prey", "num")
          BY <1>1, <1>2, <4>1, OthersType
        <4>4. Value(m.loc, c, "prey", "num") = n /\ n \in Int
          BY <1>1, <1>2, <4>1, SceneType, GridType DEF Value, Read
        <4>5. Others(m, c, "prey", "num") > 0
          BY <1>7, <4>2, <4>3, <4>4
        <4>6. Others(m, c, "prey", "num") = Others(s, c, "prey", "num")
          BY <1>1, <1>2, <4>1 DEF Balanced
        <4> QED BY <3>2, <3>3, <4>5, <4>6
      <3>7. s.me.type = "pred" /\ t.born = <<>> /\ t.me.type = s.me.type
        BY <1>1, <1>2, <1>7, <3>2, <3>3
      <3> QED BY <3>3, <3>4, <3>5, <3>6, <3>7 DEF t
    <2> QED BY <2>1, <2>2
  <1> QED BY <1>5, <1>6, <1>7

\* The babies of a turn: none or two.
Babies(born, r) ==
  /\ born \in Seq(Beings) /\ Len(born) \in {0, 2}
  /\ \A i \in 1 .. Len(born) : BabyOf(born[i], r)

LEMMA NoBabies == \A r : Babies(<<>>, r)
  BY DEF Babies

\* A creature that gives birth met another with the energy to breed.
LEMMA BreedEffect ==
  ASSUME NEW s \in Scenes, s.me.visible, s.born = <<>>, NEW d \in Direction
  PROVE  LET t == breed(s, d)
         IN  /\ t \in Scenes /\ t.me.type = s.me.type /\ Babies(t.born, t.me)
             /\ Balanced(s, t) /\ SameKills(s, t)
             /\ t.born # <<>> => Others(s, t.me.at, t.me.type, "breed") > 0
  <1> DEFINE m == move(s, d)
             t == breed(s, d)
             i == set_invisible(m)
             M == [i.me EXCEPT !.count_down = BreedPause, !.energy = @ - BreedCost]
             p == [i EXCEPT !.me = M]
             f == Baby(p)
             g == Baby(f)
             n == m.loc[m.me.at].breed[m.me.type]
  <1>1. /\ m \in Scenes /\ m.born = <<>> /\ Balanced(s, m) /\ SameKills(s, m)
        /\ m.me.type = s.me.type /\ m.me.visible
    BY MoveEffect DEF Became
  <1>2. /\ m.me.at \in Cells /\ m.me.type \in Types /\ m.me.energy \in Int
        /\ BreedCost \in Int /\ BreedPause \in Int
    BY <1>1, SceneType, Numbers
  <1>3. t = IF n > 1 THEN g ELSE m
    <2> DEFINE q == [i EXCEPT !.me.count_down = BreedPause, !.me.energy = @ - BreedCost]
    <2>1. t = IF n > 1 THEN Baby(Baby(q)) ELSE m
      BY Zenon DEF breed
    <2>2. q = p
      <3> HIDE DEF i
      <3> QED BY Zenon
    <2> HIDE DEF q, p, m, t, n
    <2> QED BY <2>1, <2>2, Zenon
  <1> HIDE DEF m, t
  <1>4. CASE ~(n > 1)
    <2>1. t = m
      BY <1>3, <1>4
    <2>2. Babies(t.born, t.me)
      BY <1>1, <2>1, NoBabies
    <2> QED BY <1>1, <2>1, <2>2 DEF t
  <1>5. CASE n > 1
    <2>1. /\ i \in Scenes /\ i.born = <<>> /\ Balanced(m, i) /\ SameKills(m, i)
          /\ Became(m.me, i.me, m.me.energy, m.me.at, m.me.count_down, FALSE)
      BY <1>1, InvisibleEffect
    <2> HIDE DEF i
    <2>2. Became(i.me, M, m.me.energy - BreedCost, m.me.at, BreedPause, FALSE)
      <3> PICK energy \in Int : energy = m.me.energy - BreedCost
        BY <1>2
      <3>1. i.me \in Beings /\ i.me.energy = m.me.energy /\ i.me.at = m.me.at
            /\ ~i.me.visible
        BY <2>1 DEF Became
      <3>2. M = [i.me EXCEPT !.count_down = BreedPause, !.energy = energy]
        BY <3>1
      <3> HIDE DEF M
      <3>3. M \in Beings
        BY <1>2, <3>1, <3>2 DEF Beings
      <3>4. /\ M.type = i.me.type /\ M.energy = energy /\ M.at = i.me.at
            /\ M.count_down = BreedPause /\ M.visible = i.me.visible
        BY <3>1, <3>2 DEF Beings
      <3> QED BY <2>1, <3>1, <3>3, <3>4 DEF Became, Beings
    <2> HIDE DEF M
    <2>3. /\ p \in Scenes /\ p.me = M /\ p.born = <<>> /\ Balanced(i, p) /\ SameKills(i, p)
      <3>1. /\ M \in Beings /\ M.at = i.me.at /\ M.type = i.me.type
            /\ M.visible = i.me.visible /\ ~i.me.visible
        BY <2>1, <2>2 DEF Became
      <3> QED BY <2>1, <3>1, SelfChanges
    <2> HIDE DEF p
    <2>5. /\ f \in Scenes /\ f.me = p.me /\ Balanced(p, f) /\ SameKills(p, f)
          /\ \E b : f.born = Append(p.born, b) /\ BabyOf(b, p.me)
      BY <2>3, BabyEffect
    <2> HIDE DEF f
    <2>6. /\ g \in Scenes /\ g.me = f.me /\ Balanced(f, g) /\ SameKills(f, g)
          /\ \E b : g.born = Append(f.born, b) /\ BabyOf(b, f.me)
      BY <2>5, BabyEffect
    <2> HIDE DEF g
    <2>7. g.me.type = s.me.type /\ g.me.at = m.me.at /\ g.me.type = m.me.type
      BY <1>1, <2>1, <2>2, <2>3, <2>5, <2>6 DEF Became
    <2>8. Babies(g.born, g.me)
      <3>1. PICK a : f.born = Append(<<>>, a) /\ BabyOf(a, g.me)
        BY <2>3, <2>5, <2>6
      <3>2. PICK b : g.born = Append(f.born, b) /\ BabyOf(b, g.me)
        BY <2>5, <2>6
      <3>3. a \in Beings /\ b \in Beings /\ Append(<<>>, a) = <<a>>
        BY <3>1, <3>2 DEF BabyOf
      <3>4. /\ Append(<<a>>, b) \in Seq(Beings) /\ Len(Append(<<a>>, b)) = 2
            /\ Append(<<a>>, b)[1] = a /\ Append(<<a>>, b)[2] = b
        BY <3>3
      <3>5. \A j \in 1 .. 2 : j = 1 \/ j = 2
        OBVIOUS
      <3>6. g.born = Append(<<a>>, b)
        BY <3>1, <3>2, <3>3
      <3> QED BY <3>1, <3>2, <3>4, <3>5, <3>6 DEF Babies
    <2>9. Balanced(s, g)
      <3>1. Balanced(s, i)
        BY <1>1, <2>1, BalancedTrans
      <3>2. Balanced(i, f)
        BY <2>3, <2>5, BalancedTrans
      <3>3. Balanced(i, g)
        BY <2>6, <3>2, BalancedTrans
      <3> QED BY <3>1, <3>3, BalancedTrans
    <2>10. SameKills(s, g)
      BY <1>1, <2>1, <2>3, <2>5, <2>6 DEF SameKills
    <2>11. Others(s, m.me.at, m.me.type, "breed") > 0
      <3> DEFINE c == m.me.at
                 k == m.me.type
      <3>0. "breed" \in Gauges
        BY DEF Gauges
      <3>1. /\ Others(m, c, k, "breed") = Value(m.loc, c, k, "breed") - Share(m.me, c, k, "breed")
            /\ Share(m.me, c, k, "breed") \in {0, 1}
        BY <1>1, <1>2, <3>0, OthersType
      <3>2. Value(m.loc, c, k, "breed") = n /\ n \in Int
        BY <1>1, <1>2, SceneType, GridType DEF Value, Read
      <3>3. Others(m, c, k, "breed") > 0
        BY <1>5, <3>1, <3>2
      <3> QED BY <1>1, <1>2, <3>0, <3>3 DEF Balanced
    <2>12. t = g
      BY <1>3, <1>5 DEF g, f, p
    <2> QED BY <2>6, <2>7, <2>8, <2>9, <2>10, <2>11, <2>12 DEF t
  <1> QED BY <1>4, <1>5

\* The counters say of the living creature what they said of it.
Settled(s, t) ==
  \A c \in Cells, k \in Types, x \in Gauges :
    (Value(t.loc, c, k, x) - OneIf(t.me \in Group(c, k, x)))
      - Tally(t.born, Group(c, k, x)) = Others(s, c, k, x)

LEMMA BalancedSettled ==
  ASSUME NEW s, NEW t, NEW u, Balanced(s, t), Settled(t, u)
  PROVE  Settled(s, u)
  BY DEF Balanced, Settled

LEMMA Living ==
  ASSUME NEW s \in Scenes, Alive(s.me)
  PROVE  Settled(s, s)
  <1>1. \A c, k, x : OneIf(s.me \in Group(c, k, x)) = Share(s.me, c, k, x)
    BY SceneType, InGroup
  <1> QED BY <1>1 DEF Settled, Others

\* A creature that has died is no longer counted.
LEMMA DeadSettled ==
  ASSUME NEW s \in Scenes, ~Alive(s.me), NEW n \in Int, NEW r \in Int, NEW t,
         n = -One(s.me.visible), r = -One(~s.me.visible), CountedIn(s, t, n, 0, r)
  PROVE  Settled(s, t)
  <1>1. s.me \in Beings /\ s.me.energy \in Int /\ Fit(s.me.energy) = 0
    BY SceneType, Numbers DEF Fit, One, Alive
  <1>2. t \in Scenes /\ t.me = s.me /\ t.born = s.born
        /\ Shifted(s.loc, t.loc, s.me.at, s.me.type, n, 0, r)
    BY DEF CountedIn
  <1>3. ASSUME NEW c \in Cells, NEW k \in Types, NEW x \in Gauges
        PROVE  (Value(t.loc, c, k, x) - OneIf(t.me \in Group(c, k, x)))
                 - Tally(t.born, Group(c, k, x)) = Others(s, c, k, x)
    <2>1. Value(s.loc, c, k, x) \in Int /\ Share(s.me, c, k, x) \in Int
      BY OthersType
    <2>2. Value(t.loc, c, k, x) = Value(s.loc, c, k, x)
            + IF c = s.me.at /\ k = s.me.type THEN Read(x, n, 0, r) ELSE 0
      BY <1>2 DEF Shifted
    <2>3. Share(s.me, c, k, x)
            = IF c = s.me.at /\ k = s.me.type THEN -Read(x, n, 0, r) ELSE 0
      <3>1. Weight(s.me, x) = -Read(x, n, 0, r)
        BY <1>1 DEF Weight, Read, One
      <3> QED BY <3>1 DEF Share
    <2>4. OneIf(t.me \in Group(c, k, x)) = 0
      BY <1>1, <1>2, InGroup
    <2>5. Read(x, n, 0, r) \in Int
      BY DEF Read
    <2>6. Value(t.loc, c, k, x) - OneIf(t.me \in Group(c, k, x))
            = Value(s.loc, c, k, x) - Share(s.me, c, k, x)
      BY <2>1, <2>2, <2>3, <2>4, <2>5
    <2> QED BY <1>2, <2>6 DEF Others
  <1> QED BY <1>3 DEF Settled

LEMMA BuriedEffect ==
  ASSUME NEW s \in Scenes
  PROVE  LET t == Buried(s)
         IN  t \in Scenes /\ t.me = s.me /\ t.born = s.born /\ Settled(s, t) /\ SameKills(s, t)
  <1> DEFINE t == Buried(s)
  <1>1. CASE s.me.energy > 0
    <2>1. t = s
      BY <1>1 DEF Buried
    <2> QED BY <1>1, <2>1, Living DEF Alive, SameKills
  <1>2. CASE ~(s.me.energy > 0)
    <2> DEFINE n == -One(s.me.visible)
               r == -One(~s.me.visible)
    <2>1. t = Count(s, n, 0, r)
      BY <1>2 DEF Buried
    <2>2. n \in Int /\ r \in Int
      BY DEF One
    <2>3. CountedIn(s, t, n, 0, r)
      <3> HIDE DEF n, r, t
      <3> QED BY <2>1, <2>2, CountEffect
    <2> HIDE DEF t
    <2>4. Settled(s, t)
      BY <1>2, <2>2, <2>3, DeadSettled DEF Alive
    <2> QED BY <2>3, <2>4 DEF CountedIn, t
  <1> QED BY <1>1, <1>2

-----------------------------------------------------------------------------
(* The invariant.                                                          *)

Typed ==
  /\ creatures \in Seq(Beings) /\ locations \in Grids
  /\ turn \in Nat /\ number \in Int

\* The counters of the locations count the living.
Counting ==
  \A c \in Cells, k \in Types, x \in Gauges :
    Value(locations, c, k, x) = Tally(creatures, Group(c, k, x))

\* Who is still to act is alive.
Lively == \A i \in 1 .. Len(creatures) : i >= turn => Alive(creatures[i])

\* Every call is counted; when the last has been made two babies may be over.
Numbered ==
  turn > 0 => /\ turn <= Len(creatures) => number = turn - 1
              /\ turn > Len(creatures) => Len(creatures) - number \in {0, 2}

Consistent == Typed /\ Counting /\ Lively /\ Numbered

LEMMA TurnOpens ==
  ASSUME Consistent, InTurn
  PROVE  /\ Counted \in Scenes /\ Counted.born = <<>> /\ Counted.loc = locations
         /\ Counted.me.type = creatures[turn].type /\ Counted.me.at = creatures[turn].at
         /\ Counted.me.energy = creatures[turn].energy
         /\ Counted.me.visible = creatures[turn].visible
         /\ Alive(Counted.me)
         /\ creatures[turn] \in Beings /\ creatures[turn].visible \in BOOLEAN
         /\ \A c \in Cells, k \in Types, x \in Gauges :
              Others(Counted, c, k, x)
                = Tally(creatures, Group(c, k, x)) - OneIf(creatures[turn] \in Group(c, k, x))
  <1> DEFINE r == creatures[turn]
             M == [r EXCEPT !.count_down = IF @ > 0 THEN @ - 1 ELSE 0]
  <1>1. /\ creatures \in Seq(Beings) /\ locations \in Grids /\ turn \in 1 .. Len(creatures)
    BY DEF Consistent, Typed, InTurn
  <1>2. r \in Beings /\ r.visible \in BOOLEAN /\ Alive(r)
    <2>1. r \in Beings
      BY <1>1
    <2>2. turn >= turn
      BY <1>1
    <2> QED BY <1>1, <2>1, <2>2 DEF Beings, Consistent, Lively
  <1>3. Counted = [me |-> M, loc |-> locations, born |-> <<>>]
    BY DEF Counted
  <1> HIDE DEF r
  <1>4. /\ M \in Beings /\ M.type = r.type /\ M.at = r.at /\ M.energy = r.energy
        /\ M.visible = r.visible
    <2>1. r.count_down \in Int
      BY <1>2 DEF Beings
    <2> PICK n \in Int : n = IF r.count_down > 0 THEN r.count_down - 1 ELSE 0
      BY <2>1
    <2>2. M = [r EXCEPT !.count_down = n]
      OBVIOUS
    <2> QED BY <1>2, <2>2 DEF Beings
  <1> HIDE DEF M
  <1>5. Counted \in Scenes /\ Counted.me = M /\ Counted.loc = locations /\ Counted.born = <<>>
    BY <1>1, <1>3, <1>4 DEF Scenes
  <1>6. ASSUME NEW c \in Cells, NEW k \in Types, NEW x \in Gauges
        PROVE  Others(Counted, c, k, x)
                 = Tally(creatures, Group(c, k, x)) - OneIf(r \in Group(c, k, x))
    <2>1. Others(Counted, c, k, x) = Value(locations, c, k, x) - Share(M, c, k, x)
      BY <1>5, OthersType
    <2>2. Value(locations, c, k, x) = Tally(creatures, Group(c, k, x))
      BY DEF Consistent, Counting
    <2>3. Share(M, c, k, x) = Share(r, c, k, x)
      BY <1>4 DEF Share, Weight
    <2>4. OneIf(r \in Group(c, k, x)) = Share(r, c, k, x)
      BY <1>2, InGroup
    <2> QED BY <2>1, <2>2, <2>3, <2>4
  <1> QED BY <1>2, <1>4, <1>5, <1>6 DEF r, Alive

LEMMA WokenEffect ==
  ASSUME Consistent, InTurn
  PROVE  /\ Woken \in Scenes /\ Woken.born = <<>> /\ Woken.me.visible /\ Alive(Woken.me)
         /\ Woken.me.type = Counted.me.type
         /\ Balanced(Counted, Woken) /\ SameKills(Counted, Woken)
  <1>1. Counted \in Scenes /\ Counted.born = <<>> /\ Alive(Counted.me)
    BY TurnOpens
  <1>2. CASE Counted.me.visible
    <2>1. Woken = Counted
      BY <1>2 DEF Woken
    <2> QED BY <1>1, <1>2, <2>1 DEF Balanced, SameKills
  <1>3. CASE ~Counted.me.visible
    <2>1. Woken = set_visible(Counted)
      BY <1>3 DEF Woken
    <2>2. /\ Woken \in Scenes /\ Woken.born = Counted.born
          /\ Became(Counted.me, Woken.me, Counted.me.energy, Counted.me.at,
                    Counted.me.count_down, TRUE)
          /\ Balanced(Counted, Woken) /\ SameKills(Counted, Woken)
      BY <1>1, <1>3, <2>1, VisibleEffect
    <2> QED BY <1>1, <2>2 DEF Became, Alive
  <1> QED BY <1>2, <1>3

\* A kill is taken off where a prey is eaten, and added where one can be.
Pays(t) ==
  IF IsEaten
  THEN \A c \in Cells :
         t.loc[c].kill = locations[c].kill - IF c = creatures[turn].at THEN 1 ELSE 0
  ELSE \/ SameKills(Counted, t)
       \/ /\ KillNoted(Counted, t) /\ Counted.me.type = "pred"
          /\ Others(Counted, t.me.at, "prey", "num") > 0

\* What a turn comes to.
Born(t) ==
  /\ t.me.type = Counted.me.type /\ Babies(t.born, t.me)
  /\ t.born # <<>> => Others(Counted, t.me.at, t.me.type, "breed") > 0
Outcome(t) == t \in Scenes /\ Born(t) /\ Settled(Counted, t) /\ Pays(t)

LEMMA BuriedOutcome ==
  ASSUME NEW u \in Scenes, Born(u), Balanced(Counted, u), Pays(u), ~IsEaten
  PROVE  Outcome(Buried(u))
  <1> DEFINE t == Buried(u)
  <1>1. t \in Scenes /\ t.me = u.me /\ t.born = u.born /\ Settled(u, t) /\ SameKills(u, t)
    BY BuriedEffect
  <1> HIDE DEF t
  <1>2. Born(t)
    BY <1>1 DEF Born
  <1>3. Settled(Counted, t)
    BY <1>1, BalancedSettled
  <1>4. Pays(t)
    BY <1>1 DEF Pays, SameKills, KillNoted
  <1> QED BY <1>1, <1>2, <1>3, <1>4 DEF Outcome, t

LEMMA EatenOutcome ==
  ASSUME Consistent, Eaten
  PROVE  \E t : Outcome(t) /\ Called(t)
  <1> DEFINE e == change_energy(Counted, -Counted.me.energy)
             q == Count(e, -1, 0, 0)
             at == creatures[turn].at
             L == [q.loc[at] EXCEPT !.kill = @ - 1]
             G == [q.loc EXCEPT ![at] = L]
             t == [q EXCEPT !.loc = G]
  <1>1. IsEaten /\ InTurn /\ creatures[turn].visible /\ creatures[turn].type = "prey"
    <2>1. IsEaten
      BY Zenon DEF Eaten
    <2> QED BY <2>1, Zenon DEF IsEaten
  <1>2. /\ Counted \in Scenes /\ Counted.born = <<>> /\ Counted.loc = locations
        /\ Counted.me.at = at /\ Counted.me.visible
        /\ at \in Cells /\ Counted.me.energy \in Int
    BY <1>1, TurnOpens, SceneType
  <1>3. /\ e \in Scenes /\ e.born = <<>> /\ Balanced(Counted, e) /\ SameKills(Counted, e)
        /\ e.me.type = Counted.me.type /\ e.me.at = at /\ e.me.visible /\ ~Alive(e.me)
    <2> PICK d \in Int : d = -Counted.me.energy
      BY <1>2
    <2>1. /\ e \in Scenes /\ e.born = Counted.born
          /\ Balanced(Counted, e) /\ SameKills(Counted, e)
          /\ Became(Counted.me, e.me, Counted.me.energy + d, Counted.me.at,
                    Counted.me.count_down, TRUE)
      BY <1>2, EnergyEffect
    <2> HIDE DEF e
    <2> QED BY <1>2, <2>1 DEF Became, Alive
  <1>4. Called(t)
    <2> DEFINE a == q.me.at
               u == [q EXCEPT !.loc[a].kill = @ - 1]
    <2>1. Called(u)
      BY Zenon DEF Eaten
    <2>2. a = at
      <3> HIDE DEF e
      <3>1. CountedIn(e, q, -1, 0, 0)
        BY <1>3, CountEffect
      <3> QED BY <1>3, <3>1 DEF CountedIn
    <2>3. u = t
      <3> HIDE DEF a, at, q
      <3> QED BY <2>2, Zenon
    <2> HIDE DEF u, t
    <2> QED BY <2>1, <2>3
  <1> HIDE DEF e
  <1>5. CountedIn(e, q, -1, 0, 0)
    BY <1>3, CountEffect
  <1> HIDE DEF q
  <1>6. q \in Scenes /\ q.me = e.me /\ q.born = <<>> /\ SameKills(Counted, q)
    BY <1>3, <1>5 DEF CountedIn, SameKills
  <1>7. Settled(e, q)
    <2>0. One(e.me.visible) = 1 /\ One(~e.me.visible) = 0
      BY <1>3, Zenon DEF One
    <2>1. -1 \in Int /\ 0 \in Int /\ -1 = -One(e.me.visible) /\ 0 = -One(~e.me.visible)
      BY <2>0
    <2> QED BY <1>3, <1>5, <2>1, DeadSettled
  <1>8. q.loc \in Grids /\ \A c \in Cells : q.loc[c] \in Locations /\ q.loc[c].kill \in Int
    BY <1>6, SceneType DEF Grids
  <1> HIDE DEF at
  <1>9. /\ L \in Locations /\ L.num = q.loc[at].num /\ L.breed = q.loc[at].breed
        /\ L.resting = q.loc[at].resting /\ L.kill = q.loc[at].kill - 1
    <2> PICK l \in Locations : l = q.loc[at]
      BY <1>2, <1>8
    <2> PICK n \in Int : n = l.kill - 1
      BY DEF Locations
    <2>1. L = [l EXCEPT !.kill = n]
      OBVIOUS
    <2> HIDE DEF L
    <2>2. L \in Locations /\ L.num = l.num /\ L.breed = l.breed /\ L.resting = l.resting
          /\ L.kill = n
      BY <2>1 DEF Locations
    <2> QED BY <2>2
  <1> HIDE DEF L
  <1>10. G \in Grids /\ G[at] = L /\ \A c \in Cells : c # at => G[c] = q.loc[c]
    BY <1>2, <1>8, <1>9 DEF Grids
  <1> HIDE DEF G
  <1>11. t \in Scenes /\ t.me = e.me /\ t.loc = G /\ t.born = <<>>
    BY <1>6, <1>10 DEF Scenes
  <1> HIDE DEF t
  <1>12. Settled(Counted, t)
    <2>1. ASSUME NEW c \in Cells, NEW k \in Types, NEW x \in Gauges
          PROVE  Value(t.loc, c, k, x) = Value(q.loc, c, k, x)
      BY <1>9, <1>10, <1>11 DEF Value
    <2>2. Settled(e, t)
      BY <1>6, <1>7, <1>11, <2>1 DEF Settled
    <2> QED BY <1>3, <2>2, BalancedSettled
  <1>13. Born(t)
    BY <1>3, <1>11, NoBabies DEF Born
  <1>14. Pays(t)
    <2>1. ASSUME NEW c \in Cells
          PROVE  t.loc[c].kill = locations[c].kill - IF c = at THEN 1 ELSE 0
      <3>1. q.loc[c].kill = locations[c].kill /\ q.loc[c].kill \in Int
        BY <1>2, <1>6, <1>8 DEF SameKills
      <3> QED BY <1>9, <1>10, <1>11, <3>1
    <2> QED BY <1>1, <2>1 DEF Pays, at
  <1> QED BY <1>4, <1>11, <1>12, <1>13, <1>14 DEF Outcome

LEMMA ActOutcome ==
  ASSUME Consistent, Act
  PROVE  \E t : Outcome(t) /\ Called(t)
  <1>1. InTurn
    BY Zenon DEF Act, Eaten, IsEaten, Wait, Undecided, Move, Rest, Breed, Hunt, Ready
  <1>2. Counted \in Scenes /\ Counted.born = <<>> /\ Alive(Counted.me)
    BY <1>1, TurnOpens
  <1>3. /\ Woken \in Scenes /\ Woken.born = <<>> /\ Woken.me.visible /\ Alive(Woken.me)
        /\ Woken.me.type = Counted.me.type
        /\ Balanced(Counted, Woken) /\ SameKills(Counted, Woken)
    BY <1>1, WokenEffect
  <1>4. CASE Eaten
    BY <1>4, EatenOutcome
  <1>5. CASE Wait
    <2>1. Settled(Counted, Counted) /\ SameKills(Counted, Counted) /\ Born(Counted)
      BY <1>2, Living, NoBabies DEF SameKills, Born
    <2> QED BY <1>2, <1>5, <2>1 DEF Wait, Outcome, Pays
  <1>6. CASE Undecided
    <2>1. Settled(Counted, Woken) /\ Born(Woken)
      BY <1>3, Living, BalancedSettled, NoBabies DEF Born
    <2> QED BY <1>3, <1>6, <2>1 DEF Undecided, Ready, Outcome, Pays
  <1>7. CASE Move
    <2>1. PICK d \in Direction : Called(Buried(move(Woken, d)))
      BY <1>7 DEF Move
    <2> DEFINE u == move(Woken, d)
    <2>2. /\ u \in Scenes /\ u.born = <<>> /\ u.me.type = Woken.me.type
          /\ Balanced(Woken, u) /\ SameKills(Woken, u)
      BY <1>3, MoveEffect DEF Became
    <2> HIDE DEF u
    <2>3. /\ Balanced(Counted, u) /\ Born(u) /\ ~IsEaten /\ Pays(u)
      BY <1>3, <1>7, <2>2, BalancedTrans, KillsTrans, NoBabies DEF Born, Pays, Move, Ready
    <2> QED BY <2>1, <2>2, <2>3, BuriedOutcome DEF u
  <1>8. CASE Rest
    <2>1. PICK time \in Times : Called(Buried(rest(Woken, time)))
      BY <1>8 DEF Rest
    <2> DEFINE u == rest(Woken, time)
    <2>2. /\ u \in Scenes /\ u.born = <<>> /\ u.me.type = Woken.me.type
          /\ Balanced(Woken, u) /\ SameKills(Woken, u)
      <3>1. time \in Int
        BY Numbers
      <3> QED BY <1>3, <3>1, RestEffect DEF Became
    <2> HIDE DEF u
    <2>3. /\ Balanced(Counted, u) /\ Born(u) /\ ~IsEaten /\ Pays(u)
      BY <1>3, <1>8, <2>2, BalancedTrans, KillsTrans, NoBabies DEF Born, Pays, Rest, Ready
    <2> QED BY <2>1, <2>2, <2>3, BuriedOutcome DEF u
  <1>9. CASE Breed
    <2>1. PICK d \in Direction : Called(Buried(breed(Woken, d)))
      BY <1>9 DEF Breed
    <2> DEFINE u == breed(Woken, d)
    <2>2. /\ u \in Scenes /\ u.me.type = Woken.me.type /\ Babies(u.born, u.me)
          /\ Balanced(Woken, u) /\ SameKills(Woken, u)
          /\ u.born # <<>> => Others(Woken, u.me.at, u.me.type, "breed") > 0
      BY <1>3, BreedEffect
    <2> HIDE DEF u
    <2>3. u.me.at \in Cells /\ u.me.type \in Types /\ "breed" \in Gauges
      BY <2>2, SceneType DEF Gauges
    <2>4. Others(Woken, u.me.at, u.me.type, "breed")
            = Others(Counted, u.me.at, u.me.type, "breed")
      BY <1>3, <2>3 DEF Balanced
    <2>5. /\ Balanced(Counted, u) /\ Born(u) /\ ~IsEaten /\ Pays(u)
      BY <1>3, <1>9, <2>2, <2>4, BalancedTrans, KillsTrans DEF Born, Pays, Breed, Ready
    <2> QED BY <2>1, <2>2, <2>5, BuriedOutcome DEF u
  <1>10. CASE Hunt
    <2>1. PICK d \in Direction, roll \in 0 .. Roll - 1 : Called(Buried(hunt(Woken, d, roll)))
      BY <1>10 DEF Hunt
    <2> DEFINE u == hunt(Woken, d, roll)
    <2>2. /\ u \in Scenes /\ u.born = <<>> /\ u.me.type = Woken.me.type
          /\ Balanced(Woken, u)
          /\ \/ SameKills(Woken, u)
             \/ /\ KillNoted(Woken, u) /\ Woken.me.type = "pred"
                /\ Others(Woken, u.me.at, "prey", "num") > 0
      <3>1. roll \in Int
        OBVIOUS
      <3> QED BY <1>3, <3>1, HuntEffect
    <2> HIDE DEF u
    <2>3. u.me.at \in Cells /\ "prey" \in Types /\ "num" \in Gauges
      BY <2>2, SceneType DEF Types, Gauges
    <2>4. Others(Woken, u.me.at, "prey", "num") = Others(Counted, u.me.at, "prey", "num")
      BY <1>3, <2>3 DEF Balanced
    <2>5. SameKills(Counted, u) \/ (KillNoted(Counted, u) /\ Woken.me.type = "pred"
                                    /\ Others(Woken, u.me.at, "prey", "num") > 0)
      BY <1>3, <2>2 DEF SameKills, KillNoted
    <2>6. ~IsEaten /\ Pays(u)
      BY <1>3, <1>10, <2>4, <2>5 DEF Pays, Hunt, Ready
    <2>7. Balanced(Counted, u) /\ Born(u)
      BY <1>3, <2>2, BalancedTrans, NoBabies DEF Born
    <2> QED BY <2>1, <2>2, <2>6, <2>7, BuriedOutcome DEF u
  <1> QED BY <1>4, <1>5, <1>6, <1>7, <1>8, <1>9, <1>10 DEF Act

-----------------------------------------------------------------------------
(* What a turn leaves.                                                     *)

\* The creature that acted takes its place and its babies the last ones.
LEMMA TurnKeeps ==
  ASSUME Consistent, InTurn, NEW t, Outcome(t), Called(t)
  PROVE  /\ Consistent' /\ locations' = t.loc /\ Len(t.born) \in {0, 2}
         /\ Len(creatures') = Len(creatures) + Len(t.born)
         /\ turn' = turn + 1 \/ turn' = Len(creatures') + 1
         /\ turn' <= Len(creatures') => turn' = turn + 1
         /\ \A i \in 1 .. Len(creatures) :
              creatures'[i] = IF i = turn THEN t.me ELSE creatures[i]
         /\ \A i \in Len(creatures) + 1 .. Len(creatures) + Len(t.born) :
              creatures'[i] = t.born[i - Len(creatures)]
  <1> DEFINE n == Len(creatures)
             m == Len(t.born)
             cs == [creatures EXCEPT ![turn] = t.me]
  <1>1. /\ Typed /\ Lively /\ t \in Scenes /\ turn \in 1 .. n /\ n \in Nat
        /\ creatures \in Seq(Beings) /\ t.me \in Beings /\ t.loc \in Grids
        /\ t.born \in Seq(Beings) /\ number = turn - 1
    BY SceneType DEF Consistent, Outcome, InTurn, Typed, Numbered
  <1>2. m \in {0, 2} /\ \A i \in 1 .. m : Alive(t.born[i])
    BY DEF Outcome, Born, Babies, BabyOf
  <1>3. /\ creatures' = Joint(cs, t.born) /\ locations' = t.loc /\ number' = number + 1
        /\ turn' = IF turn < n THEN turn + 1 ELSE Len(creatures') + 1
    BY DEF Called, Joint
  <1>4. /\ cs \in Seq(Beings) /\ Len(cs) = n
        /\ \A i \in 1 .. n : cs[i] = IF i = turn THEN t.me ELSE creatures[i]
    BY <1>1
  <1>5. ASSUME NEW P
        PROVE  Tally(cs, P) = Tally(creatures, P) - OneIf(creatures[turn] \in P)
                                + OneIf(t.me \in P)
    BY <1>1, TallyExcept
  <1> HIDE DEF cs
  <1>6. /\ creatures' \in Seq(Beings) /\ Len(creatures') = n + m
        /\ \A i \in 1 .. n : creatures'[i] = IF i = turn THEN t.me ELSE creatures[i]
        /\ \A i \in n + 1 .. n + m : creatures'[i] = t.born[i - n]
    <2> DEFINE J == Joint(cs, t.born)
    <2>1. /\ J \in Seq(Beings) /\ Len(J) = Len(cs) + Len(t.born)
          /\ \A i \in 1 .. Len(cs) : J[i] = cs[i]
          /\ \A i \in Len(cs) + 1 .. Len(cs) + Len(t.born) : J[i] = t.born[i - Len(cs)]
      BY <1>1, <1>4, Concatenated
    <2> HIDE DEF J
    <2>2. creatures' = J
      BY <1>3 DEF J
    <2> QED BY <1>4, <2>1, <2>2
  <1>7. turn' = turn + 1 \/ turn' = n + m + 1
    BY <1>3, <1>6
  <1>8. turn' <= n + m => turn' = turn + 1
    <2>1. CASE turn < n
      BY <1>3, <2>1
    <2>2. CASE ~(turn < n)
      BY <1>1, <1>2, <1>3, <1>6, <2>2
    <2> QED BY <2>1, <2>2
  <1>9. Typed'
    BY <1>1, <1>2, <1>3, <1>6 DEF Typed
  <1>10. Counting'
    <2>1. ASSUME NEW c \in Cells, NEW k \in Types, NEW x \in Gauges
          PROVE  Value(t.loc, c, k, x) = Tally(creatures', Group(c, k, x))
      <3> DEFINE P == Group(c, k, x)
      <3>1. Others(Counted, c, k, x) = Tally(creatures, P) - OneIf(creatures[turn] \in P)
        BY TurnOpens
      <3>2. (Value(t.loc, c, k, x) - OneIf(t.me \in P)) - Tally(t.born, P)
              = Others(Counted, c, k, x)
        BY DEF Outcome, Settled
      <3>3. Value(t.loc, c, k, x) \in Int
        BY <1>1, GridType
      <3> HIDE DEF P
      <3>4. Tally(creatures', P) = Tally(cs, P) + Tally(t.born, P)
        BY <1>1, <1>3, <1>4, TallyJoint
      <3>5. Tally(creatures, P) \in Int /\ Tally(t.born, P) \in Int
        BY <1>1, Tallied
      <3>6. OneIf(creatures[turn] \in P) \in Int /\ OneIf(t.me \in P) \in Int
        BY DEF OneIf
      <3>7. Value(t.loc, c, k, x) = Tally(creatures', P)
        BY <1>5, <3>1, <3>2, <3>3, <3>4, <3>5, <3>6
      <3> QED BY <3>7 DEF P
    <2> QED BY <1>3, <2>1 DEF Counting
  <1>11. Lively'
    <2>1. ASSUME NEW i \in 1 .. n + m, i >= turn'
          PROVE  Alive(creatures'[i])
      <3>1. i # turn /\ turn' = turn + 1 /\ i >= turn
        BY <1>1, <1>2, <1>7, <1>8, <2>1
      <3>2. CASE i \in 1 .. n
        BY <1>1, <1>6, <3>1, <3>2 DEF Lively
      <3>3. CASE i \notin 1 .. n
        <4>1. i \in n + 1 .. n + m /\ i - n \in 1 .. m
          BY <1>1, <1>2, <2>1, <3>3
        <4> QED BY <1>2, <1>6, <4>1
      <3> QED BY <3>2, <3>3
    <2> QED BY <1>6, <2>1 DEF Lively
  <1>12. Numbered'
    <2> DEFINE l == Len(creatures')
    <2>1. /\ turn \in 1 .. n /\ n \in Nat /\ m \in {0, 2} /\ l = n + m /\ number' = turn
          /\ turn' = IF turn < n THEN turn + 1 ELSE l + 1
      BY <1>1, <1>2, <1>3, <1>6
    <2> HIDE DEF n, m, l
    <2>2. CASE turn < n
      <3>1. turn' = turn + 1 /\ turn' <= l /\ number' = turn' - 1 /\ ~(turn' > l)
        BY <2>1, <2>2
      <3> QED BY <3>1 DEF Numbered, l
    <2>3. CASE ~(turn < n)
      <3>1. turn' = l + 1 /\ l - number' = m /\ l \in Nat
        BY <2>1, <2>3
      <3>2. turn' > l /\ ~(turn' <= l) /\ l - number' \in {0, 2}
        BY <2>1, <3>1
      <3> QED BY <3>2 DEF Numbered, l
    <2> QED BY <2>2, <2>3
  <1> QED BY <1>2, <1>3, <1>6, <1>7, <1>8, <1>9, <1>10, <1>11, <1>12 DEF Consistent

-----------------------------------------------------------------------------
(* Between the turns.                                                      *)

Survivors == {i \in DOMAIN creatures : Alive(creatures[i])}

\* The dead leave, who counted nowhere.
LEMMA PurgeKeeps ==
  ASSUME Consistent, Purge
  PROVE  /\ Consistent' /\ creatures' = Kept(creatures, Survivors)
         /\ \A c \in Cells, k \in Types, x \in Gauges :
              Tally(creatures', Group(c, k, x)) = Tally(creatures, Group(c, k, x))
  <1> DEFINE K == Kept(creatures, Survivors)
  <1>1. /\ Typed /\ Counting /\ Lively /\ Numbered
        /\ creatures \in Seq(Beings) /\ locations \in Grids /\ number \in Int
    BY DEF Consistent, Typed
  <1>2. /\ creatures' = K /\ turn' = 0 /\ locations' = locations
        /\ number' = number - (Len(creatures) - Len(creatures'))
    BY DEF Purge, Survivors
  <1>3. K \in Seq(Beings)
    BY <1>1, KeptSeq
  <1>4. \A j \in 1 .. Len(K) : Alive(K[j])
    <2> TAKE j \in 1 .. Len(K)
    <2>1. PICK i \in 1 .. Len(creatures) : i \in Survivors /\ K[j] = creatures[i]
      BY <1>1, KeptElements
    <2> QED BY <2>1 DEF Survivors
  <1>5. ASSUME NEW c \in Cells, NEW k \in Types, NEW x \in Gauges
        PROVE  Tally(K, Group(c, k, x)) = Tally(creatures, Group(c, k, x))
    <2>1. \A i \in 1 .. Len(creatures) : creatures[i] \in Group(c, k, x) => i \in Survivors
      BY <1>1 DEF Group, Survivors
    <2> QED BY <1>1, <2>1, TallyKept
  <1> HIDE DEF K
  <1>6. Typed'
    BY <1>1, <1>2, <1>3 DEF Typed
  <1>7. Counting'
    BY <1>1, <1>2, <1>5 DEF Counting
  <1>8. Lively'
    BY <1>2, <1>4 DEF Lively
  <1>9. Numbered'
    BY <1>2 DEF Numbered
  <1> QED BY <1>2, <1>5, <1>6, <1>7, <1>8, <1>9 DEF Consistent, K

\* The creatures of a configuration.
Fresh == {r \in Beings : r.energy = INIT_ENERGY /\ r.visible}

FreshOnes(s, n, k) == s \in Seq(Fresh) /\ Len(s) = n /\ \A i \in 1 .. n : s[i].type = k

LEMMA MadeFresh ==
  ASSUME NEW n \in Nat, NEW places \in [1 .. n -> Cells], NEW k \in Types
  PROVE  FreshOnes([i \in DOMAIN places |->
                      [type |-> k, at |-> places[i], energy |-> INIT_ENERGY,
                       count_down |-> 0, visible |-> TRUE]], n, k)
  <1> DEFINE one(i) == [type |-> k, at |-> places[i], energy |-> INIT_ENERGY,
                        count_down |-> 0, visible |-> TRUE]
             s == [i \in DOMAIN places |-> one(i)]
  <1>1. \A i \in 1 .. n : one(i) \in Fresh /\ one(i).type = k
    <2> TAKE i \in 1 .. n
    <2>1. places[i] \in Cells /\ INIT_ENERGY \in Int
      BY Numbers
    <2> QED BY <2>1 DEF Fresh, Beings
  <1> HIDE DEF one
  <1>2. s = [i \in 1 .. n |-> one(i)]
    OBVIOUS
  <1> HIDE DEF s
  <1>3. s \in Seq(Fresh) /\ Len(s) = n /\ \A i \in 1 .. n : s[i] = one(i)
    BY <1>1, <1>2
  <1>4. FreshOnes(s, n, k)
    BY <1>1, <1>3 DEF FreshOnes
  <1> QED BY <1>4 DEF s, one

\* Who is placed: the predators come last.
LEMMA ConfigPlaces ==
  ASSUME app_config
  PROVE  /\ creatures' \in Seq(Fresh) /\ creatures' \in Seq(Beings)
         /\ Predators \subseteq {0, 1} =>
              \A i \in 1 .. Len(creatures') :
                creatures'[i].type = "pred" => i = Len(creatures')
  <1>1. PICK n \in Preys \X Predators :
          \E prey \in [1 .. n[1] -> Cells], pred \in [1 .. n[2] -> Cells] :
             creatures' = Placed(prey, pred)
    BY DEF app_config
  <1>2. PICK prey \in [1 .. n[1] -> Cells], pred \in [1 .. n[2] -> Cells] :
          creatures' = Placed(prey, pred)
    BY <1>1
  <1>3. n[1] \in Nat /\ n[2] \in Nat /\ n[2] \in Predators
        /\ "pred" \in Types /\ "prey" \in Types
    BY Numbers DEF Types
  <1> DEFINE a == [i \in DOMAIN prey |->
                      [type |-> "prey", at |-> prey[i], energy |-> INIT_ENERGY,
                       count_down |-> 0, visible |-> TRUE]]
             b == [i \in DOMAIN pred |->
                      [type |-> "pred", at |-> pred[i], energy |-> INIT_ENERGY,
                       count_down |-> 0, visible |-> TRUE]]
  <1>4. FreshOnes(a, n[1], "prey") /\ FreshOnes(b, n[2], "pred")
    BY <1>3, MadeFresh
  <1>5. creatures' = Joint(a, b)
    BY <1>2, Zenon DEF Placed, Joint
  <1> HIDE DEF a, b
  <1>6. /\ creatures' \in Seq(Fresh) /\ Len(creatures') = n[1] + n[2]
        /\ \A i \in 1 .. n[1] : creatures'[i].type = "prey"
    <2>1. /\ Joint(a, b) \in Seq(Fresh) /\ Len(Joint(a, b)) = Len(a) + Len(b)
          /\ \A i \in 1 .. Len(a) : Joint(a, b)[i] = a[i]
      <3>1. a \in Seq(Fresh) /\ b \in Seq(Fresh)
        BY <1>4 DEF FreshOnes
      <3> QED BY <3>1, Concatenated
    <2> QED BY <1>4, <1>5, <2>1 DEF FreshOnes
  <1>7. creatures' \in Seq(Beings)
    <2>1. Fresh \subseteq Beings
      BY DEF Fresh
    <2> QED BY <1>6, <2>1
  <1>8. ASSUME Predators \subseteq {0, 1}, NEW i \in 1 .. Len(creatures'),
               creatures'[i].type = "pred"
        PROVE  i = Len(creatures')
    <2>1. i \notin 1 .. n[1] /\ n[2] \in {0, 1}
      BY <1>3, <1>6, <1>8
    <2> QED BY <1>3, <1>6, <2>1
  <1> QED BY <1>6, <1>7, <1>8

\* Every creature of cs is counted once, at its place, and nothing else is.
AllAdded(cs, new) ==
  /\ new \in Grids
  /\ \A c \in Cells, k \in Types :
       LET all == Cardinality({i \in DOMAIN cs : cs[i].at = c /\ cs[i].type = k})
       IN  /\ new[c].kill = 0 /\ new[c].num[k] = all /\ new[c].breed[k] = all
           /\ new[c].resting[k] = 0

LEMMA PopulatedGrid ==
  ASSUME NEW cs \in Seq(Beings)
  PROVE  AllAdded(cs, Populated(Cleared, cs))
  <1> DEFINE all(c, k) == Cardinality({i \in DOMAIN cs : cs[i].at = c /\ cs[i].type = k})
             more(c) == [k \in Types |-> all(c, k)]
             N(c) == [k \in Types |-> Cleared[c].num[k] + more(c)[k]]
             B(c) == [k \in Types |-> Cleared[c].breed[k] + more(c)[k]]
             L(c) == [Cleared[c] EXCEPT !.num = N(c), !.breed = B(c)]
  <1>1. ASSUME NEW c \in Cells
        PROVE  /\ Cleared[c] \in Locations /\ Cleared[c].kill = 0
               /\ \A k \in Types : /\ Cleared[c].num[k] = 0 /\ Cleared[c].breed[k] = 0
                                   /\ Cleared[c].resting[k] = 0
    <2>1. Cleared[c] = Empty
      BY DEF Cleared
    <2>2. Empty \in Locations /\ Empty.kill = 0
          /\ \A k \in Types : Empty.num[k] = 0 /\ Empty.breed[k] = 0 /\ Empty.resting[k] = 0
      BY DEF Empty, Locations
    <2> QED BY <2>1, <2>2
  <1>2. ASSUME NEW c \in Cells, NEW k \in Types PROVE all(c, k) \in Nat
    <2> DEFINE S == {i \in DOMAIN cs : cs[i].at = c /\ cs[i].type = k}
    <2>1. S \in SUBSET (1 .. Len(cs)) /\ Len(cs) \in Int
      OBVIOUS
    <2> HIDE DEF S
    <2>2. IsFiniteSet(1 .. Len(cs))
      BY <2>1, FS_Interval
    <2>3. Cardinality(S) \in Nat
      BY <2>1, <2>2, FS_Subset, FS_CardinalityType
    <2> QED BY <2>3 DEF S
  <1>3. Populated(Cleared, cs) = [c \in Cells |-> L(c)]
    <2>1. ASSUME NEW c \in Cells
          PROVE  [Cleared[c] EXCEPT
                    !.num   = [k \in Types |-> @[k] + more(c)[k]],
                    !.breed = [k \in Types |-> @[k] + more(c)[k]]]
                   = L(c)
      <3> DEFINE l == Cleared[c]
      <3>1. l \in Locations
        BY <1>1
      <3> HIDE DEF l
      <3>2. [l EXCEPT !.num   = [k \in Types |-> @[k] + more(c)[k]],
                      !.breed = [k \in Types |-> @[k] + more(c)[k]]]
              = [l EXCEPT !.num = [k \in Types |-> l.num[k] + more(c)[k]],
                          !.breed = [k \in Types |-> l.breed[k] + more(c)[k]]]
        BY <3>1 DEF Locations
      <3> QED BY <3>2 DEF l
    <2> QED BY <2>1 DEF Populated
  <1>4. ASSUME NEW c \in Cells
        PROVE  /\ N(c) \in [Types -> Int] /\ B(c) \in [Types -> Int]
               /\ \A k \in Types : N(c)[k] = all(c, k) /\ B(c)[k] = all(c, k)
    <2>1. \A k \in Types : all(c, k) \in Int /\ Cleared[c].num[k] + all(c, k) = all(c, k)
                           /\ Cleared[c].breed[k] + all(c, k) = all(c, k)
      <3> TAKE k \in Types
      <3>1. all(c, k) \in Int
        BY <1>2
      <3> HIDE DEF all
      <3> QED BY <1>1, <3>1
    <2> HIDE DEF all
    <2> QED BY <2>1
  <1> HIDE DEF N, B, all
  <1>5. ASSUME NEW c \in Cells
        PROVE  /\ L(c) \in Locations /\ L(c).num = N(c) /\ L(c).breed = B(c)
               /\ L(c).resting = Cleared[c].resting /\ L(c).kill = Cleared[c].kill
    BY <1>1, <1>4 DEF Locations
  <1> HIDE DEF L
  <1>6. Populated(Cleared, cs) \in Grids
    BY <1>3, <1>5 DEF Grids
  <1>7. \A c \in Cells, k \in Types :
          /\ Populated(Cleared, cs)[c].kill = 0
          /\ Populated(Cleared, cs)[c].num[k] = all(c, k)
          /\ Populated(Cleared, cs)[c].breed[k] = all(c, k)
          /\ Populated(Cleared, cs)[c].resting[k] = 0
    BY <1>1, <1>3, <1>4, <1>5
  <1> QED BY <1>6, <1>7 DEF all, AllAdded

\* A configuration counts the creatures it places and nobody from before.
LEMMA ConfigKeeps ==
  ASSUME Consistent, app_config
  PROVE  Consistent' /\ \A c \in Cells : locations'[c].kill = 0
  <1>1. Typed /\ turn = 0 /\ turn' = 0 /\ number' = number
        /\ locations' = Populated(Cleared, creatures')
    BY DEF Consistent, app_config
  <1>2. creatures' \in Seq(Fresh) /\ creatures' \in Seq(Beings)
    BY ConfigPlaces
  <1>3. \A r \in Fresh : r \in Beings /\ r.visible /\ Alive(r) /\ Fit(r.energy) = 1
    BY Numbers DEF Fresh, Alive, Fit, One
  <1>4. AllAdded(creatures', locations')
    <2>1. ASSUME NEW cs \in Seq(Beings) PROVE AllAdded(cs, Populated(Cleared, cs))
      BY PopulatedGrid
    <2> QED BY ONLY <1>1, <1>2, <2>1
  <1>5. ASSUME NEW c \in Cells, NEW k \in Types, NEW x \in Gauges
        PROVE  Value(locations', c, k, x) = Tally(creatures', Group(c, k, x))
    <2> DEFINE cs == creatures'
               T == {i \in DOMAIN cs : cs[i].at = c /\ cs[i].type = k}
    <2>1. Value(locations', c, k, x) = Read(x, Cardinality(T), Cardinality(T), 0)
      BY <1>4 DEF AllAdded, Value
    <2>2. \A i \in DOMAIN cs : cs[i] \in Beings /\ cs[i].visible /\ Alive(cs[i])
                               /\ Fit(cs[i].energy) = 1
      BY <1>2, <1>3
    <2> HIDE DEF cs
    <2>3. CASE x = "resting"
      <3>1. Places(cs, Group(c, k, x)) = {}
        BY <2>2, <2>3 DEF Places, Group, Share, Weight, Read
      <3>2. Tally(cs, Group(c, k, x)) = 0
        BY <3>1, FS_EmptySet, Zenon DEF Tally
      <3> QED BY <2>1, <2>3, <3>2 DEF Read, cs
    <2>4. CASE x # "resting"
      <3>1. Places(cs, Group(c, k, x)) = T
        BY <2>2, <2>4 DEF Places, Group, Share, Weight, Read, Gauges
      <3>2. Tally(cs, Group(c, k, x)) = Cardinality(T)
        BY <3>1, Zenon DEF Tally
      <3> QED BY <2>1, <2>4, <3>2 DEF Read, Gauges, cs
    <2> QED BY <2>3, <2>4
  <1>6. Counting'
    BY <1>5 DEF Counting
  <1>7. Typed'
    BY <1>1, <1>2, <1>4 DEF Typed, AllAdded
  <1>8. Lively'
    BY <1>2, <1>3 DEF Lively
  <1>9. Numbered'
    BY <1>1 DEF Numbered
  <1>10. ASSUME NEW c \in Cells PROVE locations'[c].kill = 0
    BY <1>4 DEF AllAdded, Types
  <1> QED BY <1>6, <1>7, <1>8, <1>9, <1>10 DEF Consistent

\* What the window does: an iteration begins its count.
LEMMA WindowKeeps ==
  ASSUME Consistent, UNCHANGED <<creatures, locations>>,
         \/ turn' = turn /\ number' = number
         \/ turn' \in {0, 1} /\ turn = 0 /\ number' = 0
  PROVE  Consistent'
  <1>1. Typed /\ Counting /\ Lively /\ Numbered /\ Len(creatures) \in Nat
    BY DEF Consistent, Typed
  <1>2. Typed'
    BY <1>1 DEF Typed
  <1>3. Counting'
    BY <1>1 DEF Counting
  <1>4. CASE turn' = turn /\ number' = number
    <2>1. Lively'
      BY <1>1, <1>4 DEF Lively
    <2>2. Numbered'
      BY <1>1, <1>4 DEF Numbered
    <2> QED BY <1>2, <1>3, <2>1, <2>2 DEF Consistent
  <1>5. CASE turn' \in {0, 1} /\ turn = 0 /\ number' = 0
    <2>1. Lively'
      BY <1>1, <1>5 DEF Lively
    <2>2. Numbered'
      BY <1>1, <1>5 DEF Numbered
    <2> QED BY <1>2, <1>3, <2>1, <2>2 DEF Consistent
  <1> QED BY <1>4, <1>5

LEMMA Window ==
  ASSUME Tick \/ LastTick \/ app_play \/ app_pause \/ UNCHANGED vars
  PROVE  /\ UNCHANGED <<creatures, locations>>
         /\ \/ turn' = turn /\ number' = number
            \/ turn' \in {0, 1} /\ turn = 0 /\ number' = 0
  BY DEF Tick, LastTick, app_play, app_pause, vars, sim, One

LEMMA ConsistentInit == Init => Consistent
  <1> SUFFICES ASSUME Init PROVE Consistent
    OBVIOUS
  <1>1. /\ creatures = <<>> /\ turn = 0 /\ number = 0
        /\ locations = [c \in Cells |-> Empty]
    BY DEF Init
  <1>2. Empty \in Locations
        /\ \A k \in Types : Empty.num[k] = 0 /\ Empty.breed[k] = 0 /\ Empty.resting[k] = 0
    BY DEF Empty, Locations
  <1>3. Typed
    BY <1>1, <1>2 DEF Typed, Grids
  <1>4. Counting
    BY <1>1, <1>2, TallyEmpty DEF Counting, Value, Read
  <1>5. Lively /\ Numbered
    BY <1>1 DEF Lively, Numbered
  <1> QED BY <1>3, <1>4, <1>5 DEF Consistent

LEMMA ActTurn == Act => InTurn
  BY Zenon DEF Act, Eaten, IsEaten, Wait, Undecided, Move, Rest, Breed, Hunt, Ready

LEMMA ConsistentStep ==
  ASSUME Consistent, [Next]_vars
  PROVE  Consistent'
  <1>1. CASE Act
    <2>1. PICK t : Outcome(t) /\ Called(t)
      BY <1>1, ActOutcome
    <2> QED BY <1>1, <2>1, ActTurn, TurnKeeps
  <1>2. CASE Purge
    BY <1>2, PurgeKeeps
  <1>3. CASE app_config
    BY <1>3, ConfigKeeps
  <1>4. CASE Tick \/ LastTick \/ app_play \/ app_pause \/ UNCHANGED vars
    BY <1>4, Window, WindowKeeps
  <1> QED BY <1>1, <1>2, <1>3, <1>4 DEF Next

-----------------------------------------------------------------------------
(* The counters and the window.                                            *)

\* A location where one of the counters is not zero is not white.
LEMMA Shown ==
  ASSUME NEW l \in Locations, NEW k \in Types, l.num[k] > 0 \/ l.resting[k] > 0
  PROVE  status(l) = {"prey"} \/ status(l) = {"pred"}
  <1> DEFINE seen == <<l.num["prey"], l.num["pred"], l.resting["prey"], l.resting["pred"]>>
             first == {i \in 1 .. 4 : seen[i] > 0 /\ \A j \in 1 .. i - 1 : seen[j] <= 0}
             name == <<"prey", "pred", "prey", "pred">>
  <1>1. \A i \in 1 .. 4 : seen[i] \in Int
    BY DEF Locations, Types
  <1>2. \E i \in 1 .. 4 : seen[i] > 0
    BY DEF Types
  <1> HIDE DEF seen
  <1>3. PICK i \in first : TRUE
    <2> DEFINE S == {i \in 1 .. 4 : seen[i] > 0}
    <2>1. S \in SUBSET Nat /\ S # {}
      BY <1>2
    <2>2. PICK m \in S : \A j \in S : m <= j
      <3> HIDE DEF S
      <3> QED BY <2>1, LeastNat
    <2>3. ASSUME NEW j \in 1 .. m - 1 PROVE seen[j] <= 0
      <3>1. j \in 1 .. 4 /\ ~(m <= j)
        OBVIOUS
      <3>2. ~(seen[j] > 0) /\ seen[j] \in Int
        BY <1>1, <2>2, <3>1
      <3> QED BY <3>2
    <2> QED BY <2>2, <2>3
  <1>4. \A j \in first : j = i
    <2>1. i \in 1 .. 4 /\ seen[i] > 0 /\ \A j \in 1 .. i - 1 : seen[j] <= 0
      BY <1>3
    <2> SUFFICES ASSUME NEW j \in first, j # i PROVE FALSE
      OBVIOUS
    <2>2. j \in 1 .. 4 /\ seen[j] > 0 /\ \A m \in 1 .. j - 1 : seen[m] <= 0
      OBVIOUS
    <2> HIDE DEF first
    <2>3. i \in 1 .. j - 1 \/ j \in 1 .. i - 1
      BY <2>1, <2>2
    <2>4. seen[i] \in Int /\ seen[j] \in Int
      BY <1>1, <2>1, <2>2
    <2> QED BY <2>1, <2>2, <2>3, <2>4
  <1>5. first = {i} /\ i \in 1 .. 4
    BY <1>3, <1>4
  <1>6. status(l) = {name[j] : j \in first}
    BY Zenon DEF status, seen
  <1>7. status(l) = {name[i]}
    BY <1>5, <1>6
  <1>8. name[i] = "prey" \/ name[i] = "pred"
    BY <1>5
  <1> QED BY <1>7, <1>8

\* The counters of every location are at every turn those of the creatures
\* alive in it, and the window paints every location that has one (sim.c):
\* whatever the programs answer, however often it is configured.
THEOREM CountersAlwaysAgree == Spec => []CountersAgree
  <1>1. Consistent => CountersAgree
    <2> SUFFICES ASSUME Consistent, NEW c \in Cells, NEW t \in Types
                 PROVE  LET here(v) == {i \in DOMAIN creatures :
                                          /\ Alive(creatures[i]) /\ creatures[i].at = c
                                          /\ creatures[i].type = t /\ creatures[i].visible = v}
                        IN  /\ locations[c].num[t] = Cardinality(here(TRUE))
                            /\ locations[c].resting[t] = Cardinality(here(FALSE))
                            /\ locations[c].breed[t] = Cardinality(
                                 {i \in here(TRUE) : creatures[i].energy > Threshold})
                            /\ here(TRUE) \cup here(FALSE) # {} => app_draw[c] # "white"
      BY DEF CountersAgree
    <2> DEFINE here(v) == {i \in DOMAIN creatures :
                             /\ Alive(creatures[i]) /\ creatures[i].at = c
                             /\ creatures[i].type = t /\ creatures[i].visible = v}
               fit == {i \in here(TRUE) : creatures[i].energy > Threshold}
    <2>1. creatures \in Seq(Beings) /\ locations \in Grids
      BY DEF Consistent, Typed
    <2>2. \A i \in DOMAIN creatures :
            creatures[i] \in Beings /\ creatures[i].visible \in BOOLEAN
      <3>1. \A i \in DOMAIN creatures : creatures[i] \in Beings
        BY <2>1
      <3> QED BY <3>1 DEF Beings
    <2>3. here(TRUE) = Places(creatures, Group(c, t, "num"))
      BY <2>2 DEF Places, Group, Share, Weight, Read
    <2>4. here(FALSE) = Places(creatures, Group(c, t, "resting"))
      BY <2>2 DEF Places, Group, Share, Weight, Read, Fit, One
    <2>5. fit = Places(creatures, Group(c, t, "breed"))
      BY <2>2 DEF Places, Group, Share, Weight, Read, Fit, One
    <2>6. \A x \in Gauges : Value(locations, c, t, x) = Cardinality(Places(creatures,
                                                                     Group(c, t, x)))
      BY DEF Consistent, Counting, Tally
    <2> HIDE DEF here, fit
    <2>7. /\ locations[c].num[t] = Cardinality(here(TRUE))
          /\ locations[c].resting[t] = Cardinality(here(FALSE))
          /\ locations[c].breed[t] = Cardinality(fit)
      BY <2>3, <2>4, <2>5, <2>6 DEF Value, Read, Gauges
    <2>8. ASSUME here(TRUE) \cup here(FALSE) # {} PROVE app_draw[c] # "white"
      <3> DEFINE l == locations[c]
      <3>1. /\ IsFiniteSet(here(TRUE)) /\ IsFiniteSet(here(FALSE))
            /\ Cardinality(here(TRUE)) \in Nat /\ Cardinality(here(FALSE)) \in Nat
        BY <2>1, <2>3, <2>4, Tallied DEF Tally
      <3>2. here(TRUE) # {} => Cardinality(here(TRUE)) # 0
        BY <3>1, FS_EmptySet
      <3>3. here(FALSE) # {} => Cardinality(here(FALSE)) # 0
        BY <3>1, FS_EmptySet
      <3>4. l \in Locations
        BY <2>1 DEF Grids
      <3>5. l.num[t] > 0 \/ l.resting[t] > 0
        <4> DEFINE m == Cardinality(here(TRUE))
                   n == Cardinality(here(FALSE))
        <4>1. m \in Nat /\ n \in Nat /\ (m # 0 \/ n # 0)
          BY <2>8, <3>1, <3>2, <3>3
        <4>2. l.num[t] = m /\ l.resting[t] = n
          BY <2>7
        <4> HIDE DEF m, n, l
        <4> QED BY <4>1, <4>2
      <3>6. status(l) = {"prey"} \/ status(l) = {"pred"}
        BY <3>4, <3>5, Shown
      <3> QED BY <3>6 DEF app_draw
    <2> QED BY <2>7, <2>8 DEF here, fit
  <1>2. Consistent /\ [Next]_vars => Consistent'
    BY ConsistentStep
  <1> QED BY <1>1, <1>2, ConsistentInit, PTL DEF Spec

-----------------------------------------------------------------------------
(* The audit of the number.                                                *)

\* The counters agree with a list of living creatures.
Agrees(loc, s) ==
  /\ loc \in Grids /\ s \in Seq(Beings) /\ \A i \in 1 .. Len(s) : Alive(s[i])
  /\ \A c \in Cells, k \in Types, x \in Gauges : Value(loc, c, k, x) = Tally(s, Group(c, k, x))

\* The living in the locations of S.
Within(S) == {r \in Beings : Alive(r) /\ r.at \in S}

\* What sim_check adds for one location.
Here(loc, c) == loc[c].num["prey"] + loc[c].resting["prey"]
                  + loc[c].num["pred"] + loc[c].resting["pred"]

LEMMA HereCounts ==
  ASSUME NEW loc, NEW s, Agrees(loc, s), NEW c \in Cells
  PROVE  Here(loc, c) = Tally(s, Within({c}))
  <1> DEFINE A == Group(c, "prey", "num")
             B == Group(c, "prey", "resting")
             C == Group(c, "pred", "num")
             D == Group(c, "pred", "resting")
  <1>1. s \in Seq(Beings)
    BY DEF Agrees
  <1>2. /\ loc[c].num["prey"] = Tally(s, A) /\ loc[c].resting["prey"] = Tally(s, B)
        /\ loc[c].num["pred"] = Tally(s, C) /\ loc[c].resting["pred"] = Tally(s, D)
    <2>1. "prey" \in Types /\ "pred" \in Types /\ "num" \in Gauges /\ "resting" \in Gauges
      BY DEF Types, Gauges
    <2>2. \A k \in Types : /\ Value(loc, c, k, "num") = loc[c].num[k]
                           /\ Value(loc, c, k, "resting") = loc[c].resting[k]
      BY DEF Value, Read
    <2> QED BY <2>1, <2>2 DEF Agrees
  <1>3. /\ A \cap B = {} /\ (A \cup B) \cap C = {} /\ ((A \cup B) \cup C) \cap D = {}
    BY DEF Group, Share, Weight, Read, Fit, One
  <1>4. Within({c}) = ((A \cup B) \cup C) \cup D
    BY DEF Within, Beings, Types, Group, Share, Weight, Read, Fit, One
  <1> HIDE DEF A, B, C, D
  <1>5. Tally(s, A \cup B) = Tally(s, A) + Tally(s, B)
    BY <1>1, <1>3, TallySplit
  <1>6. Tally(s, (A \cup B) \cup C) = Tally(s, A \cup B) + Tally(s, C)
    BY <1>1, <1>3, TallySplit
  <1>7. Tally(s, ((A \cup B) \cup C) \cup D) = Tally(s, (A \cup B) \cup C) + Tally(s, D)
    BY <1>1, <1>3, TallySplit
  <1> QED BY <1>2, <1>4, <1>5, <1>6, <1>7 DEF Here

LEMMA CellsFinite == IsFiniteSet(Cells)
  <1>1. XSize - 1 \in Int /\ YSize - 1 \in Int /\ 0 \in Int
    BY Numbers
  <1>2. IsFiniteSet(0 .. XSize - 1) /\ IsFiniteSet(0 .. YSize - 1)
    BY <1>1, FS_Interval
  <1> QED BY <1>2, FS_Product DEF Cells

\* The counters of all the locations add up to the number of the living.
LEMMA TotalCounts ==
  ASSUME NEW loc, NEW s, Agrees(loc, s)
  PROVE  Total(loc) = Len(s)
  <1> DEFINE Def(f) == [S \in SUBSET Cells |->
                 IF S = {} THEN 0
                 ELSE LET c == CHOOSE x \in S : TRUE IN Here(loc, c) + f[S \ {c}]]
             sum == CHOOSE f : f = Def(f)
             F(S) == Tally(s, Within(S))
             g == [S \in SUBSET Cells |-> F(S)]
  <1>1. s \in Seq(Beings) /\ \A i \in 1 .. Len(s) : Alive(s[i])
    BY DEF Agrees
  <1>2. F({}) = 0
    <2>1. \A i \in 1 .. Len(s) : s[i] \notin Within({})
      BY DEF Within
    <2> QED BY <1>1, <2>1, TallyAll
  <1>3. ASSUME NEW S \in SUBSET Cells, NEW c \in S
        PROVE  F(S) = Here(loc, c) + F(S \ {c})
    <2>1. Within(S) = Within({c}) \cup Within(S \ {c})
          /\ Within({c}) \cap Within(S \ {c}) = {}
      BY DEF Within
    <2>2. F(S) = Tally(s, Within({c})) + F(S \ {c})
      <3> DEFINE A == Within({c})
                 B == Within(S \ {c})
      <3> HIDE DEF A, B
      <3>1. Within(S) = A \cup B /\ A \cap B = {}
        BY <2>1 DEF A, B
      <3>2. Tally(s, A \cup B) = Tally(s, A) + Tally(s, B)
        BY <1>1, <3>1, TallySplit
      <3> QED BY <3>1, <3>2 DEF A, B
    <2> QED BY <2>2, HereCounts
  <1>4. F(Cells) = Len(s)
    <2>1. \A i \in 1 .. Len(s) : s[i] \in Beings
      BY <1>1
    <2>2. \A i \in 1 .. Len(s) : s[i] \in Within(Cells)
      BY <1>1, <2>1 DEF Within, Beings
    <2> QED BY <1>1, <2>2, TallyAll
  <1> HIDE DEF F
  <1>5. g = Def(g)
    <2>1. ASSUME NEW S \in SUBSET Cells
          PROVE  F(S) = Def(g)[S]
      <3>1. CASE S = {}
        BY <1>2, <3>1
      <3>2. CASE S # {}
        <4> DEFINE c == CHOOSE x \in S : TRUE
        <4>1. c \in S
          BY <3>2
        <4> HIDE DEF c
        <4>2. g[S \ {c}] = F(S \ {c})
          OBVIOUS
        <4>3. F(S) = Here(loc, c) + g[S \ {c}]
          BY <1>3, <4>1, <4>2
        <4> QED BY <3>2, <4>3 DEF c
      <3> QED BY <3>1, <3>2
    <2> QED BY <2>1
  <1>6. sum = Def(sum)
    BY <1>5
  <1>7. Total(loc) = sum[Cells]
    BY DEF Total, Here
  <1> HIDE DEF sum, g
  <1>8. \A S \in SUBSET Cells :
          S # {} => \E c \in S : sum[S] = Here(loc, c) + sum[S \ {c}]
    <2> TAKE S \in SUBSET Cells
    <2> HAVE S # {}
    <2> DEFINE c == CHOOSE x \in S : TRUE
    <2>1. c \in S
      OBVIOUS
    <2>2. sum[S] = Def(sum)[S]
      BY <1>6
    <2>3. Def(sum)[S] = Here(loc, c) + sum[S \ {c}]
      OBVIOUS
    <2> QED BY <2>1, <2>2, <2>3
  <1>9. sum[{}] = 0
    BY <1>6
  <1> HIDE DEF Def
  <1> DEFINE N == Cardinality(Cells)
             P == {n \in Nat : \A S \in SUBSET Cells : Cardinality(S) = n => sum[S] = F(S)}
  <1>10. N \in Nat /\ P \in SUBSET Nat
         /\ \A S \in SUBSET Cells : IsFiniteSet(S)
    BY CellsFinite, FS_CardinalityType, FS_Subset
  <1>11. 0 \in P
    <2>1. ASSUME NEW S \in SUBSET Cells, Cardinality(S) = 0 PROVE sum[S] = F(S)
      <3>1. S = {}
        BY <1>10, <2>1, FS_EmptySet
      <3> QED BY <1>2, <1>9, <3>1
    <2> QED BY <2>1
  <1>12. ASSUME NEW n \in 0 .. N - 1, n \in P PROVE n + 1 \in P
    <2>1. ASSUME NEW S \in SUBSET Cells, Cardinality(S) = n + 1 PROVE sum[S] = F(S)
      <3>1. S # {}
        BY <1>10, <2>1, FS_EmptySet
      <3>2. PICK c \in S : sum[S] = Here(loc, c) + sum[S \ {c}]
        BY <1>8, <3>1
      <3>3. Cardinality(S \ {c}) = n /\ S \ {c} \in SUBSET Cells
        <4>1. Cardinality(S \ {c}) = Cardinality(S) - 1
          BY <1>10, FS_RemoveElement
        <4> QED BY <1>10, <2>1, <4>1
      <3>4. sum[S \ {c}] = F(S \ {c})
        BY <1>12, <3>3
      <3> QED BY <1>3, <3>2, <3>4
    <2>2. n + 1 \in Nat
      BY <1>10
    <2> QED BY <2>1, <2>2
  <1>13. N \in P
    <2> HIDE DEF P, N
    <2>1. \A n \in 0 .. N : n \in P
      BY <1>10, <1>11, <1>12, NatSetInduction
    <2>2. N \in 0 .. N
      BY <1>10
    <2> QED BY <2>1, <2>2
  <1>14. sum[Cells] = F(Cells)
    BY <1>13
  <1> QED BY <1>4, <1>7, <1>14

\* sim_act is counted once for every creature that is alive after an
\* iteration, but for two babies or none, and the audit of the number says so
\* exactly when they are missed (sim.c:310, 386, 397, 469).
THEOREM AllButTheLastCounted == Spec => EveryoneCounted
  <1> DEFINE missed == Len(creatures') - number'
             Said == /\ missed \in {0, 2}
                     /\ (missed = 0) <=> "number_mismatch" \notin printed'
  <1>1. Consistent /\ [Next]_vars => [Purge => Said]_vars
    <2> SUFFICES ASSUME Consistent, Purge PROVE Said
      OBVIOUS
    <2>1. /\ Consistent' /\ creatures' = Kept(creatures, Survivors)
          /\ creatures \in Seq(Beings) /\ creatures' \in Seq(Beings) /\ number \in Int
          /\ turn > 0 /\ turn > Len(creatures)
          /\ number' = number - (Len(creatures) - Len(creatures'))
          /\ printed' = sim_check(locations, number') /\ locations' = locations /\ turn' = 0
      BY PurgeKeeps DEF Consistent, Typed, Purge
    <2>2. missed \in {0, 2}
      <3> DEFINE m == Len(creatures)
                 n == Len(creatures')
      <3>1. m - number \in {0, 2}
        BY <2>1 DEF Consistent, Numbered
      <3>2. m \in Nat /\ n \in Nat
        BY <2>1
      <3> HIDE DEF m, n
      <3>3. n - (number - (m - n)) = m - number
        BY <2>1, <3>2
      <3> QED BY <2>1, <3>1, <3>3 DEF m, n
    <2>3. Agrees(locations, creatures')
      <3>1. \A i \in 1 .. Len(creatures') : Alive(creatures'[i])
        BY <2>1 DEF Consistent, Lively
      <3> QED BY <2>1, <3>1 DEF Agrees, Consistent, Typed, Counting
    <2>4. Total(locations) = Len(creatures')
      BY <2>3, TotalCounts
    <2>5. "number_mismatch" \notin printed' <=> Total(locations) = number'
      BY <2>1 DEF sim_check
    <2>6. Len(creatures') \in Int /\ number' \in Int
      BY <2>1 DEF Consistent, Typed
    <2> QED BY <2>2, <2>4, <2>5, <2>6
  <1>2. Consistent /\ [Next]_vars => Consistent'
    BY ConsistentStep
  <1> QED BY <1>1, <1>2, ConsistentInit, PTL DEF Spec, EveryoneCounted

-----------------------------------------------------------------------------
(* A single predator.                                                      *)

Predator(i) == creatures[i].type = "pred"

\* No second predator is ever born.
Lone == \A i, j \in 1 .. Len(creatures) : Predator(i) /\ Predator(j) => i = j

\* The i-th creature has its turn before the predator has the next of its own.
Before(i) ==
  \A p \in 1 .. Len(creatures) :
    Predator(p) => IF turn <= p THEN turn <= i /\ i < p ELSE turn <= i \/ i < p

\* One prey can be seen in the location for the one kill that may be pending
\* there, and finds it at its turn before the predator hunts again.
Owed(c) ==
  /\ locations[c].kill = 1
  /\ \E i \in 1 .. Len(creatures) : creatures[i] \in Group(c, "prey", "num") /\ Before(i)

Pending == \A c \in Cells : locations[c].kill = 0 \/ Owed(c)

\* Who is counted among the visible prey of a location.
LEMMA PreyGroup ==
  ASSUME NEW r, NEW c
  PROVE  r \in Group(c, "prey", "num")
           <=> r \in Beings /\ Alive(r) /\ r.at = c /\ r.type = "prey" /\ r.visible
  BY DEF Group, Share, Weight, Read, Beings

\* A counter that leaves something beside the creature whose turn it is has
\* counted another.
LEMMA OtherMet ==
  ASSUME Consistent, InTurn, NEW c \in Cells, NEW k \in Types, NEW x \in Gauges,
         Others(Counted, c, k, x) > 0
  PROVE  \E j \in 1 .. Len(creatures) : j # turn /\ creatures[j] \in Group(c, k, x)
  <1> DEFINE P == Group(c, k, x)
  <1>1. creatures \in Seq(Beings) /\ turn \in 1 .. Len(creatures)
    BY DEF Consistent, Typed, InTurn
  <1>2. Others(Counted, c, k, x) = Tally(creatures, P) - OneIf(creatures[turn] \in P)
    BY TurnOpens
  <1> HIDE DEF P
  <1>3. Tally(creatures, P) - OneIf(creatures[turn] \in P) > 0
    BY <1>2
  <1>4. \E j \in 1 .. Len(creatures) : j # turn /\ creatures[j] \in P
    BY <1>1, <1>3, TallyOther
  <1> QED BY <1>4 DEF P

\* What a turn leaves of the predators.
Herd(t) ==
  /\ turn \in 1 .. Len(creatures) /\ Len(creatures) \in Nat /\ turn' \in Nat /\ turn' > turn
  /\ turn < Len(creatures) => turn' = turn + 1
  /\ Len(creatures') \in Nat /\ Len(creatures') >= Len(creatures)
  /\ \A i \in 1 .. Len(creatures) :
       /\ i # turn => creatures'[i] = creatures[i]
       /\ creatures'[i].type = creatures[i].type
  /\ \A i \in 1 .. Len(creatures') : creatures'[i].type = "pred" => i <= Len(creatures)

LEMMA HerdTurn ==
  ASSUME Consistent, Lone, InTurn, NEW t, Outcome(t), Called(t)
  PROVE  Herd(t)
  <1> DEFINE n == Len(creatures)
             m == Len(t.born)
  <1>1. /\ m \in {0, 2} /\ Len(creatures') = n + m
        /\ turn' = turn + 1 \/ turn' = Len(creatures') + 1
        /\ \A i \in 1 .. n : creatures'[i] = IF i = turn THEN t.me ELSE creatures[i]
        /\ \A i \in n + 1 .. n + m : creatures'[i] = t.born[i - n]
    BY TurnKeeps
  <1>2. /\ turn \in 1 .. n /\ n \in Nat /\ t.me.type = creatures[turn].type
        /\ t.me.at \in Cells /\ t.me.type \in Types /\ t.born \in Seq(Beings)
    BY TurnOpens, SceneType DEF Consistent, Typed, InTurn, Outcome, Born
  <1>3. turn < n => turn' = turn + 1
    BY DEF Called
  <1>4. t.born # <<>> => t.me.type # "pred"
    <2> SUFFICES ASSUME t.born # <<>>, t.me.type = "pred" PROVE FALSE
      OBVIOUS
    <2>1. Others(Counted, t.me.at, t.me.type, "breed") > 0 /\ "breed" \in Gauges
      BY DEF Outcome, Born, Gauges
    <2>2. PICK j \in 1 .. n : j # turn /\ creatures[j] \in Group(t.me.at, t.me.type, "breed")
      BY <1>2, <2>1, OtherMet
    <2>3. creatures[j].type = "pred"
      BY <2>2 DEF Group, Share
    <2> QED BY <1>2, <2>2, <2>3 DEF Lone, Predator
  <1>5. ASSUME NEW i \in 1 .. n + m, creatures'[i].type = "pred" PROVE i <= n
    <2> SUFFICES ASSUME ~(i <= n) PROVE FALSE
      OBVIOUS
    <2>1. i \in n + 1 .. n + m /\ i - n \in 1 .. m
      BY <1>1, <1>2
    <2>2. t.born # <<>>
      BY <1>2, <2>1
    <2>3. BabyOf(t.born[i - n], t.me)
      BY <2>1 DEF Outcome, Born, Babies
    <2> QED BY <1>1, <1>4, <1>5, <2>1, <2>2, <2>3 DEF BabyOf
  <1>6. \A i \in 1 .. n : /\ i # turn => creatures'[i] = creatures[i]
                          /\ creatures'[i].type = creatures[i].type
    BY <1>1, <1>2
  <1>7. n + m \in Nat /\ n + m >= n /\ turn' \in Nat /\ turn' > turn
    <2> HIDE DEF n, m
    <2> QED BY <1>1, <1>2
  <1> QED BY <1>1, <1>2, <1>3, <1>5, <1>6, <1>7 DEF Herd

LEMMA LoneTurn ==
  ASSUME Lone, NEW t, Herd(t)
  PROVE  Lone'
  <1>1. ASSUME NEW i \in 1 .. Len(creatures'), creatures'[i].type = "pred"
        PROVE  i \in 1 .. Len(creatures) /\ creatures[i].type = "pred"
    BY <1>1 DEF Herd
  <1> QED BY <1>1 DEF Lone, Predator

\* Who comes before the predator still does after a turn, and everybody does
\* after that of the predator.
LEMMA BeforeTurn ==
  ASSUME Lone, NEW t, Herd(t), NEW i \in 1 .. Len(creatures), i # turn,
         Before(i) \/ Predator(turn)
  PROVE  Before(i)'
  <1> SUFFICES ASSUME NEW p \in 1 .. Len(creatures'), creatures'[p].type = "pred"
               PROVE  IF turn' <= p THEN turn' <= i /\ i < p ELSE turn' <= i \/ i < p
    BY DEF Before, Predator
  <1>1. /\ turn \in 1 .. Len(creatures) /\ Len(creatures) \in Nat /\ turn' \in Nat
        /\ turn' > turn /\ (turn < Len(creatures) => turn' = turn + 1)
        /\ p \in 1 .. Len(creatures) /\ Predator(p)
    BY DEF Herd, Predator
  <1> DEFINE n == Len(creatures)
  <1> HIDE DEF n
  <1>2. /\ turn \in 1 .. n /\ n \in Nat /\ p \in 1 .. n /\ i \in 1 .. n /\ i # turn
        /\ turn' \in Nat /\ turn' > turn /\ (turn < n => turn' = turn + 1)
    BY <1>1 DEF n
  <1>3. CASE Predator(turn)
    <2>1. p = turn
      BY <1>1, <1>3 DEF Lone
    <2> QED BY <1>2, <2>1
  <1>4. CASE ~Predator(turn)
    <2>1. p # turn /\ IF turn <= p THEN turn <= i /\ i < p ELSE turn <= i \/ i < p
      BY <1>1, <1>4 DEF Before
    <2> QED BY <1>2, <2>1
  <1> QED BY <1>3, <1>4

LEMMA PendingTurn ==
  ASSUME Consistent, Lone, Pending, InTurn, NEW t, Outcome(t), Called(t), Herd(t)
  PROVE  Pending'
  <1>1. /\ turn \in 1 .. Len(creatures) /\ Len(creatures) \in Nat
        /\ \A i \in 1 .. Len(creatures) : i # turn =>
             i \in 1 .. Len(creatures') /\ creatures'[i] = creatures[i]
    BY DEF Herd
  <1>2. /\ locations' = t.loc /\ Counted.loc = locations
        /\ Counted.me.type = creatures[turn].type
        /\ t.me.at \in Cells /\ \A c \in Cells : locations[c].kill \in Int
    BY TurnKeeps, TurnOpens, SceneType DEF Outcome
  \* Somebody else who is owed a kill still is.
  <1>3. ASSUME NEW c \in Cells, NEW i \in 1 .. Len(creatures), i # turn,
               creatures[i] \in Group(c, "prey", "num"), Before(i) \/ Predator(turn),
               t.loc[c].kill = 1
        PROVE  Owed(c)'
    <2>1. Before(i)'
      BY <1>3, BeforeTurn
    <2>2. /\ i \in 1 .. Len(creatures') /\ creatures'[i] \in Group(c, "prey", "num")
          /\ locations'[c].kill = 1
      BY <1>1, <1>2, <1>3
    <2> QED BY <2>1, <2>2 DEF Owed
  <1> SUFFICES ASSUME NEW c \in Cells PROVE t.loc[c].kill = 0 \/ Owed(c)'
    BY <1>2 DEF Pending
  <1>4. locations[c].kill = 0 \/ Owed(c)
    BY DEF Pending
  <1>5. CASE IsEaten
    <2>1. t.loc[c].kill = locations[c].kill - IF c = creatures[turn].at THEN 1 ELSE 0
      BY <1>5 DEF Outcome, Pays
    <2>2. CASE c = creatures[turn].at
      <3>1. locations[c].kill > 0
        BY <1>5, <2>2 DEF IsEaten
      <3>2. locations[c].kill = 1
        BY <1>4, <3>1 DEF Owed
      <3> QED BY <2>1, <2>2, <3>2
    <2>3. CASE c # creatures[turn].at
      <3>1. t.loc[c].kill = locations[c].kill
        BY <1>2, <2>1, <2>3
      <3>2. CASE Owed(c)
        <4>1. PICK i \in 1 .. Len(creatures) :
                creatures[i] \in Group(c, "prey", "num") /\ Before(i)
          BY <3>2 DEF Owed
        <4>2. i # turn
          BY <2>3, <4>1, PreyGroup
        <4> QED BY <1>3, <3>1, <3>2, <4>1, <4>2 DEF Owed
      <3> QED BY <1>4, <3>1, <3>2
    <2> QED BY <2>2, <2>3
  <1>6. CASE ~IsEaten /\ SameKills(Counted, t)
    <2>1. t.loc[c].kill = locations[c].kill
      BY <1>2, <1>6 DEF SameKills
    <2>2. CASE Owed(c)
      <3>1. PICK i \in 1 .. Len(creatures) :
              creatures[i] \in Group(c, "prey", "num") /\ Before(i)
        BY <2>2 DEF Owed
      <3>2. i # turn
        <4> SUFFICES ASSUME i = turn PROVE FALSE
          OBVIOUS
        <4>1. /\ creatures[turn].at = c /\ creatures[turn].type = "prey"
              /\ creatures[turn].visible /\ locations[c].kill > 0
          BY <2>2, <3>1, PreyGroup DEF Owed
        <4> QED BY <1>6, <4>1, Zenon DEF IsEaten
      <3> QED BY <1>3, <2>1, <2>2, <3>1, <3>2 DEF Owed
    <2> QED BY <1>4, <2>1, <2>2
  <1>7. CASE /\ KillNoted(Counted, t) /\ Counted.me.type = "pred"
             /\ Others(Counted, t.me.at, "prey", "num") > 0
    <2>1. Predator(turn)
      BY <1>2, <1>7 DEF Predator
    <2>2. locations[c].kill = 0
      <3> SUFFICES ASSUME Owed(c) PROVE FALSE
        BY <1>4
      <3>1. PICK i \in 1 .. Len(creatures) : Before(i)
        BY DEF Owed
      <3>2. turn <= i /\ i < turn
        BY <1>1, <2>1, <3>1 DEF Before
      <3> QED BY <1>1, <3>2
    <2>3. t.loc[c].kill = IF c = t.me.at THEN 1 ELSE 0
      BY <1>2, <1>7, <2>2 DEF KillNoted
    <2>4. CASE c = t.me.at
      <3>1. "prey" \in Types /\ "num" \in Gauges
        BY DEF Types, Gauges
      <3>2. PICK i \in 1 .. Len(creatures) :
              i # turn /\ creatures[i] \in Group(c, "prey", "num")
        BY <1>7, <2>4, <3>1, OtherMet
      <3> QED BY <1>3, <2>1, <2>3, <2>4, <3>2
    <2> QED BY <2>3, <2>4
  <1> QED BY <1>5, <1>6, <1>7 DEF Outcome, Pays

\* The dead leave the list, and the order of the others is as it was.
LEMMA PurgeOrder ==
  ASSUME Consistent, Lone, Pending, Purge
  PROVE  Lone' /\ Pending'
  <1> DEFINE n == Len(creatures)
             m == Len(creatures')
  <1>1. /\ creatures' = Kept(creatures, Survivors) /\ creatures \in Seq(Beings)
        /\ creatures' \in Seq(Beings)
        /\ locations' = locations /\ turn' = 0 /\ turn > n /\ n \in Nat /\ m \in Nat
        /\ turn \in Nat
    BY PurgeKeeps DEF Consistent, Typed, Purge
  <1>2. PICK g : Ordered(g, creatures', creatures, Survivors, n)
    <2>1. \E g : Ordered(g, Kept(creatures, Survivors), creatures, Survivors, n)
      BY <1>1, KeptOrder
    <2> QED BY <1>1, <2>1
  <1>3. /\ \A i \in 1 .. m : g[i] \in 1 .. n /\ creatures'[i] = creatures[g[i]]
        /\ \A i, j \in 1 .. m : i < j => g[i] < g[j]
        /\ \A i \in 1 .. n : i \in Survivors => \E j \in 1 .. m : g[j] = i
    BY <1>2 DEF Ordered
  <1>4. Lone'
    <2> SUFFICES ASSUME NEW i \in 1 .. m, NEW j \in 1 .. m,
                        creatures'[i].type = "pred", creatures'[j].type = "pred"
                 PROVE  i = j
      BY DEF Lone, Predator
    <2>1. g[i] = g[j] /\ g[i] \in 1 .. n
      BY <1>3 DEF Lone, Predator
    <2>2. ~(i < j) /\ ~(j < i)
      BY <1>1, <1>3, <2>1
    <2> QED BY <1>1, <2>2
  <1>5. ASSUME NEW c \in Cells, Owed(c) PROVE Owed(c)'
    <2>1. PICK i \in 1 .. n : creatures[i] \in Group(c, "prey", "num") /\ Before(i)
      BY <1>5 DEF Owed
    <2>2. i \in Survivors
      BY <1>1, <2>1, PreyGroup DEF Survivors
    <2>3. PICK k \in 1 .. m : g[k] = i
      BY <1>3, <2>2
    <2>4. creatures'[k] \in Group(c, "prey", "num")
      BY <1>3, <2>1, <2>3
    <2>5. ASSUME NEW p \in 1 .. m, creatures'[p].type = "pred" PROVE k < p
      <3>1. g[p] \in 1 .. n /\ Predator(g[p])
        BY <1>3, <2>5 DEF Predator
      <3>2. IF turn <= g[p] THEN turn <= i /\ i < g[p] ELSE turn <= i \/ i < g[p]
        BY <2>1, <3>1 DEF Before
      <3>3. g[k] < g[p]
        BY <1>1, <2>3, <3>1, <3>2
      <3>4. ~(p < k) /\ p # k
        BY <1>1, <1>3, <2>3, <3>1, <3>3
      <3> QED BY <1>1, <3>4
    <2>6. Before(k)'
      <3>1. \A p \in 1 .. m : turn' <= p /\ turn' <= k
        BY <1>1
      <3> QED BY <2>5, <3>1 DEF Before, Predator
    <2>7. locations'[c].kill = 1
      BY <1>1, <1>5 DEF Owed
    <2> QED BY <2>4, <2>6, <2>7 DEF Owed
  <1>6. Pending'
    BY <1>1, <1>5 DEF Pending
  <1> QED BY <1>4, <1>6

LEMMA WindowOrder ==
  ASSUME Lone, Pending, UNCHANGED <<creatures, locations>>,
         turn' = turn \/ (turn = 0 /\ turn' \in {0, 1})
  PROVE  Lone' /\ Pending'
  <1>1. Lone'
    BY DEF Lone, Predator
  <1>2. ASSUME NEW i \in 1 .. Len(creatures), Before(i) PROVE Before(i)'
    <2>1. CASE turn' = turn
      BY <1>2, <2>1 DEF Before, Predator
    <2>2. CASE turn = 0 /\ turn' \in {0, 1}
      <3> SUFFICES ASSUME NEW p \in 1 .. Len(creatures), Predator(p)
                   PROVE  IF turn' <= p THEN turn' <= i /\ i < p ELSE turn' <= i \/ i < p
        BY DEF Before, Predator
      <3>1. i < p
        BY <1>2, <2>2 DEF Before
      <3>2. turn' <= p /\ turn' <= i
        BY <2>2
      <3> QED BY <3>1, <3>2
    <2> QED BY <2>1, <2>2
  <1>3. ASSUME NEW c \in Cells, Owed(c) PROVE Owed(c)'
    BY <1>2, <1>3 DEF Owed
  <1> QED BY <1>1, <1>3 DEF Pending

\* What the audit can find but its own count.
LEMMA AuditFinds ==
  ASSUME Consistent, Pending, NEW n
  PROVE  sim_check(locations, n) \subseteq {"number_mismatch"}
  <1>1. creatures \in Seq(Beings) /\ locations \in Grids
    BY DEF Consistent, Typed
  <1>2. ASSUME NEW c \in Cells, NEW k \in Types, NEW x \in Gauges
        PROVE  /\ Value(locations, c, k, x) = Cardinality(Places(creatures, Group(c, k, x)))
               /\ IsFiniteSet(Places(creatures, Group(c, k, x)))
               /\ Cardinality(Places(creatures, Group(c, k, x))) \in Nat
    BY <1>1, Tallied DEF Consistent, Counting, Tally
  <1>3. ASSUME NEW c \in Cells, NEW k \in Types
        PROVE  /\ locations[c].num[k] = Cardinality(Places(creatures, Group(c, k, "num")))
               /\ locations[c].num[k] \in Nat /\ locations[c].breed[k] \in Nat
               /\ locations[c].resting[k] \in Nat
               /\ locations[c].breed[k] <= locations[c].num[k]
    <2> DEFINE A == Places(creatures, Group(c, k, "num"))
               B == Places(creatures, Group(c, k, "breed"))
               C == Places(creatures, Group(c, k, "resting"))
    <2>1. /\ "num" \in Gauges /\ "breed" \in Gauges /\ "resting" \in Gauges
          /\ Value(locations, c, k, "num") = locations[c].num[k]
          /\ Value(locations, c, k, "breed") = locations[c].breed[k]
          /\ Value(locations, c, k, "resting") = locations[c].resting[k]
      BY DEF Gauges, Value, Read
    <2>2. B \subseteq A
      BY DEF Places, Group, Share, Weight, Read, Fit, One
    <2>3. /\ locations[c].num[k] = Cardinality(A) /\ Cardinality(A) \in Nat
          /\ locations[c].breed[k] = Cardinality(B) /\ Cardinality(B) \in Nat
          /\ locations[c].resting[k] = Cardinality(C) /\ Cardinality(C) \in Nat
          /\ IsFiniteSet(A)
      BY <1>2, <2>1
    <2> HIDE DEF A, B, C
    <2>4. Cardinality(B) <= Cardinality(A)
      BY <2>2, <2>3, FS_Subset
    <2> QED BY <2>3, <2>4 DEF A
  <1>4. ASSUME NEW c \in Cells
        PROVE  locations[c].kill \in {0, 1} /\ locations[c].kill <= locations[c].num["prey"]
    <2>1. "prey" \in Types /\ "num" \in Gauges
      BY DEF Types, Gauges
    <2>2. CASE locations[c].kill = 0
      BY <1>3, <2>1, <2>2
    <2>3. CASE Owed(c)
      <3> DEFINE A == Places(creatures, Group(c, "prey", "num"))
      <3>1. A # {} /\ locations[c].kill = 1
        BY <1>1, <2>3 DEF Owed, Places
      <3>2. IsFiniteSet(A) /\ Cardinality(A) \in Nat /\ locations[c].num["prey"] = Cardinality(A)
        BY <1>2, <1>3, <2>1
      <3> HIDE DEF A
      <3>3. Cardinality(A) # 0
        BY <3>1, <3>2, FS_EmptySet
      <3> QED BY <3>1, <3>2, <3>3
    <2> QED BY <2>2, <2>3 DEF Pending
  <1>5. ASSUME NEW c \in Cells
        PROVE  /\ ~Insane(locations[c])
               /\ ~(locations[c].num["prey"] < locations[c].breed["prey"])
               /\ ~(locations[c].num["prey"] < locations[c].kill)
    <2>1. ~Insane(locations[c])
      BY <1>3, <1>4 DEF Insane
    <2>2. "prey" \in Types
      BY DEF Types
    <2>3. /\ locations[c].num["prey"] \in Nat /\ locations[c].breed["prey"] \in Nat
          /\ locations[c].breed["prey"] <= locations[c].num["prey"]
      BY <1>3, <2>2
    <2> QED BY <1>4, <2>1, <2>3
  <1> QED BY <1>5 DEF sim_check

\* The inductive invariant.
Audited == Consistent /\ Lone /\ Pending /\ AuditClean

LEMMA AuditedStep ==
  ASSUME Predators \subseteq {0, 1}, Audited, [Next]_vars
  PROVE  Audited'
  <1>1. Consistent /\ Lone /\ Pending /\ AuditClean /\ Consistent'
    BY ConsistentStep DEF Audited
  <1>2. CASE Act
    <2>1. InTurn /\ \E t : Outcome(t) /\ Called(t)
      BY <1>1, <1>2, ActTurn, ActOutcome
    <2>2. PICK t : Outcome(t) /\ Called(t)
      BY <2>1
    <2>3. Herd(t)
      BY <1>1, <2>1, <2>2, HerdTurn
    <2>4. Lone' /\ Pending'
      BY <1>1, <2>1, <2>2, <2>3, LoneTurn, PendingTurn
    <2>5. printed' = printed
      BY <2>2 DEF Called
    <2> QED BY <1>1, <2>4, <2>5 DEF Audited, AuditClean
  <1>3. CASE Purge
    <2>1. Lone' /\ Pending'
      BY <1>1, <1>3, PurgeOrder
    <2>2. printed' = sim_check(locations, number')
      BY <1>3 DEF Purge
    <2> QED BY <1>1, <2>1, <2>2, AuditFinds DEF Audited, AuditClean
  <1>4. CASE app_config
    <2>1. /\ printed' = printed /\ \A c \in Cells : locations'[c].kill = 0
      BY <1>1, <1>4, ConfigKeeps DEF app_config
    <2>2. Lone'
      BY <1>4, ConfigPlaces DEF Lone, Predator
    <2>3. Pending'
      BY <2>1 DEF Pending
    <2> QED BY <1>1, <2>1, <2>2, <2>3 DEF Audited, AuditClean
  <1>5. CASE Tick \/ LastTick \/ app_play \/ app_pause \/ UNCHANGED vars
    <2>1. Lone' /\ Pending'
      BY <1>1, <1>5, Window, WindowOrder
    <2>2. printed' = printed \/ printed' = {} \/ printed' = sim_check(locations, 0)
      BY <1>5 DEF Tick, LastTick, app_play, app_pause, vars
    <2> QED BY <1>1, <2>1, <2>2, AuditFinds DEF Audited, AuditClean
  <1> QED BY <1>2, <1>3, <1>4, <1>5 DEF Next

LEMMA AuditedInit == Init => Audited
  <1> SUFFICES ASSUME Init PROVE Audited
    OBVIOUS
  <1>1. /\ creatures = <<>> /\ printed = {} /\ locations = [c \in Cells |-> Empty]
    BY DEF Init
  <1>2. Len(creatures) = 0 /\ \A c \in Cells : locations[c].kill = 0
    BY <1>1 DEF Empty
  <1> QED BY <1>1, <1>2, ConsistentInit DEF Audited, Lone, Pending, AuditClean

\* With a single predator the audit finds nothing but its own count: a kill
\* that is noted is always of a prey that comes before the predator again
\* (sim.c:442-465).  With two the same prey can feed both.
THEOREM AuditAlwaysClean ==
  ASSUME Predators \subseteq {0, 1}
  PROVE  Spec => []AuditClean
  <1>1. Audited => AuditClean
    BY DEF Audited
  <1>2. Audited /\ [Next]_vars => Audited'
    BY AuditedStep
  <1> QED BY <1>1, <1>2, AuditedInit, PTL DEF Spec
=============================================================================
