----------------------------- MODULE Sim2Proofs -----------------------------
(***************************************************************************)
(* The counters of the grid of sim2 agree with the creatures on it, for    *)
(* grids of any size and any number of creatures.  The counters are        *)
(* changed by differences, so the proof is one of balances: an operator    *)
(* changes the counters of a location by what it changes of the creature   *)
(* that acts, and by its babies.                                           *)
(***************************************************************************)
EXTENDS Sim2, DataTheorems

Beings == [kind : Kinds, energy : Int, cell : Cells, count_down : Int, visible : BOOLEAN]
Locations == [num : [Kinds -> Int], breed : [Kinds -> Int], resting : [Kinds -> Int],
              kill : Int]
Grids == [Cells -> Locations]
Scenes == [me : Beings, grid : Grids, born : Seq(Beings)]

-----------------------------------------------------------------------------
(* Locations and grids.                                                    *)

\* The counters of a kind grow by n, b and r, and the kills by d.
Shifted(l, new, kind, n, b, r, d) ==
  /\ new \in Locations
  /\ new.kill = l.kill + d
  /\ \A k \in Kinds :
       /\ new.num[k] = IF k = kind THEN l.num[k] + n ELSE l.num[k]
       /\ new.breed[k] = IF k = kind THEN l.breed[k] + b ELSE l.breed[k]
       /\ new.resting[k] = IF k = kind THEN l.resting[k] + r ELSE l.resting[k]

LEMMA AddShifts ==
  ASSUME NEW l \in Locations, NEW kind \in Kinds, NEW energy \in Int
  PROVE  Shifted(l, Add(l, kind, energy), kind, 1, One(Fit(energy)), 0, 0)
  <1> DEFINE new == Add(l, kind, energy)
             fit == One(Fit(energy))
             N == [l.num EXCEPT ![kind] = @ + 1]
             B == [l.breed EXCEPT ![kind] = @ + fit]
  <1>1. /\ l.num \in [Kinds -> Int] /\ l.breed \in [Kinds -> Int]
        /\ l.resting \in [Kinds -> Int] /\ l.kill \in Int /\ fit \in Int
    BY DEF Locations, One
  <1>2. new = [l EXCEPT !.num = N, !.breed = B]
    BY <1>1 DEF Add
  <1>3. N \in [Kinds -> Int] /\ B \in [Kinds -> Int]
    BY <1>1
  <1>4. /\ \A k \in Kinds : N[k] = IF k = kind THEN l.num[k] + (1) ELSE l.num[k]
        /\ \A k \in Kinds : B[k] = IF k = kind THEN l.breed[k] + (fit) ELSE l.breed[k]
    BY <1>1
  <1> HIDE DEF new, fit, N, B
  <1>5. /\ new \in Locations /\ new.num = N /\ new.breed = B
        /\ new.resting = l.resting /\ new.kill = l.kill
    BY <1>2, <1>3 DEF Locations
  <1>6. \A k \in Kinds : l.resting[k] + 0 = l.resting[k]
    BY <1>1
  <1>7. Shifted(l, new, kind, 1, fit, 0, 0)
    BY <1>1, <1>4, <1>5, <1>6 DEF Shifted
  <1> QED BY <1>7 DEF new, fit

LEMMA RemoveShifts ==
  ASSUME NEW l \in Locations, NEW kind \in Kinds, NEW energy \in Int
  PROVE  Shifted(l, Remove(l, kind, energy), kind, -1, -One(Fit(energy)), 0, 0)
  <1> DEFINE new == Remove(l, kind, energy)
             fit == One(Fit(energy))
             N == [l.num EXCEPT ![kind] = @ - 1]
             B == [l.breed EXCEPT ![kind] = @ - fit]
  <1>1. /\ l.num \in [Kinds -> Int] /\ l.breed \in [Kinds -> Int]
        /\ l.resting \in [Kinds -> Int] /\ l.kill \in Int /\ fit \in Int
    BY DEF Locations, One
  <1>2. new = [l EXCEPT !.num = N, !.breed = B]
    BY <1>1 DEF Remove
  <1>3. N \in [Kinds -> Int] /\ B \in [Kinds -> Int]
    BY <1>1
  <1>4. /\ \A k \in Kinds : N[k] = IF k = kind THEN l.num[k] + (-1) ELSE l.num[k]
        /\ \A k \in Kinds : B[k] = IF k = kind THEN l.breed[k] + (-fit) ELSE l.breed[k]
    BY <1>1
  <1> HIDE DEF new, fit, N, B
  <1>5. /\ new \in Locations /\ new.num = N /\ new.breed = B
        /\ new.resting = l.resting /\ new.kill = l.kill
    BY <1>2, <1>3 DEF Locations
  <1>6. \A k \in Kinds : l.resting[k] + 0 = l.resting[k]
    BY <1>1
  <1>7. Shifted(l, new, kind, -1, -fit, 0, 0)
    BY <1>1, <1>4, <1>5, <1>6 DEF Shifted
  <1> QED BY <1>7 DEF new, fit

LEMMA RestedShifts ==
  ASSUME NEW l \in Locations, NEW kind \in Kinds, NEW energy \in Int
  PROVE  Shifted(l, Rested(l, kind, energy), kind, -1, -One(Fit(energy)), 1, 0)
  <1> DEFINE new == Rested(l, kind, energy)
             fit == One(Fit(energy))
             N == [l.num EXCEPT ![kind] = @ - 1]
             B == [l.breed EXCEPT ![kind] = @ - fit]
             R == [l.resting EXCEPT ![kind] = @ + 1]
  <1>1. /\ l.num \in [Kinds -> Int] /\ l.breed \in [Kinds -> Int]
        /\ l.resting \in [Kinds -> Int] /\ l.kill \in Int /\ fit \in Int
    BY DEF Locations, One
  <1>2. new = [l EXCEPT !.num = N, !.breed = B, !.resting = R]
    BY <1>1 DEF Rested, Remove
  <1>3. N \in [Kinds -> Int] /\ B \in [Kinds -> Int] /\ R \in [Kinds -> Int]
    BY <1>1
  <1>4. /\ \A k \in Kinds : N[k] = IF k = kind THEN l.num[k] + (-1) ELSE l.num[k]
        /\ \A k \in Kinds : B[k] = IF k = kind THEN l.breed[k] + (-fit) ELSE l.breed[k]
        /\ \A k \in Kinds : R[k] = IF k = kind THEN l.resting[k] + (1) ELSE l.resting[k]
    BY <1>1
  <1> HIDE DEF new, fit, N, B, R
  <1>5. /\ new \in Locations /\ new.num = N /\ new.breed = B
        /\ new.resting = R /\ new.kill = l.kill
    BY <1>2, <1>3 DEF Locations
  <1>6. \A k \in Kinds : l.resting[k] + 0 = l.resting[k]
    BY <1>1
  <1>7. Shifted(l, new, kind, -1, -fit, 1, 0)
    BY <1>1, <1>4, <1>5, <1>6 DEF Shifted
  <1> QED BY <1>7 DEF new, fit

LEMMA AwokenShifts ==
  ASSUME NEW l \in Locations, NEW kind \in Kinds, NEW energy \in Int
  PROVE  Shifted(l, Awoken(l, kind, energy), kind, 1, One(Fit(energy)), -1, 0)
  <1> DEFINE new == Awoken(l, kind, energy)
             fit == One(Fit(energy))
             N == [l.num EXCEPT ![kind] = @ + 1]
             B == [l.breed EXCEPT ![kind] = @ + fit]
             R == [l.resting EXCEPT ![kind] = @ - 1]
  <1>1. /\ l.num \in [Kinds -> Int] /\ l.breed \in [Kinds -> Int]
        /\ l.resting \in [Kinds -> Int] /\ l.kill \in Int /\ fit \in Int
    BY DEF Locations, One
  <1>2. new = [l EXCEPT !.num = N, !.breed = B, !.resting = R]
    BY <1>1 DEF Awoken, Add
  <1>3. N \in [Kinds -> Int] /\ B \in [Kinds -> Int] /\ R \in [Kinds -> Int]
    BY <1>1
  <1>4. /\ \A k \in Kinds : N[k] = IF k = kind THEN l.num[k] + (1) ELSE l.num[k]
        /\ \A k \in Kinds : B[k] = IF k = kind THEN l.breed[k] + (fit) ELSE l.breed[k]
        /\ \A k \in Kinds : R[k] = IF k = kind THEN l.resting[k] + (-1) ELSE l.resting[k]
    BY <1>1
  <1> HIDE DEF new, fit, N, B, R
  <1>5. /\ new \in Locations /\ new.num = N /\ new.breed = B
        /\ new.resting = R /\ new.kill = l.kill
    BY <1>2, <1>3 DEF Locations
  <1>6. \A k \in Kinds : l.resting[k] + 0 = l.resting[k]
    BY <1>1
  <1>7. Shifted(l, new, kind, 1, fit, -1, 0)
    BY <1>1, <1>4, <1>5, <1>6 DEF Shifted
  <1> QED BY <1>7 DEF new, fit

\* One location of a grid changes.
Turned(g, new, cell, kind, n, b, r, d) ==
  /\ new \in Grids
  /\ Shifted(g[cell], new[cell], kind, n, b, r, d)
  /\ \A c \in Cells : c # cell => new[c] = g[c]

LEMMA ShiftTurns ==
  ASSUME NEW g \in Grids, NEW cell \in Cells, NEW l, NEW kind \in Kinds,
         NEW n, NEW b, NEW r, NEW d, Shifted(g[cell], l, kind, n, b, r, d)
  PROVE  Turned(g, [g EXCEPT ![cell] = l], cell, kind, n, b, r, d)
  <1>1. l \in Locations
    BY DEF Shifted
  <1> QED BY <1>1 DEF Turned, Grids

\* A count of a kind, and then the kills.
LEMMA ShiftedTwice ==
  ASSUME NEW l \in Locations, NEW m, NEW new, NEW kind, NEW n, NEW d,
         Shifted(l, m, kind, n, 0, 0, 0), Shifted(m, new, kind, 0, 0, 0, d)
  PROVE  Shifted(l, new, kind, n, 0, 0, d)
  <1>1. new \in Locations /\ m \in Locations
    BY DEF Shifted
  <1>2. new.kill = l.kill + d
    BY DEF Shifted, Locations
  <1>3. ASSUME NEW k \in Kinds
        PROVE  /\ new.num[k] = IF k = kind THEN l.num[k] + n ELSE l.num[k]
               /\ new.breed[k] = l.breed[k] /\ new.resting[k] = l.resting[k]
               /\ l.breed[k] \in Int /\ l.resting[k] \in Int
    <2>1. /\ l.breed[k] \in Int /\ l.resting[k] \in Int
          /\ m.num[k] \in Int /\ m.breed[k] \in Int /\ m.resting[k] \in Int
      BY <1>1 DEF Locations
    <2>2. m.num[k] = IF k = kind THEN l.num[k] + n ELSE l.num[k]
      BY DEF Shifted
    <2>3. new.num[k] = m.num[k]
      BY <2>1 DEF Shifted
    <2>4. /\ new.breed[k] = m.breed[k] /\ new.resting[k] = m.resting[k]
          /\ m.breed[k] = l.breed[k] /\ m.resting[k] = l.resting[k]
      BY <2>1 DEF Shifted
    <2> QED BY <2>1, <2>2, <2>3, <2>4
  <1> QED BY <1>1, <1>2, <1>3 DEF Shifted

\* One counter of a location changes.
LEMMA NumShifts ==
  ASSUME NEW l \in Locations, NEW kind \in Kinds, NEW n \in Int
  PROVE  Shifted(l, [l EXCEPT !.num[kind] = @ + n], kind, n, 0, 0, 0)
  <1> DEFINE N == [l.num EXCEPT ![kind] = @ + n]
  <1>1. /\ l.num \in [Kinds -> Int] /\ l.breed \in [Kinds -> Int]
        /\ l.resting \in [Kinds -> Int] /\ l.kill \in Int
    BY DEF Locations
  <1>2. N \in [Kinds -> Int]
        /\ \A k \in Kinds : /\ N[k] = IF k = kind THEN l.num[k] + n ELSE l.num[k]
                            /\ l.breed[k] + 0 = l.breed[k] /\ l.resting[k] + 0 = l.resting[k]
    BY <1>1
  <1> HIDE DEF N
  <1>3. Shifted(l, [l EXCEPT !.num = N], kind, n, 0, 0, 0)
    <2>1. /\ [l EXCEPT !.num = N] \in Locations
          /\ [l EXCEPT !.num = N].num = N /\ [l EXCEPT !.num = N].breed = l.breed
          /\ [l EXCEPT !.num = N].resting = l.resting /\ [l EXCEPT !.num = N].kill = l.kill
      BY <1>2 DEF Locations
    <2> QED BY <1>1, <1>2, <2>1 DEF Shifted
  <1> QED BY <1>3 DEF N

LEMMA BreedShifts ==
  ASSUME NEW l \in Locations, NEW kind \in Kinds, NEW n \in Int
  PROVE  Shifted(l, [l EXCEPT !.breed[kind] = @ + n], kind, 0, n, 0, 0)
  <1> DEFINE N == [l.breed EXCEPT ![kind] = @ + n]
  <1>1. /\ l.num \in [Kinds -> Int] /\ l.breed \in [Kinds -> Int]
        /\ l.resting \in [Kinds -> Int] /\ l.kill \in Int
    BY DEF Locations
  <1>2. N \in [Kinds -> Int]
        /\ \A k \in Kinds : /\ N[k] = IF k = kind THEN l.breed[k] + n ELSE l.breed[k]
                            /\ l.num[k] + 0 = l.num[k] /\ l.resting[k] + 0 = l.resting[k]
    BY <1>1
  <1> HIDE DEF N
  <1>3. Shifted(l, [l EXCEPT !.breed = N], kind, 0, n, 0, 0)
    <2>1. /\ [l EXCEPT !.breed = N] \in Locations
          /\ [l EXCEPT !.breed = N].breed = N /\ [l EXCEPT !.breed = N].num = l.num
          /\ [l EXCEPT !.breed = N].resting = l.resting /\ [l EXCEPT !.breed = N].kill = l.kill
      BY <1>2 DEF Locations
    <2> QED BY <1>1, <1>2, <2>1 DEF Shifted
  <1> QED BY <1>3 DEF N

LEMMA RestingShifts ==
  ASSUME NEW l \in Locations, NEW kind \in Kinds, NEW n \in Int
  PROVE  Shifted(l, [l EXCEPT !.resting[kind] = @ + n], kind, 0, 0, n, 0)
  <1> DEFINE N == [l.resting EXCEPT ![kind] = @ + n]
  <1>1. /\ l.num \in [Kinds -> Int] /\ l.breed \in [Kinds -> Int]
        /\ l.resting \in [Kinds -> Int] /\ l.kill \in Int
    BY DEF Locations
  <1>2. N \in [Kinds -> Int]
        /\ \A k \in Kinds : /\ N[k] = IF k = kind THEN l.resting[k] + n ELSE l.resting[k]
                            /\ l.num[k] + 0 = l.num[k] /\ l.breed[k] + 0 = l.breed[k]
    BY <1>1
  <1> HIDE DEF N
  <1>3. Shifted(l, [l EXCEPT !.resting = N], kind, 0, 0, n, 0)
    <2>1. /\ [l EXCEPT !.resting = N] \in Locations
          /\ [l EXCEPT !.resting = N].resting = N /\ [l EXCEPT !.resting = N].num = l.num
          /\ [l EXCEPT !.resting = N].breed = l.breed
          /\ [l EXCEPT !.resting = N].kill = l.kill
      BY <1>2 DEF Locations
    <2> QED BY <1>1, <1>2, <2>1 DEF Shifted
  <1> QED BY <1>3 DEF N

LEMMA KillShifts ==
  ASSUME NEW l \in Locations, NEW kind \in Kinds, NEW n \in Int
  PROVE  Shifted(l, [l EXCEPT !.kill = @ + n], kind, 0, 0, 0, n)
  <1>1. /\ l.num \in [Kinds -> Int] /\ l.breed \in [Kinds -> Int]
        /\ l.resting \in [Kinds -> Int] /\ l.kill \in Int
    BY DEF Locations
  <1>2. \A k \in Kinds : /\ l.num[k] + 0 = l.num[k] /\ l.breed[k] + 0 = l.breed[k]
                         /\ l.resting[k] + 0 = l.resting[k]
    BY <1>1
  <1> QED BY <1>1, <1>2 DEF Shifted, Locations

-----------------------------------------------------------------------------
(* Balances.                                                               *)

\* The creatures each counter counts.
Seen(c, k)     == {r \in Beings : r.cell = c /\ r.kind = k /\ r.visible}
Breeding(c, k) == {r \in Beings : r.cell = c /\ r.kind = k /\ r.visible /\ Fit(r.energy)}
Hidden(c, k)   == {r \in Beings : r.cell = c /\ r.kind = k /\ ~r.visible}
Quick          == {r \in Beings : Alive(r)}

\* What a counter says beside the creature that acts and its babies.
Num(s, c, k) ==
  (s.grid[c].num[k] - One(s.me \in Seen(c, k)))
    - Tally(s.born, Seen(c, k) \cap Quick)
Breeders(s, c, k) ==
  (s.grid[c].breed[k] - One(s.me \in Breeding(c, k)))
    - Tally(s.born, Breeding(c, k) \cap Quick)
Resters(s, c, k) ==
  (s.grid[c].resting[k] - One(s.me \in Hidden(c, k)))
    - Tally(s.born, Hidden(c, k) \cap Quick)

Balanced(s, t) ==
  \A c \in Cells, k \in Kinds : /\ Num(t, c, k) = Num(s, c, k)
                                /\ Breeders(t, c, k) = Breeders(s, c, k)
                                /\ Resters(t, c, k) = Resters(s, c, k)

SameKills(s, t) == \A c \in Cells : t.grid[c].kill = s.grid[c].kill

LEMMA BalancedTrans ==
  ASSUME NEW s, NEW t, NEW u, Balanced(s, t), Balanced(t, u)
  PROVE  Balanced(s, u)
  BY DEF Balanced

LEMMA OneInt == ASSUME NEW b PROVE One(b) \in Int
  BY DEF One

\* What the creature changes of itself, it changes of its location.
LEMMA Balances ==
  ASSUME NEW s \in Scenes, NEW t \in Scenes, t.born = s.born,
         t.me.kind = s.me.kind, t.me.cell = s.me.cell, NEW n, NEW b, NEW r, NEW d,
         Turned(s.grid, t.grid, s.me.cell, s.me.kind, n, b, r, d),
         n = One(t.me.visible) - One(s.me.visible),
         b = One(t.me.visible /\ Fit(t.me.energy)) - One(s.me.visible /\ Fit(s.me.energy)),
         r = One(~t.me.visible) - One(~s.me.visible)
  PROVE  Balanced(s, t)
  <1>1. /\ s.me \in Beings /\ t.me \in Beings /\ s.grid \in Grids /\ t.grid \in Grids
    BY DEF Scenes
  <1>2. ASSUME NEW c \in Cells, NEW k \in Kinds
        PROVE  /\ t.grid[c].num[k] - One(t.me \in Seen(c, k))
                    = s.grid[c].num[k] - One(s.me \in Seen(c, k))
               /\ t.grid[c].breed[k] - One(t.me \in Breeding(c, k))
                    = s.grid[c].breed[k] - One(s.me \in Breeding(c, k))
               /\ t.grid[c].resting[k] - One(t.me \in Hidden(c, k))
                    = s.grid[c].resting[k] - One(s.me \in Hidden(c, k))
    <2>1. /\ s.grid[c].num[k] \in Int /\ s.grid[c].breed[k] \in Int
          /\ s.grid[c].resting[k] \in Int
      BY <1>1 DEF Grids, Locations
    <2>2. CASE c = s.me.cell /\ k = s.me.kind
      <3>1. /\ t.grid[c].num[k] = s.grid[c].num[k] + n
            /\ t.grid[c].breed[k] = s.grid[c].breed[k] + b
            /\ t.grid[c].resting[k] = s.grid[c].resting[k] + r
        BY <2>2 DEF Turned, Shifted
      <3>2. /\ (t.me \in Seen(c, k) <=> t.me.visible)
            /\ (s.me \in Seen(c, k) <=> s.me.visible)
            /\ (t.me \in Breeding(c, k) <=> t.me.visible /\ Fit(t.me.energy))
            /\ (s.me \in Breeding(c, k) <=> s.me.visible /\ Fit(s.me.energy))
            /\ (t.me \in Hidden(c, k) <=> ~t.me.visible)
            /\ (s.me \in Hidden(c, k) <=> ~s.me.visible)
        BY <1>1, <2>2 DEF Seen, Breeding, Hidden
      <3>3. /\ One(t.me \in Seen(c, k)) = One(t.me.visible)
            /\ One(s.me \in Seen(c, k)) = One(s.me.visible)
            /\ One(t.me \in Breeding(c, k)) = One(t.me.visible /\ Fit(t.me.energy))
            /\ One(s.me \in Breeding(c, k)) = One(s.me.visible /\ Fit(s.me.energy))
            /\ One(t.me \in Hidden(c, k)) = One(~t.me.visible)
            /\ One(s.me \in Hidden(c, k)) = One(~s.me.visible)
        BY ONLY <3>2 DEF One
      <3>4. /\ t.grid[c].num[k] - One(t.me.visible) = s.grid[c].num[k] - One(s.me.visible)
            /\ t.grid[c].breed[k] - One(t.me.visible /\ Fit(t.me.energy))
                 = s.grid[c].breed[k] - One(s.me.visible /\ Fit(s.me.energy))
            /\ t.grid[c].resting[k] - One(~t.me.visible)
                 = s.grid[c].resting[k] - One(~s.me.visible)
        BY <2>1, <3>1, OneInt
      <3> QED BY ONLY <3>3, <3>4
    <2>3. CASE c # s.me.cell \/ k # s.me.kind
      <3>1. /\ t.grid[c].num[k] = s.grid[c].num[k]
            /\ t.grid[c].breed[k] = s.grid[c].breed[k]
            /\ t.grid[c].resting[k] = s.grid[c].resting[k]
        <4>1. CASE c # s.me.cell
          BY <4>1 DEF Turned
        <4>2. CASE c = s.me.cell /\ k # s.me.kind
          BY <4>2 DEF Turned, Shifted
        <4> QED BY <2>3, <4>1, <4>2
      <3>2. /\ t.me \notin Seen(c, k) /\ s.me \notin Seen(c, k)
            /\ t.me \notin Breeding(c, k) /\ s.me \notin Breeding(c, k)
            /\ t.me \notin Hidden(c, k) /\ s.me \notin Hidden(c, k)
        BY <2>3 DEF Seen, Breeding, Hidden
      <3> QED BY <3>1, <3>2 DEF One
    <2> QED BY <2>2, <2>3
  <1> QED BY <1>2 DEF Balanced, Num, Breeders, Resters

-----------------------------------------------------------------------------
(* What the operators do.                                                  *)

\* What becomes of a creature.
Became(r, new, energy, cell, count, visible) ==
  /\ new \in Beings /\ new.kind = r.kind /\ new.energy = energy /\ new.cell = cell
  /\ new.count_down = count /\ new.visible = visible

LEMMA SceneType ==
  ASSUME NEW s \in Scenes
  PROVE  /\ s.me \in Beings /\ s.grid \in Grids /\ s.born \in Seq(Beings)
         /\ s.me.kind \in Kinds /\ s.me.cell \in Cells /\ s.me.energy \in Int
         /\ s.me.count_down \in Int /\ s.me.visible \in BOOLEAN
         /\ s.grid[s.me.cell] \in Locations
         /\ \A c \in Cells : s.grid[c].kill \in Int
         /\ \A c \in Cells, k \in Kinds : /\ s.grid[c].num[k] \in Int
                                          /\ s.grid[c].breed[k] \in Int
                                          /\ s.grid[c].resting[k] \in Int
  <1>1. /\ s.me \in Beings /\ s.grid \in Grids /\ s.born \in Seq(Beings)
    BY DEF Scenes
  <1>2. /\ s.me.kind \in Kinds /\ s.me.cell \in Cells /\ s.me.energy \in Int
        /\ s.me.count_down \in Int /\ s.me.visible \in BOOLEAN
    BY <1>1 DEF Beings
  <1>3. \A c \in Cells : s.grid[c] \in Locations
    BY <1>1 DEF Grids
  <1>4. /\ \A c \in Cells : s.grid[c].kill \in Int
        /\ \A c \in Cells, k \in Kinds : /\ s.grid[c].num[k] \in Int
                                         /\ s.grid[c].breed[k] \in Int
                                         /\ s.grid[c].resting[k] \in Int
    BY <1>3 DEF Locations
  <1> QED BY <1>1, <1>2, <1>3, <1>4

\* A creature that counts as it did.
LEMMA SelfChanges ==
  ASSUME NEW s \in Scenes, NEW t \in Scenes, t.grid = s.grid, t.born = s.born,
         t.me.kind = s.me.kind, t.me.cell = s.me.cell, t.me.visible = s.me.visible,
         s.me.visible => (Fit(t.me.energy) <=> Fit(s.me.energy))
  PROVE  Balanced(s, t) /\ SameKills(s, t)
  <1>1. /\ s.me \in Beings /\ t.me \in Beings
    BY DEF Scenes
  <1>2. ASSUME NEW c \in Cells, NEW k \in Kinds
        PROVE  /\ (t.me \in Seen(c, k) <=> s.me \in Seen(c, k))
               /\ (t.me \in Breeding(c, k) <=> s.me \in Breeding(c, k))
               /\ (t.me \in Hidden(c, k) <=> s.me \in Hidden(c, k))
    BY <1>1 DEF Seen, Breeding, Hidden
  <1>3. ASSUME NEW c \in Cells, NEW k \in Kinds
        PROVE  /\ One(t.me \in Seen(c, k)) = One(s.me \in Seen(c, k))
               /\ One(t.me \in Breeding(c, k)) = One(s.me \in Breeding(c, k))
               /\ One(t.me \in Hidden(c, k)) = One(s.me \in Hidden(c, k))
    BY <1>2 DEF One
  <1> QED BY <1>3 DEF Balanced, Num, Breeders, Resters, SameKills

LEMMA EnergyEffect ==
  ASSUME NEW s \in Scenes, s.me.visible, NEW delta \in Int
  PROVE  LET t == change_energy(s, delta)
         IN  /\ t \in Scenes /\ t.born = s.born
             /\ Became(s.me, t.me, s.me.energy + delta, s.me.cell, s.me.count_down, TRUE)
             /\ Balanced(s, t) /\ SameKills(s, t)
  <1> DEFINE t == change_energy(s, delta)
             cell == s.me.cell
             kind == s.me.kind
             energy == s.me.energy + delta
             n == One(Fit(energy)) - One(Fit(s.me.energy))
             M == [s.me EXCEPT !.energy = energy]
             L == [s.grid[cell] EXCEPT !.breed[kind] = @ + n]
             G == [s.grid EXCEPT ![cell] = L]
  <1>1. /\ s.me \in Beings /\ s.grid \in Grids /\ cell \in Cells /\ kind \in Kinds
        /\ energy \in Int /\ n \in Int /\ s.grid[cell] \in Locations
        /\ s.grid[cell].breed[kind] \in Int /\ s.me.energy \in Int
    BY SceneType DEF One
  <1>2. Became(s.me, M, energy, cell, s.me.count_down, TRUE)
    BY <1>1 DEF Became, Beings
  <1>3. Turned(s.grid, G, cell, kind, 0, n, 0, 0)
    <2>1. Shifted(s.grid[cell], L, kind, 0, n, 0, 0)
      <3> HIDE DEF n
      <3> QED BY <1>1, BreedShifts
    <2> HIDE DEF L, n
    <2> QED BY <1>1, <2>1, ShiftTurns
  <1>4. t = [s EXCEPT !.me = M, !.grid = G]
    <2>1. s.grid[cell].breed[kind] + One(Fit(energy)) - One(Fit(s.me.energy))
            = s.grid[cell].breed[kind] + n
      BY <1>1 DEF One
    <2> QED BY <2>1, Zenon DEF change_energy
  <1> HIDE DEF M, G, t, n
  <1>5. t \in Scenes /\ t.me = M /\ t.grid = G /\ t.born = s.born
    <2>1. M \in Beings /\ G \in Grids
      BY <1>2, <1>3 DEF Became, Turned
    <2> QED BY <1>4, <2>1 DEF Scenes
  <1>6. Balanced(s, t)
    <2>1. /\ t.me.kind = s.me.kind /\ t.me.cell = s.me.cell /\ t.me.visible
          /\ t.me.energy = energy
      BY <1>2, <1>5 DEF Became
    <2>2. 0 = One(t.me.visible) - One(s.me.visible)
          /\ 0 = One(~t.me.visible) - One(~s.me.visible)
      BY <2>1 DEF One
    <2>3. n = One(t.me.visible /\ Fit(t.me.energy)) - One(s.me.visible /\ Fit(s.me.energy))
      BY <2>1 DEF One, n
    <2> QED BY <1>3, <1>5, <2>1, <2>2, <2>3, Balances
  <1>7. SameKills(s, t)
    BY <1>1, <1>3, <1>5, SceneType DEF SameKills, Turned, Shifted
  <1> QED BY <1>2, <1>5, <1>6, <1>7 DEF t

LEMMA InvisibleEffect ==
  ASSUME NEW s \in Scenes, s.me.visible
  PROVE  LET t == set_invisible(s)
         IN  /\ t \in Scenes /\ t.born = s.born
             /\ Became(s.me, t.me, s.me.energy, s.me.cell, s.me.count_down, FALSE)
             /\ Balanced(s, t) /\ SameKills(s, t)
  <1> DEFINE t == set_invisible(s)
             cell == s.me.cell
             kind == s.me.kind
             fit == One(Fit(s.me.energy))
             M == [s.me EXCEPT !.visible = FALSE]
             L == Rested(s.grid[cell], kind, s.me.energy)
             G == [s.grid EXCEPT ![cell] = L]
  <1>1. /\ s.me \in Beings /\ s.grid \in Grids /\ cell \in Cells /\ kind \in Kinds
        /\ s.grid[cell] \in Locations /\ s.me.energy \in Int /\ fit \in Int
    BY SceneType DEF One
  <1>2. Became(s.me, M, s.me.energy, cell, s.me.count_down, FALSE)
    BY <1>1 DEF Became, Beings
  <1>3. Turned(s.grid, G, cell, kind, -1, -fit, 1, 0)
    <2>1. Shifted(s.grid[cell], L, kind, -1, -fit, 1, 0)
      BY <1>1, RestedShifts
    <2> HIDE DEF L, fit
    <2> QED BY <1>1, <2>1, ShiftTurns
  <1>4. t = [s EXCEPT !.grid = G, !.me = M]
    BY Zenon DEF set_invisible
  <1> HIDE DEF M, G, t
  <1>5. t \in Scenes /\ t.me = M /\ t.grid = G /\ t.born = s.born
    <2>1. M \in Beings /\ G \in Grids
      BY <1>2, <1>3 DEF Became, Turned
    <2> QED BY <1>4, <2>1 DEF Scenes
  <1>6. Balanced(s, t)
    <2>1. /\ t.me.kind = s.me.kind /\ t.me.cell = s.me.cell /\ ~t.me.visible
          /\ t.me.energy = s.me.energy
      BY <1>2, <1>5 DEF Became
    <2>2. -1 = One(t.me.visible) - One(s.me.visible)
          /\ 1 = One(~t.me.visible) - One(~s.me.visible)
      BY <2>1 DEF One
    <2>3. -fit
            = One(t.me.visible /\ Fit(t.me.energy)) - One(s.me.visible /\ Fit(s.me.energy))
      BY <2>1 DEF One
    <2> HIDE DEF fit
    <2> QED BY <1>3, <1>5, <2>1, <2>2, <2>3, Balances
  <1>7. SameKills(s, t)
    BY <1>1, <1>3, <1>5, SceneType DEF SameKills, Turned, Shifted
  <1> QED BY <1>2, <1>5, <1>6, <1>7 DEF t

LEMMA VisibleEffect ==
  ASSUME NEW s \in Scenes, ~s.me.visible
  PROVE  LET t == set_visible(s)
         IN  /\ t \in Scenes /\ t.born = s.born
             /\ Became(s.me, t.me, s.me.energy, s.me.cell, s.me.count_down, TRUE)
             /\ Balanced(s, t) /\ SameKills(s, t)
  <1> DEFINE t == set_visible(s)
             cell == s.me.cell
             kind == s.me.kind
             fit == One(Fit(s.me.energy))
             M == [s.me EXCEPT !.visible = TRUE]
             L == Awoken(s.grid[cell], kind, s.me.energy)
             G == [s.grid EXCEPT ![cell] = L]
  <1>1. /\ s.me \in Beings /\ s.grid \in Grids /\ cell \in Cells /\ kind \in Kinds
        /\ s.grid[cell] \in Locations /\ s.me.energy \in Int /\ fit \in Int
    BY SceneType DEF One
  <1>2. Became(s.me, M, s.me.energy, cell, s.me.count_down, TRUE)
    BY <1>1 DEF Became, Beings
  <1>3. Turned(s.grid, G, cell, kind, 1, fit, -1, 0)
    <2>1. Shifted(s.grid[cell], L, kind, 1, fit, -1, 0)
      BY <1>1, AwokenShifts
    <2> HIDE DEF L, fit
    <2> QED BY <1>1, <2>1, ShiftTurns
  <1>4. t = [s EXCEPT !.grid = G, !.me = M]
    BY Zenon DEF set_visible
  <1> HIDE DEF M, G, t
  <1>5. t \in Scenes /\ t.me = M /\ t.grid = G /\ t.born = s.born
    <2>1. M \in Beings /\ G \in Grids
      BY <1>2, <1>3 DEF Became, Turned
    <2> QED BY <1>4, <2>1 DEF Scenes
  <1>6. Balanced(s, t)
    <2>1. /\ t.me.kind = s.me.kind /\ t.me.cell = s.me.cell /\ t.me.visible
          /\ t.me.energy = s.me.energy
      BY <1>2, <1>5 DEF Became
    <2>2. 1 = One(t.me.visible) - One(s.me.visible)
          /\ -1 = One(~t.me.visible) - One(~s.me.visible)
      BY <2>1 DEF One
    <2>3. fit
            = One(t.me.visible /\ Fit(t.me.energy)) - One(s.me.visible /\ Fit(s.me.energy))
      BY <2>1 DEF One
    <2> HIDE DEF fit
    <2> QED BY <1>3, <1>5, <2>1, <2>2, <2>3, Balances
  <1>7. SameKills(s, t)
    BY <1>1, <1>3, <1>5, SceneType DEF SameKills, Turned, Shifted
  <1> QED BY <1>2, <1>5, <1>6, <1>7 DEF t

LEMMA NeighbourCell ==
  ASSUME NEW cell \in Cells, NEW d \in Directions
  PROVE  Neighbour(cell, d) \in Cells
  <1>1. /\ XSize \in Nat /\ XSize > 0 /\ YSize \in Nat /\ YSize > 0
    BY Sim2Assumption
  <1>2. cell[1] \in Int /\ cell[2] \in Int /\ d[1] \in Int /\ d[2] \in Int
    BY <1>1 DEF Cells, Directions
  <1>3. PICK x \in Int, y \in Int : x = cell[1] + d[1] /\ y = cell[2] + d[2]
    BY <1>2
  <1>4. x % XSize \in 0 .. XSize - 1 /\ y % YSize \in 0 .. YSize - 1
    BY <1>1
  <1> QED BY <1>3, <1>4 DEF Neighbour, Cells

\* A changed grid, counter by counter.
LEMMA TurnedAt ==
  ASSUME NEW g \in Grids, NEW new, NEW cell \in Cells, NEW kind \in Kinds,
         NEW n \in Int, NEW b \in Int, NEW r \in Int, NEW d \in Int,
         Turned(g, new, cell, kind, n, b, r, d), NEW c \in Cells, NEW k \in Kinds
  PROVE  /\ new[c].num[k] = g[c].num[k] + (IF c = cell /\ k = kind THEN n ELSE 0)
         /\ new[c].breed[k] = g[c].breed[k] + (IF c = cell /\ k = kind THEN b ELSE 0)
         /\ new[c].resting[k] = g[c].resting[k] + (IF c = cell /\ k = kind THEN r ELSE 0)
         /\ new[c].kill = g[c].kill + (IF c = cell THEN d ELSE 0)
  <1>1. /\ g[c].num[k] \in Int /\ g[c].breed[k] \in Int /\ g[c].resting[k] \in Int
        /\ g[c].kill \in Int
    BY DEF Grids, Locations
  <1>2. CASE c = cell
    BY <1>1, <1>2 DEF Turned, Shifted
  <1>3. CASE c # cell
    BY <1>1, <1>3 DEF Turned
  <1> QED BY <1>2, <1>3

LEMMA EnteredEffect ==
  ASSUME NEW s \in Scenes
  PROVE  LET t == Entered(s)
         IN  /\ t \in Scenes /\ t.born = s.born /\ t.me = s.me
             /\ Turned(s.grid, t.grid, s.me.cell, s.me.kind, 1, One(Fit(s.me.energy)), 0, 0)
  <1> DEFINE t == Entered(s)
             L == Add(s.grid[s.me.cell], s.me.kind, s.me.energy)
             G == [s.grid EXCEPT ![s.me.cell] = L]
  <1>1. Turned(s.grid, G, s.me.cell, s.me.kind, 1, One(Fit(s.me.energy)), 0, 0)
    <2>1. Shifted(s.grid[s.me.cell], L, s.me.kind, 1, One(Fit(s.me.energy)), 0, 0)
      BY SceneType, AddShifts
    <2> HIDE DEF L
    <2> QED BY <2>1, SceneType, ShiftTurns
  <1>2. t = [s EXCEPT !.grid = G]
    BY Zenon DEF Entered
  <1>3. G \in Grids
    BY <1>1 DEF Turned
  <1> HIDE DEF G, t
  <1>4. t \in Scenes /\ t.grid = G /\ t.born = s.born /\ t.me = s.me
    BY <1>2, <1>3 DEF Scenes
  <1> QED BY <1>1, <1>4 DEF t

LEMMA MoveEffect ==
  ASSUME NEW s \in Scenes, s.me.visible, NEW d \in Directions
  PROVE  LET t == movee(s, d)
         IN  /\ t \in Scenes /\ t.born = s.born
             /\ Became(s.me, t.me, s.me.energy - 1, Neighbour(s.me.cell, d),
                       s.me.count_down, TRUE)
             /\ Balanced(s, t) /\ SameKills(s, t)
  <1> DEFINE t == movee(s, d)
             cell == s.me.cell
             kind == s.me.kind
             next == Neighbour(cell, d)
             fit == One(Fit(s.me.energy))
             fitter == One(Fit(s.me.energy - 1))
             M == [s.me EXCEPT !.energy = @ - 1, !.cell = next]
             L == Remove(s.grid[cell], kind, s.me.energy)
             G == [s.grid EXCEPT ![cell] = L]
             u == [s EXCEPT !.grid = G, !.me = M]
  <1>1. /\ s.me \in Beings /\ s.grid \in Grids /\ cell \in Cells /\ kind \in Kinds
        /\ s.grid[cell] \in Locations /\ s.me.energy \in Int /\ next \in Cells
        /\ fit \in Int /\ -fit \in Int /\ fitter \in Int
    BY SceneType, NeighbourCell DEF One
  <1>2. Became(s.me, M, s.me.energy - 1, next, s.me.count_down, TRUE)
    <2> PICK energy \in Int : energy = s.me.energy - 1
      BY <1>1
    <2>1. M = [s.me EXCEPT !.energy = energy, !.cell = next]
      OBVIOUS
    <2> HIDE DEF M, next
    <2>2. M \in Beings
      BY <1>1, <2>1 DEF Beings
    <2>3. /\ M.kind = s.me.kind /\ M.energy = energy /\ M.cell = next
          /\ M.count_down = s.me.count_down /\ M.visible
      BY <1>1, <2>1 DEF Beings
    <2> QED BY <2>2, <2>3 DEF Became, Beings
  <1>3. Turned(s.grid, G, cell, kind, -1, -fit, 0, 0)
    <2>1. Shifted(s.grid[cell], L, kind, -1, -fit, 0, 0)
      BY <1>1, RemoveShifts
    <2> HIDE DEF L, fit
    <2> QED BY <1>1, <2>1, ShiftTurns
  <1>4. t = Entered(u)
    BY Zenon DEF movee
  <1> HIDE DEF M, G, t
  <1>5. u \in Scenes /\ u.me = M /\ u.grid = G /\ u.born = s.born
    <2>1. M \in Beings /\ G \in Grids
      BY <1>2, <1>3 DEF Became, Turned
    <2> QED BY <2>1 DEF Scenes
  <1> HIDE DEF u, next, fit, fitter
  <1>6. /\ u.me.cell = next /\ u.me.kind = kind /\ u.me.energy = s.me.energy - 1
        /\ One(Fit(u.me.energy)) = fitter
    BY <1>2, <1>5 DEF Became, fitter
  <1>7. /\ t \in Scenes /\ t.born = s.born /\ t.me = M
        /\ Turned(G, t.grid, next, kind, 1, fitter, 0, 0)
    BY <1>4, <1>5, <1>6, EnteredEffect
  <1>8. ASSUME NEW c \in Cells, NEW k \in Kinds
        PROVE  /\ t.grid[c].num[k] - One(t.me \in Seen(c, k))
                    = s.grid[c].num[k] - One(s.me \in Seen(c, k))
               /\ t.grid[c].breed[k] - One(t.me \in Breeding(c, k))
                    = s.grid[c].breed[k] - One(s.me \in Breeding(c, k))
               /\ t.grid[c].resting[k] - One(t.me \in Hidden(c, k))
                    = s.grid[c].resting[k] - One(s.me \in Hidden(c, k))
               /\ t.grid[c].kill = s.grid[c].kill
    <2>1. /\ s.grid[c].num[k] \in Int /\ s.grid[c].breed[k] \in Int
          /\ s.grid[c].resting[k] \in Int /\ s.grid[c].kill \in Int
      BY SceneType
    <2>2. /\ G[c].num[k] = s.grid[c].num[k] + (IF c = cell /\ k = kind THEN -1 ELSE 0)
          /\ G[c].breed[k] = s.grid[c].breed[k] + (IF c = cell /\ k = kind THEN -fit ELSE 0)
          /\ G[c].resting[k] = s.grid[c].resting[k]
          /\ G[c].kill = s.grid[c].kill
      BY <1>1, <1>3, <2>1, TurnedAt
    <2>3. /\ t.grid[c].num[k] = G[c].num[k] + (IF c = next /\ k = kind THEN 1 ELSE 0)
          /\ t.grid[c].breed[k] = G[c].breed[k] + (IF c = next /\ k = kind THEN fitter ELSE 0)
          /\ t.grid[c].resting[k] = G[c].resting[k]
          /\ t.grid[c].kill = G[c].kill
      <3>1. G \in Grids
        BY <1>3 DEF Turned
      <3> QED BY <1>1, <1>7, <2>1, <2>2, <3>1, TurnedAt
    <2>4. /\ (t.me \in Seen(c, k) <=> c = next /\ k = kind)
          /\ (s.me \in Seen(c, k) <=> c = cell /\ k = kind)
          /\ (t.me \in Breeding(c, k) <=> c = next /\ k = kind /\ Fit(s.me.energy - 1))
          /\ (s.me \in Breeding(c, k) <=> c = cell /\ k = kind /\ Fit(s.me.energy))
          /\ t.me \notin Hidden(c, k) /\ s.me \notin Hidden(c, k)
      BY <1>1, <1>2, <1>7 DEF Seen, Breeding, Hidden, Became
    <2>5. /\ One(t.me \in Seen(c, k)) = IF c = next /\ k = kind THEN 1 ELSE 0
          /\ One(s.me \in Seen(c, k)) = IF c = cell /\ k = kind THEN 1 ELSE 0
          /\ One(t.me \in Breeding(c, k)) = IF c = next /\ k = kind THEN fitter ELSE 0
          /\ One(s.me \in Breeding(c, k)) = IF c = cell /\ k = kind THEN fit ELSE 0
          /\ One(t.me \in Hidden(c, k)) = 0 /\ One(s.me \in Hidden(c, k)) = 0
      BY <2>4 DEF One, fit, fitter
    <2> QED BY <1>1, <2>1, <2>2, <2>3, <2>5
  <1>9. Balanced(s, t) /\ SameKills(s, t)
    <2>1. \E k : k \in Kinds
      BY DEF Kinds
    <2> QED BY <1>7, <1>8, <2>1 DEF Balanced, Num, Breeders, Resters, SameKills
  <1> QED BY <1>2, <1>7, <1>9 DEF t, next

LEMMA RestEffect ==
  ASSUME NEW s \in Scenes, s.me.visible, NEW count \in Int
  PROVE  LET t == rest(s, count)
         IN  /\ t \in Scenes /\ t.born = s.born
             /\ Became(s.me, t.me, s.me.energy - RestCost(count), s.me.cell, count, FALSE)
             /\ Balanced(s, t) /\ SameKills(s, t)
  <1> DEFINE u == set_invisible(s)
             t == rest(s, count)
             M == [u.me EXCEPT !.count_down = count, !.energy = @ - RestCost(count)]
  <1>1. /\ u \in Scenes /\ u.born = s.born /\ Balanced(s, u) /\ SameKills(s, u)
        /\ Became(s.me, u.me, s.me.energy, s.me.cell, s.me.count_down, FALSE)
    BY InvisibleEffect
  <1>2. t = [u EXCEPT !.me = M]
    BY Zenon DEF rest
  <1> HIDE DEF u, t
  <1>3. Became(s.me, M, s.me.energy - RestCost(count), s.me.cell, count, FALSE)
    <2>1. s.me.energy \in Int /\ RestCost(count) \in Int
      BY SceneType DEF RestCost
    <2> PICK energy \in Int : energy = s.me.energy - RestCost(count)
      BY <2>1
    <2>2. u.me.energy = s.me.energy /\ u.me \in Beings
      BY <1>1 DEF Became
    <2>3. M = [u.me EXCEPT !.count_down = count, !.energy = energy]
      BY <2>2
    <2> HIDE DEF M
    <2>4. M \in Beings
      BY <2>2, <2>3 DEF Beings
    <2>5. /\ M.kind = u.me.kind /\ M.energy = energy /\ M.cell = u.me.cell
          /\ M.count_down = count /\ M.visible = u.me.visible
      BY <2>2, <2>3 DEF Beings
    <2> QED BY <1>1, <2>4, <2>5 DEF Became, Beings
  <1> HIDE DEF M
  <1>4. t \in Scenes /\ t.me = M /\ t.grid = u.grid /\ t.born = s.born
    <2>1. M \in Beings
      BY <1>3 DEF Became
    <2> QED BY <1>1, <1>2, <2>1 DEF Scenes
  <1>5. Balanced(u, t) /\ SameKills(u, t)
    <2>1. /\ t.me.kind = u.me.kind /\ t.me.cell = u.me.cell /\ t.me.visible = u.me.visible
          /\ ~u.me.visible
      BY <1>1, <1>3, <1>4 DEF Became
    <2> QED BY <1>1, <1>4, <2>1, SelfChanges
  <1>6. Balanced(s, t) /\ SameKills(s, t)
    BY <1>1, <1>5, BalancedTrans DEF SameKills
  <1> QED BY <1>3, <1>4, <1>6 DEF t

\* A baby is alive, invisible, where its parent is.
BabiesLive == InitEnergy > RestCost(BreedPause)

BabyOf(b, r) ==
  b \in Beings /\ b.kind = r.kind /\ b.cell = r.cell /\ ~b.visible /\ Alive(b)

LEMMA BirthEffect ==
  ASSUME BabiesLive, NEW s \in Scenes
  PROVE  LET t == GiveBirth(s)
         IN  /\ t \in Scenes /\ t.me = s.me
             /\ \E b : t.born = Append(s.born, b) /\ BabyOf(b, s.me)
             /\ Balanced(s, t) /\ SameKills(s, t)
  <1> DEFINE t == GiveBirth(s)
             cell == s.me.cell
             kind == s.me.kind
             me == Creature(kind, cell)
             fit == One(Fit(InitEnergy))
             v == [s EXCEPT !.me = me]
             w == Entered(v)
             u == rest(w, BreedPause)
             b == u.me
             B == Append(s.born, b)
  <1>1. /\ s.me \in Beings /\ s.grid \in Grids /\ cell \in Cells /\ kind \in Kinds
        /\ InitEnergy \in Int /\ BreedPause \in Int /\ fit \in Int /\ s.born \in Seq(Beings)
    BY SceneType, Sim2Assumption DEF One
  <1>2. me \in Beings /\ me.kind = kind /\ me.cell = cell /\ me.visible
        /\ me.energy = InitEnergy
    BY <1>1 DEF Creature, Beings
  <1>3. v \in Scenes /\ v.me = me /\ v.grid = s.grid /\ v.born = s.born
    <2> HIDE DEF me
    <2> QED BY <1>2 DEF Scenes
  <1> HIDE DEF v, me
  <1>4. /\ w \in Scenes /\ w.born = s.born /\ w.me = me
        /\ Turned(s.grid, w.grid, cell, kind, 1, fit, 0, 0)
    BY <1>2, <1>3, EnteredEffect
  <1> HIDE DEF w
  <1>5. /\ u \in Scenes /\ u.born = s.born /\ Balanced(w, u) /\ SameKills(w, u)
        /\ Became(me, b, InitEnergy - RestCost(BreedPause), cell, BreedPause, FALSE)
    BY <1>1, <1>2, <1>4, RestEffect
  <1>6. BabyOf(b, s.me)
    <2>1. RestCost(BreedPause) \in Int /\ InitEnergy - RestCost(BreedPause) > 0
      BY <1>1 DEF BabiesLive, RestCost
    <2> QED BY <1>2, <1>5, <2>1 DEF BabyOf, Became, Alive
  <1>7. t = [u EXCEPT !.me = s.me, !.born = B]
    <2>1. t = [u EXCEPT !.me = s.me, !.born = Append(u.born, u.me)]
      BY Zenon DEF GiveBirth, w, v, me
    <2> QED BY <1>5, <2>1, Zenon
  <1> HIDE DEF t, u
  <1>8. B \in Seq(Beings)
    BY <1>1, <1>6 DEF BabyOf
  <1>9. t \in Scenes /\ t.me = s.me /\ t.grid = u.grid /\ t.born = B
    <2> HIDE DEF B, b
    <2> QED BY <1>1, <1>5, <1>7, <1>8 DEF Scenes
  <1>10. ASSUME NEW P
         PROVE  Tally(B, P) = Tally(s.born, P) + One(b \in P) /\ Tally(s.born, P) \in Int
    <2>1. b \in Beings
      BY <1>6 DEF BabyOf
    <2> HIDE DEF b
    <2> QED BY <1>1, <2>1, TallyAppend, Tallied DEF One, OneIf
  <1> HIDE DEF B, b
  <1>11. ASSUME NEW c \in Cells, NEW k \in Kinds
         PROVE  /\ Num(t, c, k) = Num(s, c, k)
                /\ Breeders(t, c, k) = Breeders(s, c, k)
                /\ Resters(t, c, k) = Resters(s, c, k)
    <2> DEFINE TN == Tally(s.born, Seen(c, k) \cap Quick)
               TB == Tally(s.born, Breeding(c, k) \cap Quick)
               TR == Tally(s.born, Hidden(c, k) \cap Quick)
    <2>1. /\ s.grid[c].num[k] \in Int /\ s.grid[c].breed[k] \in Int
          /\ s.grid[c].resting[k] \in Int
          /\ u.grid[c].num[k] \in Int /\ u.grid[c].breed[k] \in Int
          /\ u.grid[c].resting[k] \in Int
      BY <1>5, SceneType
    <2>2. TN \in Int /\ TB \in Int /\ TR \in Int
      BY <1>10
    <2>3. /\ w.grid[c].num[k] = s.grid[c].num[k] + (IF c = cell /\ k = kind THEN 1 ELSE 0)
          /\ w.grid[c].breed[k]
               = s.grid[c].breed[k] + (IF c = cell /\ k = kind THEN fit ELSE 0)
          /\ w.grid[c].resting[k] = s.grid[c].resting[k]
      <3> HIDE DEF fit
      <3>1. s.grid \in Grids /\ 0 \in Int /\ 1 \in Int /\ fit \in Int
        BY <1>1, <1>4
      <3>2. /\ w.grid[c].num[k] = s.grid[c].num[k] + (IF c = cell /\ k = kind THEN 1 ELSE 0)
            /\ w.grid[c].breed[k]
                 = s.grid[c].breed[k] + (IF c = cell /\ k = kind THEN fit ELSE 0)
            /\ w.grid[c].resting[k]
                 = s.grid[c].resting[k] + (IF c = cell /\ k = kind THEN 0 ELSE 0)
        BY ONLY <1>1, <1>4, <3>1, TurnedAt
      <3> QED BY <2>1, <3>2
    <2>4. /\ One(w.me \in Seen(c, k)) = IF c = cell /\ k = kind THEN 1 ELSE 0
          /\ One(w.me \in Breeding(c, k)) = IF c = cell /\ k = kind THEN fit ELSE 0
          /\ One(w.me \in Hidden(c, k)) = 0
      BY <1>2, <1>4 DEF One, Seen, Breeding, Hidden
    <2>5. /\ (u.grid[c].num[k] - One(b \in Seen(c, k))) - TN = s.grid[c].num[k] - TN
          /\ (u.grid[c].breed[k] - One(b \in Breeding(c, k))) - TB = s.grid[c].breed[k] - TB
          /\ (u.grid[c].resting[k] - One(b \in Hidden(c, k))) - TR = s.grid[c].resting[k] - TR
      <3>1. /\ (u.grid[c].num[k] - One(b \in Seen(c, k))) - TN
                 = (w.grid[c].num[k] - One(w.me \in Seen(c, k))) - TN
            /\ (u.grid[c].breed[k] - One(b \in Breeding(c, k))) - TB
                 = (w.grid[c].breed[k] - One(w.me \in Breeding(c, k))) - TB
            /\ (u.grid[c].resting[k] - One(b \in Hidden(c, k))) - TR
                 = (w.grid[c].resting[k] - One(w.me \in Hidden(c, k))) - TR
        BY <1>4, <1>5 DEF Balanced, Num, Breeders, Resters, b
      <3> HIDE DEF TN, TB, TR
      <3> QED BY <1>1, <2>1, <2>3, <2>4, <3>1
    <2>6. /\ One(b \in Seen(c, k)) = One(b \in Seen(c, k) \cap Quick)
          /\ One(b \in Breeding(c, k)) = One(b \in Breeding(c, k) \cap Quick)
          /\ One(b \in Hidden(c, k)) = One(b \in Hidden(c, k) \cap Quick)
      BY <1>6 DEF One, BabyOf, Quick
    <2>7. /\ Tally(B, Seen(c, k) \cap Quick) = TN + One(b \in Seen(c, k))
          /\ Tally(B, Breeding(c, k) \cap Quick) = TB + One(b \in Breeding(c, k))
          /\ Tally(B, Hidden(c, k) \cap Quick) = TR + One(b \in Hidden(c, k))
      BY <1>10, <2>6
    <2>8. /\ One(b \in Seen(c, k)) \in Int /\ One(b \in Breeding(c, k)) \in Int
          /\ One(b \in Hidden(c, k)) \in Int /\ One(s.me \in Seen(c, k)) \in Int
          /\ One(s.me \in Breeding(c, k)) \in Int /\ One(s.me \in Hidden(c, k)) \in Int
      BY DEF One
    <2> QED BY <1>9, <2>1, <2>2, <2>5, <2>7, <2>8 DEF Num, Breeders, Resters
  <1>12. SameKills(s, t)
    <2>1. ASSUME NEW c \in Cells PROVE w.grid[c].kill = s.grid[c].kill
      <3>1. \E k : k \in Kinds /\ s.grid[c].kill \in Int
        BY SceneType DEF Kinds
      <3> QED BY <1>1, <1>4, <3>1, TurnedAt
    <2> QED BY <1>5, <1>9, <2>1 DEF SameKills
  <1>13. \E x : t.born = Append(s.born, x) /\ BabyOf(x, s.me)
    BY <1>6, <1>9 DEF B
  <1> QED BY <1>9, <1>11, <1>12, <1>13 DEF t, Balanced

\* One kill is noted where the creature is.
KillNoted(s, t) ==
  \A c \in Cells : t.grid[c].kill = s.grid[c].kill + (IF c = t.me.cell THEN 1 ELSE 0)

LEMMA KillEffect ==
  ASSUME NEW s \in Scenes, s.me.visible
  PROVE  LET t == Kill(s)
         IN  /\ t \in Scenes /\ t.born = s.born
             /\ t.me.kind = s.me.kind /\ t.me.cell = s.me.cell /\ t.me.visible
             /\ Balanced(s, t) /\ KillNoted(s, t)
  <1> DEFINE u == change_energy(s, KillGain)
             t == Kill(s)
             cell == s.me.cell
             M == [u.me EXCEPT !.count_down = KillPause]
             L == [u.grid[cell] EXCEPT !.kill = @ + 1]
             G == [u.grid EXCEPT ![cell] = L]
  <1>1. KillGain \in Int /\ KillPause \in Int /\ s.me.energy \in Int /\ cell \in Cells
    BY Sim2Assumption, SceneType
  <1>2. /\ u \in Scenes /\ u.born = s.born /\ Balanced(s, u) /\ SameKills(s, u)
        /\ Became(s.me, u.me, s.me.energy + KillGain, cell, s.me.count_down, TRUE)
    BY <1>1, EnergyEffect
  <1>3. t = [u EXCEPT !.me = M, !.grid = G]
    BY Zenon DEF Kill
  <1> HIDE DEF u, t
  <1>4. /\ u.me \in Beings /\ u.grid \in Grids /\ u.me.kind \in Kinds /\ u.me.cell = cell
        /\ u.grid[cell] \in Locations
    BY <1>2, SceneType DEF Became
  <1>5. Became(u.me, M, u.me.energy, cell, KillPause, TRUE)
    BY <1>1, <1>2, <1>4 DEF Became, Beings
  <1>6. Turned(u.grid, G, cell, u.me.kind, 0, 0, 0, 1)
    <2>1. Shifted(u.grid[cell], L, u.me.kind, 0, 0, 0, 1)
      BY <1>4, KillShifts
    <2> HIDE DEF L
    <2> QED BY <1>1, <1>4, <2>1, ShiftTurns
  <1> HIDE DEF M, G
  <1>7. t \in Scenes /\ t.me = M /\ t.grid = G /\ t.born = s.born
    <2>1. M \in Beings /\ G \in Grids
      BY <1>5, <1>6 DEF Became, Turned
    <2> QED BY <1>2, <1>3, <2>1 DEF Scenes
  <1>8. /\ t.me.kind = u.me.kind /\ t.me.cell = u.me.cell /\ t.me.visible /\ u.me.visible
        /\ t.me.energy = u.me.energy
    BY <1>2, <1>4, <1>5, <1>7 DEF Became
  <1>9. Balanced(u, t)
    <2>1. /\ 0 = One(t.me.visible) - One(u.me.visible)
          /\ 0 = One(t.me.visible /\ Fit(t.me.energy)) - One(u.me.visible /\ Fit(u.me.energy))
          /\ 0 = One(~t.me.visible) - One(~u.me.visible)
      BY <1>8 DEF One
    <2> QED BY <1>2, <1>4, <1>6, <1>7, <1>8, <2>1, Balances
  <1>10. KillNoted(s, t)
    <2>1. ASSUME NEW c \in Cells
          PROVE  t.grid[c].kill = u.grid[c].kill + (IF c = cell THEN 1 ELSE 0)
      <3>1. \E k : k \in Kinds /\ u.grid[c].kill \in Int
        BY <1>2, SceneType DEF Kinds
      <3> QED BY <1>1, <1>4, <1>6, <1>7, <3>1, TurnedAt
    <2> QED BY <1>2, <1>4, <1>8, <2>1 DEF SameKills, KillNoted
  <1>11. Balanced(s, t)
    BY <1>2, <1>9, BalancedTrans
  <1> QED BY <1>2, <1>4, <1>7, <1>8, <1>10, <1>11 DEF t, Became

\* A scene has no babies at first: the counters say what the balance says.
LEMMA Unborn ==
  ASSUME NEW s \in Scenes, s.born = <<>>, NEW c \in Cells, NEW k \in Kinds
  PROVE  /\ Num(s, c, k) = s.grid[c].num[k] - One(s.me \in Seen(c, k))
         /\ Breeders(s, c, k) = s.grid[c].breed[k] - One(s.me \in Breeding(c, k))
         /\ Resters(s, c, k) = s.grid[c].resting[k] - One(s.me \in Hidden(c, k))
         /\ Num(s, c, k) \in Int /\ Breeders(s, c, k) \in Int /\ Resters(s, c, k) \in Int
  <1>1. /\ s.grid[c].num[k] \in Int /\ s.grid[c].breed[k] \in Int
        /\ s.grid[c].resting[k] \in Int
    BY SceneType
  <1>2. /\ One(s.me \in Seen(c, k)) \in Int /\ One(s.me \in Breeding(c, k)) \in Int
        /\ One(s.me \in Hidden(c, k)) \in Int
    BY DEF One
  <1>3. /\ Tally(s.born, Seen(c, k) \cap Quick) = 0
        /\ Tally(s.born, Breeding(c, k) \cap Quick) = 0
        /\ Tally(s.born, Hidden(c, k) \cap Quick) = 0
    BY TallyEmpty
  <1> QED BY <1>1, <1>2, <1>3 DEF Num, Breeders, Resters

\* A predator that kills does so where a visible prey is.
LEMMA HuntEffect ==
  ASSUME NEW s \in Scenes, s.me.visible, s.born = <<>>, NEW d \in Directions,
         NEW roll \in Int
  PROVE  LET t == hunt(s, d, roll)
         IN  /\ t \in Scenes /\ t.born = <<>> /\ t.me.kind = s.me.kind /\ t.me.visible
             /\ Balanced(s, t)
             /\ \/ SameKills(s, t)
                \/ /\ KillNoted(s, t) /\ s.me.kind = "predator"
                   /\ Num(s, t.me.cell, "prey") > 0
  <1> DEFINE m == movee(s, d)
             t == hunt(s, d, roll)
             k == Kill(m)
  <1>1. /\ m \in Scenes /\ m.born = <<>> /\ Balanced(s, m) /\ SameKills(s, m)
        /\ m.me.kind = s.me.kind /\ m.me.visible
    BY MoveEffect DEF Became
  <1>2. /\ m.me.cell \in Cells /\ s.me.kind \in Kinds /\ -HuntCost \in Int
        /\ s.me.kind \in {"predator", "prey"}
    BY <1>1, SceneType, Sim2Assumption DEF Kinds
  <1> HIDE DEF m
  <1>3. CASE s.me.kind = "prey"
    <2> PICK gain \in Int : gain = 2
      OBVIOUS
    <2>1. t = change_energy(m, gain)
      BY <1>3 DEF hunt, m
    <2>2. /\ t \in Scenes /\ t.born = m.born /\ t.me.kind = m.me.kind /\ t.me.visible
          /\ Balanced(m, t) /\ SameKills(m, t)
      <3> DEFINE e == change_energy(m, gain)
      <3>1. /\ e \in Scenes /\ e.born = m.born /\ Balanced(m, e) /\ SameKills(m, e)
            /\ Became(m.me, e.me, m.me.energy + gain, m.me.cell, m.me.count_down, TRUE)
        BY <1>1, EnergyEffect
      <3> HIDE DEF e
      <3>2. e.me.kind = m.me.kind /\ e.me.visible /\ e.me.cell = m.me.cell
        BY <3>1 DEF Became
      <3>3. t = e
        BY <2>1 DEF e
      <3> HIDE DEF t
      <3> QED BY <3>1, <3>2, <3>3
    <2> QED BY <1>1, <2>2, BalancedTrans DEF SameKills
  <1>4. CASE s.me.kind = "predator" /\ ~has_prey(m.grid[m.me.cell])
    <2>1. t = m
      BY <1>4 DEF hunt, m
    <2> QED BY <1>1, <2>1
  <1>5. CASE s.me.kind = "predator" /\ has_prey(m.grid[m.me.cell]) /\ ~(m.me.energy > roll)
    <2>1. t = change_energy(m, -HuntCost)
      BY <1>5 DEF hunt, m
    <2>2. /\ t \in Scenes /\ t.born = m.born /\ t.me.kind = m.me.kind /\ t.me.visible
          /\ Balanced(m, t) /\ SameKills(m, t)
      <3> DEFINE e == change_energy(m, -HuntCost)
      <3>1. /\ e \in Scenes /\ e.born = m.born /\ Balanced(m, e) /\ SameKills(m, e)
            /\ Became(m.me, e.me, m.me.energy + (-HuntCost), m.me.cell, m.me.count_down, TRUE)
        BY <1>1, <1>2, EnergyEffect
      <3> HIDE DEF e
      <3>2. e.me.kind = m.me.kind /\ e.me.visible /\ e.me.cell = m.me.cell
        BY <3>1 DEF Became
      <3>3. t = e
        BY <2>1 DEF e
      <3> HIDE DEF t
      <3> QED BY <3>1, <3>2, <3>3
    <2> QED BY <1>1, <2>2, BalancedTrans DEF SameKills
  <1>6. CASE s.me.kind = "predator" /\ has_prey(m.grid[m.me.cell]) /\ m.me.energy > roll
    <2>1. t = change_energy(k, -HuntCost)
      BY <1>6 DEF hunt, m
    <2>2. /\ k \in Scenes /\ k.born = m.born /\ k.me.visible
          /\ k.me.kind = m.me.kind /\ k.me.cell = m.me.cell
          /\ Balanced(m, k) /\ KillNoted(m, k)
      BY <1>1, KillEffect
    <2> HIDE DEF k
    <2>3. /\ t \in Scenes /\ t.born = k.born /\ t.me.kind = k.me.kind /\ t.me.visible
          /\ t.me.cell = k.me.cell /\ Balanced(k, t) /\ SameKills(k, t)
      <3> DEFINE e == change_energy(k, -HuntCost)
      <3>1. /\ e \in Scenes /\ e.born = k.born /\ Balanced(k, e) /\ SameKills(k, e)
            /\ Became(k.me, e.me, k.me.energy + (-HuntCost), k.me.cell, k.me.count_down, TRUE)
        BY <1>2, <2>2, EnergyEffect
      <3> HIDE DEF e
      <3>2. e.me.kind = k.me.kind /\ e.me.visible /\ e.me.cell = k.me.cell
        BY <3>1 DEF Became
      <3>3. t = e
        BY <2>1 DEF e
      <3> HIDE DEF t
      <3> QED BY <3>1, <3>2, <3>3
    <2> HIDE DEF t
    <2>4. Balanced(s, t)
      BY <1>1, <2>2, <2>3, BalancedTrans
    <2>5. KillNoted(s, t)
      BY <1>1, <2>2, <2>3 DEF KillNoted, SameKills
    <2>6. Num(s, t.me.cell, "prey") > 0
      <3>1. m.me \notin Seen(m.me.cell, "prey") /\ "prey" \in Kinds
        BY <1>1, <1>6 DEF Seen, Kinds
      <3>2. Num(m, m.me.cell, "prey") = m.grid[m.me.cell].num["prey"] - 0
        BY <1>1, <1>2, <3>1, Unborn DEF One
      <3>3. m.grid[m.me.cell].num["prey"] > 0 /\ m.grid[m.me.cell].num["prey"] \in Int
        BY <1>1, <1>2, <1>6, <3>1, SceneType DEF has_prey
      <3>4. Num(m, m.me.cell, "prey") = Num(s, m.me.cell, "prey")
        BY <1>1, <1>2, <3>1 DEF Balanced
      <3> QED BY <2>2, <2>3, <3>2, <3>3, <3>4
    <2> QED BY <1>1, <1>6, <2>2, <2>3, <2>4, <2>5, <2>6 DEF t
  <1> QED BY <1>2, <1>3, <1>4, <1>5, <1>6

\* The babies of a turn.
Babies(born, r) == born \in Seq(Beings) /\ \A i \in 1 .. Len(born) : BabyOf(born[i], r)

LEMMA NoBabies == \A r : Babies(<<>>, r)
  BY DEF Babies

\* A creature that gives birth met another with the energy to breed.
LEMMA BreedEffect ==
  ASSUME BabiesLive, NEW s \in Scenes, s.me.visible, s.born = <<>>, NEW d \in Directions
  PROVE  LET t == breed(s, d)
         IN  /\ t \in Scenes /\ t.me.kind = s.me.kind
             /\ Babies(t.born, t.me)
             /\ Balanced(s, t) /\ SameKills(s, t)
             /\ t.born # <<>> => Breeders(s, t.me.cell, t.me.kind) > 0
  <1> DEFINE m == movee(s, d)
             t == breed(s, d)
             i == set_invisible(m)
             M == [i.me EXCEPT !.count_down = BreedPause, !.energy = @ - BreedCost]
             p == [i EXCEPT !.me = M]
             f == GiveBirth(p)
             g == GiveBirth(f)
  <1>1. /\ m \in Scenes /\ m.born = <<>> /\ Balanced(s, m) /\ SameKills(s, m)
        /\ m.me.kind = s.me.kind /\ m.me.visible
    BY MoveEffect DEF Became
  <1>2. /\ m.me.cell \in Cells /\ m.me.kind \in Kinds /\ m.me.energy \in Int
        /\ BreedCost \in Int /\ BreedPause \in Int
    BY <1>1, SceneType, Sim2Assumption
  <1>3. t = IF has_partner(m.grid[m.me.cell], m.me.kind) THEN g ELSE m
    <2> DEFINE q == [i EXCEPT !.me.count_down = BreedPause, !.me.energy = @ - BreedCost]
    <2>1. t = IF has_partner(m.grid[m.me.cell], m.me.kind)
              THEN GiveBirth(GiveBirth(q)) ELSE m
      BY Zenon DEF breed
    <2>2. q = p
      <3> HIDE DEF i
      <3> QED BY Zenon
    <2> HIDE DEF q, p, m, t
    <2> QED BY <2>1, <2>2, Zenon
  <1> HIDE DEF m, t
  <1>4. CASE ~has_partner(m.grid[m.me.cell], m.me.kind)
    <2>1. t = m
      BY <1>3, <1>4
    <2>2. Babies(t.born, t.me)
      BY <1>1, <2>1, NoBabies
    <2> QED BY <1>1, <2>1, <2>2 DEF t
  <1>5. CASE has_partner(m.grid[m.me.cell], m.me.kind)
    <2>1. /\ i \in Scenes /\ i.born = <<>> /\ Balanced(m, i) /\ SameKills(m, i)
          /\ Became(m.me, i.me, m.me.energy, m.me.cell, m.me.count_down, FALSE)
      BY <1>1, InvisibleEffect
    <2> HIDE DEF i
    <2>2. Became(i.me, M, m.me.energy - BreedCost, m.me.cell, BreedPause, FALSE)
      <3> PICK energy \in Int : energy = m.me.energy - BreedCost
        BY <1>2
      <3>1. i.me \in Beings /\ i.me.energy = m.me.energy /\ i.me.cell = m.me.cell
            /\ ~i.me.visible
        BY <2>1 DEF Became
      <3>2. M = [i.me EXCEPT !.count_down = BreedPause, !.energy = energy]
        BY <3>1
      <3> HIDE DEF M
      <3>3. M \in Beings
        BY <1>2, <3>1, <3>2 DEF Beings
      <3>4. /\ M.kind = i.me.kind /\ M.energy = energy /\ M.cell = i.me.cell
            /\ M.count_down = BreedPause /\ M.visible = i.me.visible
        BY <3>1, <3>2 DEF Beings
      <3> QED BY <2>1, <3>1, <3>3, <3>4 DEF Became, Beings
    <2> HIDE DEF M
    <2>3. p \in Scenes /\ p.me = M /\ p.grid = i.grid /\ p.born = <<>>
      <3>1. M \in Beings
        BY <2>2 DEF Became
      <3> QED BY <2>1, <3>1 DEF Scenes
    <2> HIDE DEF p
    <2>4. Balanced(i, p) /\ SameKills(i, p)
      <3>1. /\ p.me.kind = i.me.kind /\ p.me.cell = i.me.cell
            /\ p.me.visible = i.me.visible /\ ~i.me.visible
        BY <2>1, <2>2, <2>3 DEF Became
      <3> QED BY <2>1, <2>3, <3>1, SelfChanges
    <2>5. /\ f \in Scenes /\ f.me = p.me /\ Balanced(p, f) /\ SameKills(p, f)
          /\ \E b : f.born = Append(p.born, b) /\ BabyOf(b, p.me)
      BY <2>3, BirthEffect
    <2> HIDE DEF f
    <2>6. /\ g \in Scenes /\ g.me = f.me /\ Balanced(f, g) /\ SameKills(f, g)
          /\ \E b : g.born = Append(f.born, b) /\ BabyOf(b, f.me)
      BY <2>5, BirthEffect
    <2> HIDE DEF g
    <2>7. g.me.kind = s.me.kind /\ g.me.cell = m.me.cell /\ g.me.kind = m.me.kind
      BY <1>1, <2>1, <2>2, <2>3, <2>5, <2>6 DEF Became
    <2>8. Babies(g.born, g.me)
      <3>1. PICK a : f.born = Append(<<>>, a) /\ BabyOf(a, g.me)
        BY <2>3, <2>5, <2>6
      <3>2. PICK b : g.born = Append(f.born, b) /\ BabyOf(b, g.me)
        BY <2>5, <2>6
      <3>3. a \in Beings /\ b \in Beings /\ Append(<<>>, a) = <<a>>
        BY <3>1, <3>2 DEF BabyOf
      <3>4. /\ Append(<<a>>, b) \in Seq(Beings) /\ Len(Append(<<a>>, b)) = 2
            /\ Append(<<a>>, b)[1] = a /\ Append(<<a>>, b)[2] = b
        BY <3>3
      <3>5. \A n \in 1 .. 2 : n = 1 \/ n = 2
        OBVIOUS
      <3>6. g.born = Append(<<a>>, b)
        BY <3>1, <3>2, <3>3
      <3> QED BY <3>1, <3>2, <3>4, <3>5, <3>6 DEF Babies
    <2>9. Balanced(s, g)
      <3>1. Balanced(s, i)
        BY <1>1, <2>1, BalancedTrans
      <3>2. Balanced(i, f)
        BY <2>4, <2>5, BalancedTrans
      <3>3. Balanced(i, g)
        BY <2>6, <3>2, BalancedTrans
      <3> QED BY <3>1, <3>3, BalancedTrans
    <2>10. SameKills(s, g)
      BY <1>1, <2>1, <2>4, <2>5, <2>6 DEF SameKills
    <2>11. Breeders(s, m.me.cell, m.me.kind) > 0
      <3> DEFINE c == m.me.cell
                 k == m.me.kind
      <3>1. Breeders(m, c, k) = m.grid[c].breed[k] - One(m.me \in Breeding(c, k))
        BY <1>1, <1>2, Unborn
      <3>2. m.grid[c].breed[k] > 1 /\ m.grid[c].breed[k] \in Int
        BY <1>1, <1>2, <1>5, SceneType DEF has_partner
      <3>3. One(m.me \in Breeding(c, k)) \in {0, 1}
        BY DEF One
      <3>4. Breeders(m, c, k) > 0
        BY <3>1, <3>2, <3>3
      <3> QED BY <1>1, <1>2, <3>4 DEF Balanced
    <2>12. t = g
      BY <1>3, <1>5 DEF g, f, p
    <2> QED BY <2>6, <2>7, <2>8, <2>9, <2>10, <2>11, <2>12 DEF t
  <1> QED BY <1>4, <1>5

\* The counters say of the living creature what they said of it.
Settled(s, t) ==
  \A c \in Cells, k \in Kinds :
    /\ (t.grid[c].num[k] - One(t.me \in Seen(c, k) \cap Quick))
         - Tally(t.born, Seen(c, k) \cap Quick) = Num(s, c, k)
    /\ (t.grid[c].breed[k] - One(t.me \in Breeding(c, k) \cap Quick))
         - Tally(t.born, Breeding(c, k) \cap Quick) = Breeders(s, c, k)
    /\ (t.grid[c].resting[k] - One(t.me \in Hidden(c, k) \cap Quick))
         - Tally(t.born, Hidden(c, k) \cap Quick) = Resters(s, c, k)

\* A creature that has died is no longer counted.
LEMMA DeathSettles ==
  ASSUME NEW s \in Scenes, NEW t \in Scenes, ~Alive(s.me), t.me = s.me, t.born = s.born,
         NEW n \in Int, NEW r \in Int, NEW d \in Int,
         n = IF s.me.visible THEN -1 ELSE 0, r = IF s.me.visible THEN 0 ELSE -1,
         Turned(s.grid, t.grid, s.me.cell, s.me.kind, n, 0, r, d)
  PROVE  Settled(s, t)
  <1>1. s.me \in Beings /\ s.me.cell \in Cells /\ s.me.kind \in Kinds /\ s.me.energy \in Int
    BY SceneType
  <1>2. ASSUME NEW c \in Cells, NEW k \in Kinds
        PROVE  /\ t.grid[c].num[k] - One(t.me \in Seen(c, k) \cap Quick)
                    = s.grid[c].num[k] - One(s.me \in Seen(c, k))
               /\ t.grid[c].breed[k] - One(t.me \in Breeding(c, k) \cap Quick)
                    = s.grid[c].breed[k] - One(s.me \in Breeding(c, k))
               /\ t.grid[c].resting[k] - One(t.me \in Hidden(c, k) \cap Quick)
                    = s.grid[c].resting[k] - One(s.me \in Hidden(c, k))
    <2>1. /\ s.grid[c].num[k] \in Int /\ s.grid[c].breed[k] \in Int
          /\ s.grid[c].resting[k] \in Int /\ n \in Int /\ r \in Int
      BY SceneType DEF One
    <2>2. /\ t.grid[c].num[k]
               = s.grid[c].num[k] + (IF c = s.me.cell /\ k = s.me.kind THEN n ELSE 0)
          /\ t.grid[c].breed[k] = s.grid[c].breed[k]
          /\ t.grid[c].resting[k]
               = s.grid[c].resting[k] + (IF c = s.me.cell /\ k = s.me.kind THEN r ELSE 0)
      <3>1. Turned(s.grid, t.grid, s.me.cell, s.me.kind, n, 0, r, d) /\ s.grid \in Grids
        BY SceneType
      <3>2. CASE c = s.me.cell
        <4>1. Shifted(s.grid[c], t.grid[c], s.me.kind, n, 0, r, d)
          BY ONLY <3>1, <3>2 DEF Turned
        <4> QED BY ONLY <2>1, <3>2, <4>1 DEF Shifted
      <3>3. CASE c # s.me.cell
        <4>1. t.grid[c] = s.grid[c]
          BY ONLY <3>1, <3>3 DEF Turned
        <4> QED BY ONLY <2>1, <3>3, <4>1
      <3> QED BY ONLY <3>2, <3>3
    <2>3. ~Fit(s.me.energy)
      BY <1>1, Sim2Assumption DEF Fit, Alive
    <2>4. /\ (s.me \in Seen(c, k) <=> c = s.me.cell /\ k = s.me.kind /\ s.me.visible)
          /\ (s.me \in Hidden(c, k) <=> c = s.me.cell /\ k = s.me.kind /\ ~s.me.visible)
          /\ s.me \notin Breeding(c, k) /\ s.me \notin Quick
      BY <1>1, <2>3 DEF Seen, Hidden, Breeding, Quick
    <2> QED BY <2>1, <2>2, <2>4 DEF One
  <1> QED BY <1>2 DEF Settled, Num, Breeders, Resters

LEMMA BuriedEffect ==
  ASSUME NEW s \in Scenes
  PROVE  LET t == Buried(s)
         IN  t \in Scenes /\ t.me = s.me /\ t.born = s.born /\ Settled(s, t) /\ SameKills(s, t)
  <1> DEFINE t == Buried(s)
             cell == s.me.cell
             kind == s.me.kind
  <1>1. /\ s.me \in Beings /\ s.grid \in Grids /\ cell \in Cells /\ kind \in Kinds
        /\ s.grid[cell] \in Locations /\ s.me.energy \in Int /\ s.me.visible \in BOOLEAN
    BY SceneType
  <1>2. CASE s.me.energy > 0
    <2>1. t = s
      BY <1>2 DEF Buried
    <2>2. s.me \in Quick
      BY <1>1, <1>2 DEF Quick, Alive
    <2>3. \A P : s.me \in P \cap Quick <=> s.me \in P
      BY <2>2
    <2>4. Settled(s, s)
      BY <2>3 DEF Settled, Num, Breeders, Resters, One
    <2> HIDE DEF t
    <2> QED BY <2>1, <2>4 DEF SameKills, t
  <1>3. CASE ~(s.me.energy > 0) /\ s.me.visible
    <2> DEFINE L == [s.grid[cell] EXCEPT !.num[kind] = @ + (-1)]
               G == [s.grid EXCEPT ![cell] = L]
    <2>1. Turned(s.grid, G, cell, kind, -1, 0, 0, 0)
      <3>1. Shifted(s.grid[cell], L, kind, -1, 0, 0, 0)
        BY <1>1, NumShifts
      <3> HIDE DEF L
      <3> QED BY <1>1, <3>1, ShiftTurns
    <2>2. t = [s EXCEPT !.grid = G]
      <3>1. s.grid[cell].num[kind] - 1 = s.grid[cell].num[kind] + (-1)
        BY <1>1, SceneType
      <3>2. t = [s EXCEPT !.grid[cell].num[kind] = s.grid[cell].num[kind] - 1]
        BY <1>3, Zenon DEF Buried
      <3> QED BY <3>1, <3>2, Zenon
    <2> HIDE DEF G, t
    <2>3. t \in Scenes /\ t.grid = G /\ t.me = s.me /\ t.born = s.born
      <3>1. G \in Grids
        BY <2>1 DEF Turned
      <3> QED BY <2>2, <3>1 DEF Scenes
    <2>4. Settled(s, t)
      <3>1. -1 \in Int /\ 0 \in Int
        OBVIOUS
      <3>2. -1 = (IF s.me.visible THEN -1 ELSE 0) /\ 0 = (IF s.me.visible THEN 0 ELSE -1)
        BY <1>3
      <3> QED BY <1>3, <2>1, <2>3, <3>1, <3>2, DeathSettles DEF Alive
    <2>5. SameKills(s, t)
      BY <1>1, <2>1, <2>3, SceneType DEF SameKills, Turned, Shifted
    <2> QED BY <2>3, <2>4, <2>5 DEF t
  <1>4. CASE ~(s.me.energy > 0) /\ ~s.me.visible
    <2> DEFINE L == [s.grid[cell] EXCEPT !.resting[kind] = @ + (-1)]
               G == [s.grid EXCEPT ![cell] = L]
    <2>1. Turned(s.grid, G, cell, kind, 0, 0, -1, 0)
      <3>1. Shifted(s.grid[cell], L, kind, 0, 0, -1, 0)
        BY <1>1, RestingShifts
      <3> HIDE DEF L
      <3> QED BY <1>1, <3>1, ShiftTurns
    <2>2. t = [s EXCEPT !.grid = G]
      <3>1. s.grid[cell].resting[kind] - 1 = s.grid[cell].resting[kind] + (-1)
        BY <1>1, SceneType
      <3>2. t = [s EXCEPT !.grid[cell].resting[kind] = s.grid[cell].resting[kind] - 1]
        BY <1>4, Zenon DEF Buried
      <3> QED BY <3>1, <3>2, Zenon
    <2> HIDE DEF G, t
    <2>3. t \in Scenes /\ t.grid = G /\ t.me = s.me /\ t.born = s.born
      <3>1. G \in Grids
        BY <2>1 DEF Turned
      <3> QED BY <2>2, <3>1 DEF Scenes
    <2>4. Settled(s, t)
      <3>1. -1 \in Int /\ 0 \in Int
        OBVIOUS
      <3>2. 0 = (IF s.me.visible THEN -1 ELSE 0) /\ -1 = (IF s.me.visible THEN 0 ELSE -1)
        BY <1>4
      <3> QED BY <1>4, <2>1, <2>3, <3>1, <3>2, DeathSettles DEF Alive
    <2>5. SameKills(s, t)
      BY <1>1, <2>1, <2>3, SceneType DEF SameKills, Turned, Shifted
    <2> QED BY <2>3, <2>4, <2>5 DEF t
  <1> QED BY <1>1, <1>2, <1>3, <1>4

-----------------------------------------------------------------------------
(* The invariant.                                                          *)

Typed ==
  /\ creatures \in Seq(Beings) /\ newborn \in Seq(Beings) /\ grid \in Grids
  /\ turn \in 0 .. Len(creatures) + 1

\* The counters of the grid count the living.
Counting ==
  \A c \in Cells, k \in Kinds :
    /\ grid[c].num[k] = Tally(Everyone, Seen(c, k) \cap Quick)
    /\ grid[c].breed[k] = Tally(Everyone, Breeding(c, k) \cap Quick)
    /\ grid[c].resting[k] = Tally(Everyone, Hidden(c, k) \cap Quick)

\* Who has not acted yet is alive, and so are the babies, who rest.
Lively ==
  /\ \A i \in 1 .. Len(creatures) : turn <= i => Alive(creatures[i])
  /\ \A i \in 1 .. Len(newborn) : Alive(newborn[i]) /\ ~newborn[i].visible
  /\ turn <= 1 => newborn = <<>>

\* Nobody is there before the first configuration.
Vacant == configs = 0 => creatures = <<>> /\ newborn = <<>>

Consistent == Typed /\ Counting /\ Lively /\ Vacant

LEMMA EveryoneJoint ==
  ASSUME Typed
  PROVE  /\ Everyone = Joint(creatures, newborn) /\ Everyone \in Seq(Beings)
         /\ \A P : /\ Tally(Everyone, P) = Tally(creatures, P) + Tally(newborn, P)
                   /\ Tally(creatures, P) \in Nat /\ Tally(newborn, P) \in Nat
         /\ Len(Everyone) = Len(creatures) + Len(newborn)
         /\ \A i \in 1 .. Len(creatures) : Everyone[i] = creatures[i]
         /\ \A i \in Len(creatures) + 1 .. Len(creatures) + Len(newborn) :
              Everyone[i] = newborn[i - Len(creatures)]
  <1>1. Everyone = Joint(creatures, newborn)
    BY DEF Everyone, Joint
  <1>2. creatures \in Seq(Beings) /\ newborn \in Seq(Beings)
    BY DEF Typed
  <1>3. ASSUME NEW P
        PROVE  /\ Tally(Everyone, P) = Tally(creatures, P) + Tally(newborn, P)
               /\ Tally(creatures, P) \in Nat /\ Tally(newborn, P) \in Nat
    BY <1>1, <1>2, TallyJoint, Tallied
  <1> QED BY <1>1, <1>2, <1>3, Concatenated

\* What the counters say beside the creature whose turn it is.
Opens(s) ==
  \A c \in Cells, k \in Kinds :
    /\ Num(s, c, k) = grid[c].num[k] - One(creatures[turn] \in Seen(c, k) \cap Quick)
    /\ Breeders(s, c, k)
         = grid[c].breed[k] - One(creatures[turn] \in Breeding(c, k) \cap Quick)
    /\ Resters(s, c, k)
         = grid[c].resting[k] - One(creatures[turn] \in Hidden(c, k) \cap Quick)

LEMMA TurnOpens ==
  ASSUME Typed, Lively, InTurn
  PROVE  /\ Acting \in Scenes /\ Acting.grid = grid /\ Acting.born = <<>>
         /\ Acting.me.kind = creatures[turn].kind /\ Acting.me.cell = creatures[turn].cell
         /\ Acting.me.energy = creatures[turn].energy
         /\ Acting.me.visible = creatures[turn].visible
         /\ creatures[turn] \in Beings /\ Alive(creatures[turn]) /\ Opens(Acting)
  <1> DEFINE old == creatures[turn]
             me == Acting.me
  <1>1. /\ turn \in 1 .. Len(creatures) /\ creatures \in Seq(Beings) /\ old \in Beings
        /\ Alive(old)
    <2>1. turn \in 1 .. Len(creatures) /\ creatures \in Seq(Beings) /\ turn <= turn
      BY DEF InTurn, Typed
    <2> QED BY <2>1 DEF Lively
  <1>2. /\ Acting.grid = grid /\ Acting.born = <<>>
        /\ me = [old EXCEPT !.count_down = IF @ > 0 THEN @ - 1 ELSE 0]
    BY DEF Acting
  <1>3. /\ me \in Beings /\ me.kind = old.kind /\ me.cell = old.cell
        /\ me.energy = old.energy /\ me.visible = old.visible
    <2>1. old.count_down \in Int
      BY <1>1 DEF Beings
    <2> PICK n \in Int : n = IF old.count_down > 0 THEN old.count_down - 1 ELSE 0
      BY <2>1
    <2>2. me = [old EXCEPT !.count_down = n]
      BY <1>2
    <2> HIDE DEF me, old
    <2> QED BY <1>1, <2>2 DEF Beings
  <1>4. Acting \in Scenes
    <2>1. Acting = [me |-> me, grid |-> grid, born |-> <<>>]
      BY DEF Acting
    <2>2. <<>> \in Seq(Beings) /\ grid \in Grids
      BY DEF Typed
    <2> HIDE DEF me
    <2> QED BY <1>3, <2>1, <2>2 DEF Scenes
  <1>5. Opens(Acting)
    <2>1. ASSUME NEW c \in Cells, NEW k \in Kinds
          PROVE  /\ One(me \in Seen(c, k)) = One(old \in Seen(c, k) \cap Quick)
                 /\ One(me \in Breeding(c, k)) = One(old \in Breeding(c, k) \cap Quick)
                 /\ One(me \in Hidden(c, k)) = One(old \in Hidden(c, k) \cap Quick)
      <3> HIDE DEF me, old
      <3>1. /\ (me \in Seen(c, k) <=> old \in Seen(c, k) \cap Quick)
            /\ (me \in Breeding(c, k) <=> old \in Breeding(c, k) \cap Quick)
            /\ (me \in Hidden(c, k) <=> old \in Hidden(c, k) \cap Quick)
        BY <1>1, <1>3 DEF Seen, Breeding, Hidden, Quick
      <3> QED BY <3>1 DEF One
    <2> HIDE DEF old
    <2>2. ASSUME NEW c \in Cells, NEW k \in Kinds
          PROVE  /\ Num(Acting, c, k) = grid[c].num[k] - One(me \in Seen(c, k))
                 /\ Breeders(Acting, c, k) = grid[c].breed[k] - One(me \in Breeding(c, k))
                 /\ Resters(Acting, c, k) = grid[c].resting[k] - One(me \in Hidden(c, k))
      BY <1>2, <1>4, Unborn
    <2> QED BY <2>1, <2>2 DEF Opens, old
  <1> QED BY <1>1, <1>2, <1>3, <1>4, <1>5

\* The creature is visible again before it acts.
LEMMA WokenEffect ==
  ASSUME Typed, Lively, InTurn
  PROVE  /\ Woken \in Scenes /\ Woken.born = <<>> /\ Woken.me.visible
         /\ Woken.me.kind = creatures[turn].kind
         /\ Balanced(Acting, Woken) /\ SameKills(Acting, Woken)
  <1>1. /\ Acting \in Scenes /\ Acting.born = <<>>
        /\ Acting.me.kind = creatures[turn].kind
    BY TurnOpens
  <1>2. CASE Acting.me.visible
    <2>1. Woken = Acting
      BY <1>2 DEF Woken
    <2> QED BY <1>1, <1>2, <2>1 DEF Balanced, SameKills
  <1>3. CASE ~Acting.me.visible
    <2>1. Woken = set_visible(Acting)
      BY <1>3 DEF Woken
    <2>2. /\ Woken \in Scenes /\ Woken.born = Acting.born
          /\ Became(Acting.me, Woken.me, Acting.me.energy, Acting.me.cell,
                    Acting.me.count_down, TRUE)
          /\ Balanced(Acting, Woken) /\ SameKills(Acting, Woken)
      BY <1>1, <1>3, <2>1, VisibleEffect
    <2> QED BY <1>1, <2>2 DEF Became
  <1> QED BY <1>2, <1>3

-----------------------------------------------------------------------------
(* A turn.                                                                 *)

\* The kills are those there were, one less where a prey has paid for it, or
\* one more where a predator met a visible prey.
Pays(t) ==
  \/ ~IsEaten /\ SameKills(Acting, t)
  \/ /\ IsEaten
     /\ \A c \in Cells : t.grid[c].kill
                           = grid[c].kill - (IF c = creatures[turn].cell THEN 1 ELSE 0)
  \/ /\ creatures[turn].kind = "predator" /\ ~IsEaten
     /\ KillNoted(Acting, t) /\ Num(Acting, t.me.cell, "prey") > 0

Outcome(t) ==
  /\ t \in Scenes /\ Settled(Acting, t) /\ t.me.kind = creatures[turn].kind
  /\ Babies(t.born, t.me)
  /\ t.born # <<>> => Breeders(Acting, t.me.cell, t.me.kind) > 0
  /\ Pays(t)

\* What a creature has done, it is buried for if it has died of it.
LEMMA BuriedOutcome ==
  ASSUME Typed, Lively, Ready, NEW u \in Scenes, Balanced(Woken, u),
         u.me.kind = Woken.me.kind, Babies(u.born, u.me),
         u.born # <<>> => Breeders(Woken, u.me.cell, u.me.kind) > 0,
         \/ SameKills(Woken, u)
         \/ /\ KillNoted(Woken, u) /\ Woken.me.kind = "predator"
            /\ Num(Woken, u.me.cell, "prey") > 0
  PROVE  Outcome(Buried(u))
  <1> DEFINE t == Buried(u)
  <1>1. InTurn /\ ~IsEaten
    BY DEF Ready
  <1>2. /\ Woken \in Scenes /\ Woken.me.kind = creatures[turn].kind
        /\ Balanced(Acting, Woken) /\ SameKills(Acting, Woken)
    BY <1>1, WokenEffect
  <1>3. t \in Scenes /\ t.me = u.me /\ t.born = u.born /\ Settled(u, t) /\ SameKills(u, t)
    BY BuriedEffect
  <1> HIDE DEF t
  <1>4. Balanced(Acting, u)
    BY <1>2, BalancedTrans
  <1>5. Settled(Acting, t)
    BY <1>3, <1>4 DEF Settled, Balanced
  <1>6. u.me.cell \in Cells /\ u.me.kind \in Kinds /\ "prey" \in Kinds
    BY SceneType DEF Kinds
  <1>7. t.born # <<>> => Breeders(Acting, t.me.cell, t.me.kind) > 0
    BY <1>2, <1>3, <1>6 DEF Balanced
  <1>8. Pays(t)
    <2>1. CASE SameKills(Woken, u)
      BY <1>1, <1>2, <1>3, <2>1 DEF Pays, SameKills
    <2>2. CASE /\ KillNoted(Woken, u) /\ Woken.me.kind = "predator"
               /\ Num(Woken, u.me.cell, "prey") > 0
      <3>1. KillNoted(Acting, t)
        BY <1>2, <1>3, <2>2 DEF KillNoted, SameKills
      <3>2. Num(Acting, t.me.cell, "prey") > 0
        BY <1>2, <1>3, <1>6, <2>2 DEF Balanced
      <3> QED BY <1>1, <1>2, <2>2, <3>1, <3>2 DEF Pays
    <2> QED BY <2>1, <2>2
  <1> QED BY <1>2, <1>3, <1>5, <1>7, <1>8 DEF Outcome, t

LEMMA EatenOutcome ==
  ASSUME Typed, Lively, Eaten
  PROVE  \E t : Outcome(t) /\ EndTurn(t)
  <1> DEFINE dead == change_energy(Acting, -Acting.me.energy)
             cell == dead.me.cell
             L == remove_killed_prey(dead.grid[cell])
             G == [dead.grid EXCEPT ![cell] = L]
             t == [dead EXCEPT !.grid = G]
             K == [dead.grid[cell] EXCEPT !.num["prey"] = @ + (-1)]
  <1>1. /\ Acting \in Scenes /\ Acting.born = <<>> /\ Acting.grid = grid
        /\ Acting.me.kind = "prey" /\ Acting.me.visible
        /\ Acting.me.cell = creatures[turn].cell /\ creatures[turn].kind = "prey"
        /\ IsEaten
    <2>1. InTurn /\ IsEaten
      BY DEF Eaten
    <2>2. creatures[turn].kind = "prey" /\ creatures[turn].visible
      BY <2>1 DEF IsEaten
    <2> QED BY <2>1, <2>2, TurnOpens
  <1>2. EndTurn(t)
    BY Zenon DEF Eaten
  <1>3. /\ dead \in Scenes /\ dead.born = <<>> /\ Balanced(Acting, dead)
        /\ SameKills(Acting, dead)
        /\ Became(Acting.me, dead.me, 0, Acting.me.cell, Acting.me.count_down, TRUE)
    <2> PICK delta \in Int : delta = -Acting.me.energy
      BY <1>1, SceneType
    <2>1. dead = change_energy(Acting, delta)
      OBVIOUS
    <2> HIDE DEF dead
    <2>2. /\ dead \in Scenes /\ dead.born = Acting.born /\ Balanced(Acting, dead)
          /\ SameKills(Acting, dead)
          /\ Became(Acting.me, dead.me, Acting.me.energy + delta, Acting.me.cell,
                    Acting.me.count_down, TRUE)
      BY <1>1, <2>1, EnergyEffect
    <2>3. Acting.me.energy + delta = 0
      BY <1>1, SceneType
    <2> QED BY <1>1, <2>2, <2>3
  <1> HIDE DEF dead
  <1>4. /\ cell \in Cells /\ dead.me.kind = "prey" /\ "prey" \in Kinds /\ ~Alive(dead.me)
        /\ dead.me.visible /\ cell = creatures[turn].cell /\ dead.grid \in Grids
        /\ dead.grid[cell] \in Locations
    BY <1>1, <1>3, SceneType DEF Became, Alive, Kinds
  <1>5. Turned(dead.grid, G, cell, "prey", -1, 0, 0, -1)
    <2>1. Shifted(dead.grid[cell], K, "prey", -1, 0, 0, 0)
      BY <1>4, NumShifts
    <2>2. K \in Locations
      BY <2>1 DEF Shifted
    <2> DEFINE J == [K EXCEPT !.kill = @ + (-1)]
    <2>3. Shifted(K, J, "prey", 0, 0, 0, -1)
      <3> HIDE DEF K
      <3> QED BY <1>4, <2>2, KillShifts
    <2>4. L = J
      <3>1. dead.grid[cell].num["prey"] \in Int /\ dead.grid[cell].kill \in Int
        BY <1>3, <1>4, SceneType
      <3>2. /\ dead.grid[cell].num["prey"] + (-1) = dead.grid[cell].num["prey"] - 1
            /\ dead.grid[cell].kill + (-1) = dead.grid[cell].kill - 1
        BY <3>1
      <3>3. K = [dead.grid[cell] EXCEPT !.num["prey"] = dead.grid[cell].num["prey"] - 1]
        BY <3>2, Zenon
      <3>4. K.kill = dead.grid[cell].kill
        BY <1>4 DEF Locations
      <3>5. J = [K EXCEPT !.kill = dead.grid[cell].kill - 1]
        <4> HIDE DEF K
        <4> QED BY <3>2, <3>4, Zenon
      <3>6. L = [[dead.grid[cell] EXCEPT !.num["prey"] = dead.grid[cell].num["prey"] - 1]
                   EXCEPT !.kill = dead.grid[cell].kill - 1]
        BY <1>4 DEF remove_killed_prey, Locations
      <3> HIDE DEF L, J, K
      <3> QED BY <3>3, <3>5, <3>6, Zenon
    <2>5. Shifted(dead.grid[cell], L, "prey", -1, 0, 0, -1)
      <3> HIDE DEF J, K, L
      <3> QED BY <1>4, <2>1, <2>3, <2>4, ShiftedTwice
    <2> HIDE DEF L
    <2> QED BY <1>4, <2>5, ShiftTurns
  <1> HIDE DEF G
  <1>6. t \in Scenes /\ t.grid = G /\ t.me = dead.me /\ t.born = <<>>
    <2>1. G \in Grids
      BY <1>5 DEF Turned
    <2> QED BY <1>3, <2>1 DEF Scenes
  <1> HIDE DEF t
  <1>7. Settled(dead, t)
    <2>1. -1 = (IF dead.me.visible THEN -1 ELSE 0) /\ 0 = (IF dead.me.visible THEN 0 ELSE -1)
          /\ -1 \in Int /\ 0 \in Int
      BY <1>4
    <2> QED BY <1>3, <1>4, <1>5, <1>6, <2>1, DeathSettles
  <1>8. Settled(Acting, t)
    BY <1>3, <1>7 DEF Settled, Balanced
  <1>9. Pays(t)
    <2>1. ASSUME NEW c \in Cells
          PROVE  t.grid[c].kill = grid[c].kill - (IF c = creatures[turn].cell THEN 1 ELSE 0)
      <3>1. dead.grid[c].kill \in Int /\ dead.grid[c].kill = grid[c].kill
        BY <1>1, <1>3, SceneType DEF SameKills
      <3>2. G[c].kill = dead.grid[c].kill + (IF c = cell THEN -1 ELSE 0)
        BY <1>4, <1>5, TurnedAt
      <3> QED BY <1>4, <1>6, <3>1, <3>2
    <2> QED BY <1>1, <2>1 DEF Pays
  <1>10. Outcome(t)
    BY <1>1, <1>4, <1>6, <1>8, <1>9, NoBabies DEF Outcome
  <1> QED BY <1>2, <1>10

LEMMA ActOutcome ==
  ASSUME BabiesLive, Typed, Lively, Act
  PROVE  \E t : Outcome(t) /\ EndTurn(t)
  <1>0. InTurn
    BY DEF Act, Eaten, Wait, Ready, Idle, Move, Rest, Hunt, Breed
  <1>1. /\ Acting \in Scenes /\ Acting.born = <<>> /\ Acting.me.kind = creatures[turn].kind
        /\ Alive(Acting.me)
    BY <1>0, TurnOpens DEF Alive
  <1>2. /\ Woken \in Scenes /\ Woken.born = <<>> /\ Woken.me.visible
        /\ Woken.me.kind = creatures[turn].kind
    BY <1>0, WokenEffect
  <1> DEFINE Same(u) == /\ u \in Scenes /\ Balanced(Woken, u) /\ u.born = <<>>
                        /\ u.me.kind = Woken.me.kind /\ SameKills(Woken, u)
  <1>3. ASSUME Ready, NEW u, Same(u)
        PROVE  Outcome(Buried(u))
    <2>1. Babies(u.born, u.me)
      BY <1>3, NoBabies
    <2> QED BY <1>3, <2>1, BuriedOutcome
  <1>4. CASE Eaten
    BY <1>4, EatenOutcome
  <1>5. CASE Wait
    <2>1. Settled(Acting, Acting)
      <3>1. Acting.me \in Quick
        BY <1>1, SceneType DEF Quick
      <3>2. ASSUME NEW c \in Cells, NEW k \in Kinds
            PROVE  /\ (Acting.me \in Seen(c, k) \cap Quick) = (Acting.me \in Seen(c, k))
                   /\ (Acting.me \in Breeding(c, k) \cap Quick)
                        = (Acting.me \in Breeding(c, k))
                   /\ (Acting.me \in Hidden(c, k) \cap Quick) = (Acting.me \in Hidden(c, k))
        BY <3>1
      <3> QED BY <3>2 DEF Settled, Num, Breeders, Resters
    <2>2. Babies(Acting.born, Acting.me)
      BY <1>1, NoBabies
    <2>3. Pays(Acting)
      BY <1>5 DEF Wait, Pays, SameKills
    <2> QED BY <1>1, <1>5, <2>1, <2>2, <2>3 DEF Outcome, Wait
  <1>6. CASE Idle
    <2>1. Same(Woken)
      BY <1>2 DEF Balanced, SameKills
    <2> HIDE DEF Same
    <2> QED BY <1>3, <1>6, <2>1 DEF Idle
  <1>7. CASE Move
    <2>1. PICK d \in Directions : EndTurn(Buried(movee(Woken, d)))
      BY <1>7 DEF Move
    <2>2. Same(movee(Woken, d))
      BY <1>2, MoveEffect DEF Became
    <2> HIDE DEF Same
    <2> QED BY <1>3, <1>7, <2>1, <2>2 DEF Move
  <1>8. CASE Rest
    <2>1. PICK count \in Rests : EndTurn(Buried(rest(Woken, count)))
      BY <1>8 DEF Rest
    <2>2. count \in Int
      BY Sim2Assumption
    <2>3. Same(rest(Woken, count))
      BY <1>2, <2>2, RestEffect DEF Became
    <2> HIDE DEF Same
    <2> QED BY <1>3, <1>8, <2>1, <2>3 DEF Rest
  <1>9. CASE Hunt
    <2>1. PICK d \in Directions, roll \in 0 .. RollRange - 1 :
            EndTurn(Buried(hunt(Woken, d, roll)))
      BY <1>9 DEF Hunt
    <2> DEFINE u == hunt(Woken, d, roll)
    <2>2. /\ u \in Scenes /\ u.born = <<>> /\ u.me.kind = Woken.me.kind
          /\ Balanced(Woken, u)
          /\ \/ SameKills(Woken, u)
             \/ /\ KillNoted(Woken, u) /\ Woken.me.kind = "predator"
                /\ Num(Woken, u.me.cell, "prey") > 0
      <3>1. roll \in Int
        OBVIOUS
      <3> QED BY <1>2, <3>1, HuntEffect
    <2> HIDE DEF u
    <2>3. Babies(u.born, u.me)
      BY <2>2, NoBabies
    <2>4. Ready
      BY <1>9 DEF Hunt
    <2>5. Outcome(Buried(u))
      BY <2>2, <2>3, <2>4, BuriedOutcome
    <2> QED BY <2>1, <2>5 DEF u
  <1>10. CASE Breed
    <2>1. PICK d \in Directions : EndTurn(Buried(breed(Woken, d)))
      BY <1>10 DEF Breed
    <2> DEFINE u == breed(Woken, d)
    <2>2. /\ u \in Scenes /\ u.me.kind = Woken.me.kind /\ Babies(u.born, u.me)
          /\ Balanced(Woken, u) /\ SameKills(Woken, u)
          /\ u.born # <<>> => Breeders(Woken, u.me.cell, u.me.kind) > 0
      BY <1>2, BreedEffect
    <2> HIDE DEF u
    <2>3. Ready
      BY <1>10 DEF Breed
    <2>4. Outcome(Buried(u))
      BY <2>2, <2>3, BuriedOutcome
    <2> QED BY <2>1, <2>4 DEF u
  <1> QED BY <1>4, <1>5, <1>6, <1>7, <1>8, <1>9, <1>10 DEF Act

\* The creature that acted and its babies take their places.
LEMMA TurnKeeps ==
  ASSUME Consistent, InTurn, NEW t, Outcome(t), EndTurn(t)
  PROVE  /\ Consistent'
         /\ Len(creatures') = Len(creatures) /\ Len(newborn') = Len(newborn) + Len(t.born)
         /\ \A i \in 1 .. Len(creatures) :
              creatures'[i] = IF i = turn THEN t.me ELSE creatures[i]
         /\ \A i \in 1 .. Len(newborn) : newborn'[i] = newborn[i]
         /\ \A i \in Len(newborn) + 1 .. Len(newborn) + Len(t.born) :
              newborn'[i] = t.born[i - Len(newborn)]
  <1>1. /\ Typed /\ Lively /\ Vacant /\ t \in Scenes /\ turn \in 1 .. Len(creatures)
        /\ creatures \in Seq(Beings) /\ newborn \in Seq(Beings)
        /\ t.me \in Beings /\ t.grid \in Grids /\ t.born \in Seq(Beings)
    BY SceneType DEF Consistent, Outcome, InTurn, Typed
  <1>2. /\ creatures' = [creatures EXCEPT ![turn] = t.me]
        /\ newborn' = Joint(newborn, t.born)
        /\ grid' = t.grid /\ turn' = turn + 1 /\ configs' = configs
    BY DEF EndTurn, Joint
  <1>3. /\ creatures' \in Seq(Beings) /\ Len(creatures') = Len(creatures)
        /\ \A i \in 1 .. Len(creatures) :
              creatures'[i] = IF i = turn THEN t.me ELSE creatures[i]
    BY <1>1, <1>2
  <1>4. /\ newborn' \in Seq(Beings) /\ Len(newborn') = Len(newborn) + Len(t.born)
        /\ \A i \in 1 .. Len(newborn) : newborn'[i] = newborn[i]
        /\ \A i \in Len(newborn) + 1 .. Len(newborn) + Len(t.born) :
              newborn'[i] = t.born[i - Len(newborn)]
    BY <1>1, <1>2, Concatenated
  <1>5. Typed'
    BY <1>1, <1>2, <1>3, <1>4 DEF Typed
  <1>6. ASSUME NEW P
        PROVE  /\ Tally(Everyone', P) = Tally(Everyone, P) - One(creatures[turn] \in P)
                                         + One(t.me \in P) + Tally(t.born, P)
               /\ Tally(Everyone, P) \in Nat /\ Tally(t.born, P) \in Nat
    <2>1. /\ Tally(Everyone, P) = Tally(creatures, P) + Tally(newborn, P)
          /\ Tally(creatures, P) \in Nat /\ Tally(newborn, P) \in Nat
      BY <1>1, EveryoneJoint
    <2>2. Tally(Everyone', P) = Tally(creatures', P) + Tally(newborn', P)
      <3>1. Everyone' = Joint(creatures', newborn')
        BY DEF Everyone, Joint
      <3> QED BY <1>3, <1>4, <3>1, TallyJoint
    <2>3. Tally(creatures', P) = Tally(creatures, P) - One(creatures[turn] \in P)
                                  + One(t.me \in P)
      <3>1. Tally([creatures EXCEPT ![turn] = t.me], P)
              = Tally(creatures, P) - OneIf(creatures[turn] \in P) + OneIf(t.me \in P)
        BY <1>1, TallyExcept
      <3> QED BY <1>2, <3>1 DEF One, OneIf
    <2>4. Tally(newborn', P) = Tally(newborn, P) + Tally(t.born, P)
      BY <1>1, <1>2, TallyJoint
    <2>5. Tally(t.born, P) \in Nat
      BY <1>1, Tallied
    <2>6. One(creatures[turn] \in P) \in Int /\ One(t.me \in P) \in Int
      BY DEF One
    <2> QED BY <2>1, <2>2, <2>3, <2>4, <2>5, <2>6
  <1>7. Counting'
    <2>1. ASSUME NEW c \in Cells, NEW k \in Kinds
          PROVE  /\ t.grid[c].num[k] = Tally(Everyone', Seen(c, k) \cap Quick)
                 /\ t.grid[c].breed[k] = Tally(Everyone', Breeding(c, k) \cap Quick)
                 /\ t.grid[c].resting[k] = Tally(Everyone', Hidden(c, k) \cap Quick)
      <3> DEFINE S == Seen(c, k) \cap Quick
                 B == Breeding(c, k) \cap Quick
                 H == Hidden(c, k) \cap Quick
      <3>1. /\ grid[c].num[k] = Tally(Everyone, S)
            /\ grid[c].breed[k] = Tally(Everyone, B)
            /\ grid[c].resting[k] = Tally(Everyone, H)
        BY DEF Consistent, Counting
      <3>2. /\ Num(Acting, c, k) = grid[c].num[k] - One(creatures[turn] \in S)
            /\ Breeders(Acting, c, k) = grid[c].breed[k] - One(creatures[turn] \in B)
            /\ Resters(Acting, c, k) = grid[c].resting[k] - One(creatures[turn] \in H)
        <4>1. Opens(Acting)
          BY <1>1, TurnOpens
        <4> QED BY <4>1 DEF Opens
      <3>3. /\ (t.grid[c].num[k] - One(t.me \in S)) - Tally(t.born, S) = Num(Acting, c, k)
            /\ (t.grid[c].breed[k] - One(t.me \in B)) - Tally(t.born, B)
                 = Breeders(Acting, c, k)
            /\ (t.grid[c].resting[k] - One(t.me \in H)) - Tally(t.born, H)
                 = Resters(Acting, c, k)
        BY DEF Outcome, Settled
      <3>4. /\ t.grid[c].num[k] \in Int /\ t.grid[c].breed[k] \in Int
            /\ t.grid[c].resting[k] \in Int
        BY <1>1, SceneType
      <3> HIDE DEF S, B, H
      <3>5. \A b : One(b) \in Int
        BY DEF One
      <3>6. t.grid[c].num[k] = Tally(Everyone', S)
        BY <1>6, <3>1, <3>2, <3>3, <3>4, <3>5
      <3>7. t.grid[c].breed[k] = Tally(Everyone', B)
        BY <1>6, <3>1, <3>2, <3>3, <3>4, <3>5
      <3>8. t.grid[c].resting[k] = Tally(Everyone', H)
        BY <1>6, <3>1, <3>2, <3>3, <3>4, <3>5
      <3> QED BY <3>6, <3>7, <3>8 DEF S, B, H
    <2> QED BY <1>2, <2>1 DEF Counting
  <1>8. Lively'
    <2>1. ASSUME NEW i \in 1 .. Len(creatures'), turn' <= i
          PROVE  Alive(creatures'[i])
      <3>1. i \in 1 .. Len(creatures) /\ turn <= i /\ i # turn
        BY <1>1, <1>2, <1>3, <2>1
      <3> QED BY <1>1, <1>3, <3>1 DEF Lively
    <2>2. ASSUME NEW i \in 1 .. Len(newborn')
          PROVE  Alive(newborn'[i]) /\ ~newborn'[i].visible
      <3>1. CASE i <= Len(newborn)
        BY <1>1, <1>4, <3>1 DEF Lively
      <3>2. CASE i > Len(newborn)
        <4>1. /\ i - Len(newborn) \in 1 .. Len(t.born)
              /\ newborn'[i] = t.born[i - Len(newborn)]
          BY <1>1, <1>4, <2>2, <3>2
        <4>2. BabyOf(t.born[i - Len(newborn)], t.me)
          BY <4>1 DEF Outcome, Babies
        <4> QED BY <4>1, <4>2 DEF BabyOf
      <3> QED BY <1>1, <1>4, <3>1, <3>2
    <2>3. turn' > 1
      BY <1>1, <1>2
    <2>4. turn' \in Int
      BY <1>1, <1>2
    <2> QED BY <2>1, <2>2, <2>3, <2>4 DEF Lively
  <1>9. Vacant'
    <2>1. configs # 0
      BY <1>1 DEF Vacant
    <2> QED BY <1>2, <2>1 DEF Vacant
  <1> QED BY <1>3, <1>4, <1>5, <1>7, <1>8, <1>9 DEF Consistent

-----------------------------------------------------------------------------
(* Between the turns.                                                      *)

\* The dead leave, who counted nowhere, and the babies join.
LEMMA IterationKeeps ==
  ASSUME Consistent, EndIteration
  PROVE  Consistent'
  <1> DEFINE I == {i \in DOMAIN creatures : Alive(creatures[i])}
             K == Kept(creatures, I)
  <1>1. /\ Typed /\ Lively /\ Vacant /\ Counting
        /\ creatures \in Seq(Beings) /\ newborn \in Seq(Beings) /\ grid \in Grids
    BY DEF Consistent, Typed
  <1>2. /\ creatures' = Joint(K, newborn) /\ newborn' = <<>> /\ turn' = 0 /\ grid' = grid
        /\ configs' = configs
    BY DEF EndIteration, Joint
  <1> HIDE DEF I
  <1>3. K \in Seq(Beings)
    BY <1>1, KeptSeq
  <1>4. /\ creatures' \in Seq(Beings) /\ Len(creatures') = Len(K) + Len(newborn)
        /\ \A i \in 1 .. Len(K) : creatures'[i] = K[i]
        /\ \A i \in Len(K) + 1 .. Len(K) + Len(newborn) :
              creatures'[i] = newborn[i - Len(K)]
    <2> HIDE DEF K
    <2> QED BY <1>1, <1>2, <1>3, Concatenated
  <1>5. \A j \in 1 .. Len(K) : Alive(K[j])
    <2> TAKE j \in 1 .. Len(K)
    <2>1. PICK i \in 1 .. Len(creatures) : i \in I /\ K[j] = creatures[i]
      BY <1>1, KeptElements
    <2> QED BY <2>1 DEF I
  <1>6. ASSUME NEW P
        PROVE  Tally(Everyone', P \cap Quick) = Tally(Everyone, P \cap Quick)
    <2> DEFINE Q == P \cap Quick
    <2>1. \A i \in 1 .. Len(creatures) : creatures[i] \in Q => i \in I
      BY <1>1 DEF Quick, I
    <2> HIDE DEF Q
    <2>2. Tally(K, Q) = Tally(creatures, Q)
      BY <1>1, <2>1, TallyKept
    <2>3. Tally(creatures', Q) = Tally(K, Q) + Tally(newborn, Q)
      <3> HIDE DEF K
      <3> QED BY <1>1, <1>2, <1>3, TallyJoint
    <2>4. Everyone' = Joint(creatures', newborn') /\ newborn' \in Seq(Beings)
          /\ Tally(newborn', Q) = 0
      BY <1>2, TallyEmpty DEF Everyone, Joint
    <2>5. Tally(Everyone', Q) = Tally(creatures', Q) + Tally(newborn', Q)
      <3>1. Tally(Joint(creatures', newborn'), Q)
              = Tally(creatures', Q) + Tally(newborn', Q)
        BY <1>4, <2>4, TallyJoint
      <3> QED BY <2>4, <3>1
    <2>6. /\ Tally(Everyone, Q) = Tally(creatures, Q) + Tally(newborn, Q)
          /\ Tally(creatures, Q) \in Nat /\ Tally(newborn, Q) \in Nat
      BY <1>1, EveryoneJoint
    <2>7. Tally(Everyone', Q) = Tally(Everyone, Q)
      BY <2>2, <2>3, <2>4, <2>5, <2>6
    <2> QED BY <2>7 DEF Q
  <1> HIDE DEF K
  <1>7. Typed'
    BY <1>1, <1>2, <1>4 DEF Typed
  <1>8. Counting'
    BY <1>1, <1>2, <1>6 DEF Counting
  <1>9. Lively'
    <2>1. ASSUME NEW i \in 1 .. Len(creatures')
          PROVE  Alive(creatures'[i])
      <3>1. CASE i \in 1 .. Len(K)
        BY <1>4, <1>5, <3>1
      <3>2. CASE i \notin 1 .. Len(K)
        <4>1. i - Len(K) \in 1 .. Len(newborn) /\ creatures'[i] = newborn[i - Len(K)]
          BY <1>1, <1>3, <1>4, <3>2
        <4> QED BY <1>1, <4>1 DEF Lively
      <3> QED BY <3>1, <3>2
    <2>2. Len(newborn') = 0
      BY <1>2
    <2> QED BY <1>2, <2>1, <2>2 DEF Lively
  <1>10. Vacant'
    <2>1. ASSUME configs = 0 PROVE creatures' = <<>>
      <3>1. creatures = <<>> /\ newborn = <<>>
        BY <1>1, <2>1 DEF Vacant
      <3>2. K = <<>>
        BY <3>1, KeptEmpty DEF K
      <3> QED BY <1>2, <3>1, <3>2 DEF Joint
    <2> QED BY <1>2, <2>1 DEF Vacant
  <1> QED BY <1>7, <1>8, <1>9, <1>10 DEF Consistent

\* The creatures of a configuration.
Fresh == {r \in Beings : r.energy = InitEnergy /\ r.visible}

LEMMA PlacedFresh ==
  ASSUME NEW n \in Nat, NEW places \in [1 .. n -> Cells], NEW kind \in Kinds
  PROVE  /\ Placed(places, kind) \in Seq(Fresh) /\ Len(Placed(places, kind)) = n
         /\ \A i \in 1 .. n : Placed(places, kind)[i].kind = kind
  <1>1. \A i \in 1 .. n : Creature(kind, places[i]) \in Fresh
    BY Sim2Assumption DEF Creature, Fresh, Beings
  <1>2. Placed(places, kind) = [i \in 1 .. n |-> Creature(kind, places[i])]
    BY DEF Placed
  <1>3. \A i \in 1 .. n : Creature(kind, places[i]).kind = kind
    BY DEF Creature
  <1> QED BY <1>1, <1>2, <1>3

LEMMA ConfigPlaces ==
  ASSUME Config
  PROVE  /\ creatures' \in Seq(Fresh) /\ creatures' \in Seq(Beings)
         /\ (PredNums \subseteq {0, 1} =>
               \A i \in 1 .. Len(creatures') : creatures'[i].kind = "predator" => i = 1)
  <1>1. PICK n \in PredNums, m \in PreyNums :
          \E preds \in [1 .. n -> Cells], preys \in [1 .. m -> Cells] :
             creatures' = Placed(preds, "predator") \o Placed(preys, "prey")
    BY DEF Config
  <1>2. PICK preds \in [1 .. n -> Cells], preys \in [1 .. m -> Cells] :
          creatures' = Placed(preds, "predator") \o Placed(preys, "prey")
    BY <1>1
  <1> DEFINE a == Placed(preds, "predator")
             b == Placed(preys, "prey")
  <1>3. n \in Nat /\ m \in Nat /\ "predator" \in Kinds /\ "prey" \in Kinds
    BY Sim2Assumption DEF Kinds
  <1>4. /\ a \in Seq(Fresh) /\ Len(a) = n /\ b \in Seq(Fresh) /\ Len(b) = m
        /\ \A i \in 1 .. m : b[i].kind = "prey"
    BY <1>3, PlacedFresh
  <1>5. creatures' = Joint(a, b)
    BY <1>2 DEF Joint
  <1> HIDE DEF a, b
  <1>6. /\ creatures' \in Seq(Fresh) /\ Len(creatures') = n + m
        /\ \A i \in n + 1 .. n + m : creatures'[i] = b[i - n]
    BY <1>4, <1>5, Concatenated
  <1>7. creatures' \in Seq(Beings)
    <2>1. Fresh \subseteq Beings
      BY DEF Fresh
    <2> QED BY <1>6, <2>1
  <1>8. ASSUME PredNums \subseteq {0, 1}, NEW i \in 1 .. Len(creatures'),
               creatures'[i].kind = "predator"
        PROVE  i = 1
    <2>1. CASE i \in n + 1 .. n + m
      <3>1. i - n \in 1 .. m /\ creatures'[i] = b[i - n]
        BY <1>3, <1>6, <2>1
      <3> QED BY <1>4, <1>8, <3>1
    <2>2. CASE i \notin n + 1 .. n + m
      <3>1. n \in {0, 1}
        BY <1>8
      <3> QED BY <1>3, <1>6, <2>2, <3>1
    <2> QED BY <2>1, <2>2
  <1> QED BY <1>6, <1>7, <1>8

\* Every creature of cs is counted once, at its place, on top of the grid g.
AllAdded(g, cs, new) ==
  /\ new \in Grids
  /\ \A c \in Cells, k \in Kinds :
       LET all == Cardinality({i \in DOMAIN cs : cs[i].cell = c /\ cs[i].kind = k})
       IN  /\ all \in Nat
           /\ new[c].kill = g[c].kill
           /\ new[c].num[k] = g[c].num[k] + all
           /\ new[c].breed[k] = g[c].breed[k] + One(Fit(InitEnergy)) * all
           /\ new[c].resting[k] = g[c].resting[k]

\* What a configuration adds to the counters.
LEMMA PopulatedGrid ==
  ASSUME NEW g \in Grids, NEW cs \in Seq(Beings)
  PROVE  AllAdded(g, cs, Populated(g, cs))
  <1> DEFINE all(c, k) == Cardinality({i \in DOMAIN cs : cs[i].cell = c /\ cs[i].kind = k})
             more(c) == [k \in Kinds |-> all(c, k)]
             N(c) == [k \in Kinds |-> g[c].num[k] + more(c)[k]]
             B(c) == [k \in Kinds |-> g[c].breed[k] + One(Fit(InitEnergy)) * more(c)[k]]
             L(c) == [g[c] EXCEPT !.num = N(c), !.breed = B(c)]
  <1>1. \A c \in Cells : g[c] \in Locations
    BY DEF Grids
  <1>2. ASSUME NEW c \in Cells, NEW k \in Kinds PROVE all(c, k) \in Nat
    <2> DEFINE S == {i \in DOMAIN cs : cs[i].cell = c /\ cs[i].kind = k}
    <2>1. S \in SUBSET (1 .. Len(cs)) /\ Len(cs) \in Int
      OBVIOUS
    <2> HIDE DEF S
    <2>2. IsFiniteSet(1 .. Len(cs))
      BY <2>1, FS_Interval
    <2>3. Cardinality(S) \in Nat
      BY <2>1, <2>2, FS_Subset, FS_CardinalityType
    <2> QED BY <2>3 DEF S
  <1>3. Populated(g, cs) = [c \in Cells |-> L(c)]
    <2>1. ASSUME NEW c \in Cells
          PROVE  [g[c] EXCEPT !.num   = [k \in Kinds |-> @[k] + more(c)[k]],
                              !.breed = [k \in Kinds |->
                                           @[k] + One(Fit(InitEnergy)) * more(c)[k]]]
                   = L(c)
      BY <1>1 DEF Locations
    <2> QED BY <2>1 DEF Populated
  <1>4. One(Fit(InitEnergy)) \in Int
    BY DEF One
  <1>5. ASSUME NEW c \in Cells
        PROVE  /\ N(c) \in [Kinds -> Int] /\ B(c) \in [Kinds -> Int]
               /\ \A k \in Kinds :
                    /\ N(c)[k] = g[c].num[k] + all(c, k)
                    /\ B(c)[k] = g[c].breed[k] + One(Fit(InitEnergy)) * all(c, k)
    <2>1. \A k \in Kinds : g[c].num[k] \in Int /\ g[c].breed[k] \in Int /\ all(c, k) \in Int
      BY <1>1, <1>2 DEF Locations
    <2> HIDE DEF all
    <2> QED BY <1>4, <2>1
  <1> HIDE DEF N, B, all
  <1>6. ASSUME NEW c \in Cells
        PROVE  /\ L(c) \in Locations /\ L(c).num = N(c) /\ L(c).breed = B(c)
               /\ L(c).resting = g[c].resting /\ L(c).kill = g[c].kill
    BY <1>1, <1>5 DEF Locations
  <1> HIDE DEF L
  <1>7. Populated(g, cs) \in Grids
    BY <1>3, <1>6 DEF Grids
  <1>8. \A c \in Cells, k \in Kinds :
          /\ all(c, k) \in Nat
          /\ Populated(g, cs)[c].kill = g[c].kill
          /\ Populated(g, cs)[c].num[k] = g[c].num[k] + all(c, k)
          /\ Populated(g, cs)[c].breed[k] = g[c].breed[k] + One(Fit(InitEnergy)) * all(c, k)
          /\ Populated(g, cs)[c].resting[k] = g[c].resting[k]
    BY <1>2, <1>3, <1>5, <1>6
  <1> QED BY <1>7, <1>8 DEF all, AllAdded

\* The first configuration counts the creatures it places; a second one would
\* add them to the counters of those it replaces.
LEMMA ConfigKeeps ==
  ASSUME BabiesLive, Consistent, Config, configs = 0
  PROVE  Consistent'
  <1>1. /\ Typed /\ Counting /\ creatures = <<>> /\ newborn = <<>> /\ grid \in Grids
    BY DEF Consistent, Typed, Vacant
  <1>2. /\ newborn' = <<>> /\ turn' = 0 /\ configs' = 1 /\ grid' = Populated(grid, creatures')
    BY <1>1 DEF Config
  <1>3. creatures' \in Seq(Fresh) /\ creatures' \in Seq(Beings)
    BY ConfigPlaces
  <1>4. \A r \in Fresh : Alive(r)
    BY Sim2Assumption DEF BabiesLive, RestCost, Fresh, Alive
  <1>5. AllAdded(grid, creatures', grid')
    <2>1. ASSUME NEW cs \in Seq(Beings) PROVE AllAdded(grid, cs, Populated(grid, cs))
      BY <1>1, PopulatedGrid
    <2> QED BY ONLY <1>2, <1>3, <2>1
  <1>6. ASSUME NEW c \in Cells, NEW k \in Kinds
        PROVE  /\ grid'[c].num[k] = Tally(Everyone', Seen(c, k) \cap Quick)
               /\ grid'[c].breed[k] = Tally(Everyone', Breeding(c, k) \cap Quick)
               /\ grid'[c].resting[k] = Tally(Everyone', Hidden(c, k) \cap Quick)
    <2> DEFINE cs == creatures'
               T == {i \in DOMAIN cs : cs[i].cell = c /\ cs[i].kind = k}
    <2>1. grid[c].num[k] = 0 /\ grid[c].breed[k] = 0 /\ grid[c].resting[k] = 0
      <3>1. Everyone = <<>>
        BY <1>1 DEF Everyone
      <3> QED BY <1>1, <3>1, TallyEmpty DEF Counting
    <2>2. /\ Cardinality(T) \in Nat /\ grid'[c].num[k] = Cardinality(T)
          /\ grid'[c].breed[k] = One(Fit(InitEnergy)) * Cardinality(T)
          /\ grid'[c].resting[k] = 0
      <3>1. /\ Cardinality(T) \in Nat
            /\ grid'[c].num[k] = grid[c].num[k] + Cardinality(T)
            /\ grid'[c].breed[k] = grid[c].breed[k] + One(Fit(InitEnergy)) * Cardinality(T)
            /\ grid'[c].resting[k] = grid[c].resting[k]
        BY <1>5 DEF AllAdded
      <3> HIDE DEF T
      <3>2. One(Fit(InitEnergy)) = 0 \/ One(Fit(InitEnergy)) = 1
        BY DEF One
      <3> QED BY <2>1, <3>1, <3>2
    <2>3. Everyone' = cs
      BY <1>2, <1>3 DEF Everyone
    <2>4. \A i \in DOMAIN cs : cs[i] \in Beings /\ cs[i].visible /\ Alive(cs[i])
                               /\ cs[i].energy = InitEnergy
      BY <1>3, <1>4 DEF Fresh
    <2> HIDE DEF cs
    <2>5. Places(cs, Seen(c, k) \cap Quick) = T
      BY <2>4 DEF Places, Seen, Quick
    <2>6. Places(cs, Breeding(c, k) \cap Quick) = IF Fit(InitEnergy) THEN T ELSE {}
      BY <2>4 DEF Places, Breeding, Quick
    <2>7. Places(cs, Hidden(c, k) \cap Quick) = {}
      BY <2>4 DEF Places, Hidden, Quick
    <2> HIDE DEF T
    <2>8. Tally(cs, Hidden(c, k) \cap Quick) = 0
      BY <2>7, FS_EmptySet, Zenon DEF Tally
    <2>9. Tally(cs, Breeding(c, k) \cap Quick) = One(Fit(InitEnergy)) * Cardinality(T)
      <3>1. CASE Fit(InitEnergy)
        <4>1. Tally(cs, Breeding(c, k) \cap Quick) = Cardinality(T)
          BY <2>6, <3>1, Zenon DEF Tally
        <4> QED BY <2>2, <3>1, <4>1 DEF One
      <3>2. CASE ~Fit(InitEnergy)
        <4>1. Tally(cs, Breeding(c, k) \cap Quick) = 0
          BY <2>6, <3>2, FS_EmptySet, Zenon DEF Tally
        <4> QED BY <2>2, <3>2, <4>1 DEF One
      <3> QED BY <3>1, <3>2
    <2>10. Tally(cs, Seen(c, k) \cap Quick) = Cardinality(T)
      BY <2>5, Zenon DEF Tally
    <2> QED BY <2>2, <2>3, <2>8, <2>9, <2>10
  <1>7. Counting'
    BY <1>6 DEF Counting
  <1>8. Typed'
    BY <1>2, <1>3, <1>5 DEF Typed, AllAdded
  <1>9. Lively'
    <2>1. \A i \in 1 .. Len(creatures') : Alive(creatures'[i])
      BY <1>3, <1>4
    <2>2. Len(newborn') = 0
      BY <1>2
    <2> QED BY <1>2, <2>1, <2>2 DEF Lively
  <1> QED BY <1>2, <1>7, <1>8, <1>9 DEF Consistent, Vacant

\* With one configuration the counters are those of the creatures: the
\* inductive invariant.
Agreement == configs \in Nat /\ (configs <= 1 => Consistent)

LEMMA AgreementInit == Init => Agreement
  <1> SUFFICES ASSUME Init PROVE Agreement
    OBVIOUS
  <1>1. /\ creatures = <<>> /\ newborn = <<>> /\ turn = 0 /\ configs = 0
        /\ grid = [c \in Cells |-> Empty]
    BY DEF Init
  <1>2. Empty \in Locations /\ Empty.kill = 0
        /\ \A k \in Kinds : Empty.num[k] = 0 /\ Empty.breed[k] = 0 /\ Empty.resting[k] = 0
    BY DEF Empty, Locations
  <1>3. Typed
    <2>1. Len(creatures) = 0
      BY <1>1
    <2> QED BY <1>1, <1>2, <2>1 DEF Typed, Grids
  <1>4. Counting
    <2>1. Everyone = <<>>
      BY <1>1 DEF Everyone
    <2> QED BY <1>1, <1>2, <2>1, TallyEmpty DEF Counting
  <1>5. Lively
    <2>1. Len(creatures) = 0 /\ Len(newborn) = 0
      BY <1>1
    <2> QED BY <1>1, <2>1 DEF Lively
  <1> QED BY <1>1, <1>3, <1>4, <1>5 DEF Agreement, Consistent, Vacant

\* What the window does leaves the creatures and the grid as they are.
LEMMA WindowKeeps ==
  ASSUME Consistent, configs' = configs,
         UNCHANGED <<creatures, newborn, grid>>, turn' = turn \/ (turn = 0 /\ turn' = 1)
  PROVE  Consistent'
  <1>1. Typed'
    BY DEF Consistent, Typed
  <1>2. Everyone' = Everyone
    BY DEF Everyone
  <1>3. Counting'
    BY <1>2 DEF Consistent, Counting
  <1>4. Lively'
    BY DEF Consistent, Lively
  <1>5. Vacant'
    BY DEF Consistent, Vacant
  <1> QED BY <1>1, <1>3, <1>4, <1>5 DEF Consistent

LEMMA AgreementStep ==
  ASSUME BabiesLive, Agreement, [Next]_vars
  PROVE  Agreement'
  <1>1. CASE Act
    <2>1. configs' = configs
      BY <1>1 DEF Act, Eaten, Wait, Idle, Move, Rest, Hunt, Breed, EndTurn
    <2>2. InTurn
      BY <1>1 DEF Act, Eaten, Wait, Ready, Idle, Move, Rest, Hunt, Breed
    <2>3. ASSUME Consistent PROVE Consistent'
      <3>1. \E t : Outcome(t) /\ EndTurn(t)
        BY <1>1, <2>3, ActOutcome DEF Consistent
      <3> QED BY <2>2, <2>3, <3>1, TurnKeeps
    <2> QED BY <2>1, <2>3 DEF Agreement
  <1>2. CASE EndIteration
    <2>1. configs' = configs
      BY <1>2 DEF EndIteration
    <2> QED BY <1>2, <2>1, IterationKeeps DEF Agreement
  <1>3. CASE Config
    <2>1. configs' = configs + 1
      BY <1>3 DEF Config
    <2>2. ASSUME configs' <= 1 PROVE configs = 0 /\ Consistent
      BY <2>1, <2>2 DEF Agreement
    <2> QED BY <1>3, <2>1, <2>2, ConfigKeeps DEF Agreement
  <1>4. CASE Tick \/ LastTick \/ Play \/ Pause \/ UNCHANGED vars
    <2>1. /\ configs' = configs /\ UNCHANGED <<creatures, newborn, grid>>
          /\ turn' = turn \/ (turn = 0 /\ turn' = 1)
      BY <1>4 DEF Tick, LastTick, Play, Pause, vars, sim
    <2> QED BY <2>1, WindowKeeps DEF Agreement
  <1> QED BY <1>1, <1>2, <1>3, <1>4 DEF Next

\* The living of the property are those the invariant tallies.
LEMMA LivingPlaces ==
  ASSUME Typed, NEW c \in Cells, NEW k \in Kinds
  PROVE  /\ Living(c, k, TRUE) = Places(Everyone, Seen(c, k) \cap Quick)
         /\ Living(c, k, FALSE) = Places(Everyone, Hidden(c, k) \cap Quick)
         /\ {i \in Living(c, k, TRUE) : Fit(Everyone[i].energy)}
              = Places(Everyone, Breeding(c, k) \cap Quick)
  <1>1. \A i \in DOMAIN Everyone : Everyone[i] \in Beings
    BY EveryoneJoint
  <1>2. \A i \in DOMAIN Everyone : Everyone[i].visible \in BOOLEAN
    BY <1>1 DEF Beings
  <1> QED BY <1>1, <1>2 DEF Living, Places, Seen, Hidden, Breeding, Quick

\* With one configuration, and babies that survive their first rest, the
\* counters of every location are at every turn the numbers of the living
\* creatures there, for every grid and every number of creatures
\* (location.rs, creature.rs).
THEOREM CountersAlwaysAgree ==
  ASSUME BabiesLive
  PROVE  Spec => [](configs <= 1 => CountersAgree)
  <1>1. Agreement => (configs <= 1 => CountersAgree)
    <2> SUFFICES ASSUME Agreement, configs <= 1 PROVE CountersAgree
      OBVIOUS
    <2>1. Typed /\ Counting
      BY DEF Agreement, Consistent
    <2> QED BY <2>1, LivingPlaces DEF Counting, CountersAgree, Tally
  <1>2. Agreement /\ [Next]_vars => Agreement'
    BY AgreementStep
  <1> QED BY <1>1, <1>2, AgreementInit, PTL DEF Spec

-----------------------------------------------------------------------------
(* Who is met.                                                             *)

\* A counter that leaves something beside the creature whose turn it is has
\* counted another.
LEMMA OtherCounted ==
  ASSUME Typed, InTurn, NEW P,
         Tally(Everyone, P) - One(creatures[turn] \in P) > 0
  PROVE  \E j \in 1 .. Len(Everyone) : j # turn /\ Everyone[j] \in P
  <1>1. /\ Everyone \in Seq(Beings) /\ turn \in 1 .. Len(Everyone)
        /\ Everyone[turn] = creatures[turn]
    <2>1. turn \in 1 .. Len(creatures) /\ Len(newborn) \in Nat /\ Len(creatures) \in Nat
      BY DEF InTurn, Typed
    <2>2. Len(Everyone) = Len(creatures) + Len(newborn)
      BY EveryoneJoint
    <2> QED BY <2>1, <2>2, EveryoneJoint
  <1>2. Tally(Everyone, P) - OneIf(Everyone[turn] \in P) > 0
    BY <1>1 DEF One, OneIf
  <1> QED BY <1>1, <1>2, TallyOther

LEMMA PartnerMet ==
  ASSUME Consistent, InTurn, NEW c \in Cells, NEW k \in Kinds, Breeders(Acting, c, k) > 0
  PROVE  \E j \in 1 .. Len(Everyone) :
            j # turn /\ Everyone[j] \in Breeding(c, k) \cap Quick
  <1>1. Typed /\ Counting /\ Lively
    BY DEF Consistent
  <1>2. Breeders(Acting, c, k)
          = grid[c].breed[k] - One(creatures[turn] \in Breeding(c, k) \cap Quick)
    BY <1>1, TurnOpens DEF Opens
  <1>3. grid[c].breed[k] = Tally(Everyone, Breeding(c, k) \cap Quick)
    BY <1>1 DEF Counting
  <1> QED BY <1>1, <1>2, <1>3, OtherCounted

LEMMA PreyMet ==
  ASSUME Consistent, InTurn, NEW c \in Cells, NEW k \in Kinds, Num(Acting, c, k) > 0
  PROVE  \E j \in 1 .. Len(creatures) :
            j # turn /\ creatures[j] \in Seen(c, k) \cap Quick
  <1>1. Typed /\ Counting /\ Lively /\ newborn \in Seq(Beings) /\ creatures \in Seq(Beings)
    BY DEF Consistent, Typed
  <1>2. Num(Acting, c, k) = grid[c].num[k] - One(creatures[turn] \in Seen(c, k) \cap Quick)
    BY <1>1, TurnOpens DEF Opens
  <1>3. grid[c].num[k] = Tally(Everyone, Seen(c, k) \cap Quick)
    BY <1>1 DEF Counting
  <1>4. PICK j \in 1 .. Len(Everyone) : j # turn /\ Everyone[j] \in Seen(c, k) \cap Quick
    BY <1>1, <1>2, <1>3, OtherCounted
  <1>5. j \in 1 .. Len(creatures)
    <2> SUFFICES ASSUME j \notin 1 .. Len(creatures) PROVE FALSE
      OBVIOUS
    <2>1. /\ Len(Everyone) = Len(creatures) + Len(newborn)
          /\ \A i \in Len(creatures) + 1 .. Len(creatures) + Len(newborn) :
               Everyone[i] = newborn[i - Len(creatures)]
      BY <1>1, EveryoneJoint
    <2>2. /\ j \in Len(creatures) + 1 .. Len(creatures) + Len(newborn)
          /\ j - Len(creatures) \in 1 .. Len(newborn)
      BY <1>1, <2>1
    <2>3. ~Everyone[j].visible
      BY <1>1, <2>1, <2>2 DEF Lively
    <2> QED BY <1>4, <2>3 DEF Seen
  <1>6. Everyone[j] = creatures[j]
    BY <1>1, <1>5, EveryoneJoint
  <1> QED BY <1>4, <1>5, <1>6

\* No creature has babies without another one of its kind in its cell, alive,
\* visible and with the energy to breed (creature.rs, location.rs).
THEOREM BirthsNeedPairs ==
  ASSUME BabiesLive, MaxConfigs \in {0, 1}
  PROVE  Spec => BirthNeedsPair
  <1> DEFINE Only == Agreement /\ configs <= 1
             Pair == Len(newborn') > Len(newborn) /\ turn > 0
                     => LET parent == creatures'[turn] IN
                        \E i \in Living(parent.cell, parent.kind, TRUE) \ {turn} :
                           Fit(Everyone[i].energy)
  <1>1. Init => Only
    <2>1. Init => configs <= 1
      BY DEF Init
    <2> QED BY <2>1, AgreementInit
  <1>2. Only /\ [Next]_vars => Only'
    <2> SUFFICES ASSUME Only, [Next]_vars PROVE Only'
      OBVIOUS
    <2>1. configs \in Nat /\ configs <= 1
      BY DEF Agreement
    <2>2. configs' = configs \/ (configs < MaxConfigs /\ configs' = configs + 1)
      BY DEF Next, Act, Eaten, Wait, Idle, Move, Rest, Hunt, Breed, EndTurn, EndIteration,
             Tick, LastTick, Play, Pause, Config, vars
    <2> QED BY <2>1, <2>2, AgreementStep
  <1>3. Only /\ [Next]_vars => [Pair]_vars
    <2> SUFFICES ASSUME Only, Next, Len(newborn') > Len(newborn), turn > 0
                 PROVE  LET parent == creatures'[turn] IN
                        \E i \in Living(parent.cell, parent.kind, TRUE) \ {turn} :
                           Fit(Everyone[i].energy)
      BY DEF vars
    <2>1. Consistent /\ Typed /\ Lively
      BY DEF Agreement, Consistent
    <2>2. Act
      <3>1. newborn \in Seq(Beings)
        BY <2>1 DEF Typed
      <3>2. CASE EndIteration
        <4>1. Len(newborn') = 0
          BY <3>2 DEF EndIteration
        <4> QED BY <3>1, <4>1
      <3>3. CASE Tick \/ LastTick \/ Play \/ Pause \/ Config
        <4>1. newborn' = newborn
          BY <3>3 DEF Tick, LastTick, Play, Pause, Config, sim
        <4> QED BY <3>1, <4>1
      <3> QED BY <3>2, <3>3 DEF Next
    <2>3. InTurn
      BY <2>2 DEF Act, Eaten, Wait, Ready, Idle, Move, Rest, Hunt, Breed
    <2>4. PICK t : Outcome(t) /\ EndTurn(t)
      BY <2>1, <2>2, ActOutcome
    <2>5. /\ creatures'[turn] = t.me /\ Len(newborn') = Len(newborn) + Len(t.born)
          /\ turn \in 1 .. Len(creatures) /\ newborn \in Seq(Beings)
      BY <2>1, <2>3, <2>4, TurnKeeps DEF InTurn, Typed
    <2>6. t.born # <<>>
      <3>1. Len(t.born) # 0
        BY <2>5
      <3> QED BY <3>1
    <2>7. /\ t.me.cell \in Cells /\ t.me.kind \in Kinds
          /\ Breeders(Acting, t.me.cell, t.me.kind) > 0
      BY <2>4, <2>6, SceneType DEF Outcome
    <2>8. PICK j \in 1 .. Len(Everyone) :
            j # turn /\ Everyone[j] \in Breeding(t.me.cell, t.me.kind) \cap Quick
      BY <2>1, <2>3, <2>7, PartnerMet
    <2>9. j \in Living(t.me.cell, t.me.kind, TRUE) \ {turn} /\ Fit(Everyone[j].energy)
      <3>1. j \in DOMAIN Everyone
        BY <2>1, EveryoneJoint
      <3> QED BY <2>8, <3>1 DEF Living, Breeding, Quick, Beings
    <2> QED BY <2>5, <2>9
  <1> QED BY <1>1, <1>2, <1>3, PTL DEF Spec, BirthNeedsPair

-----------------------------------------------------------------------------
(* A single predator.                                                      *)

\* The prey of a cell that have still to take their turn and can be seen.
DuePlaces(c) ==
  {i \in 1 .. Len(creatures) : /\ 0 < turn /\ turn <= i
                               /\ creatures[i] \in Seen(c, "prey") \cap Quick}

\* The predator, if there is one, is the first of the vector...
Lone == /\ \A i \in 1 .. Len(creatures) : creatures[i].kind = "predator" => i = 1
        /\ \A i \in 1 .. Len(newborn) : newborn[i].kind # "predator"
\* ... so no kill is pending when its turn comes, ...
Early == turn <= 1 => \A c \in Cells : grid[c].kill <= 0
\* ... and each is of a prey that has still to take its turn.
Due == \A c \in Cells : grid[c].kill <= Cardinality(DuePlaces(c))

Covered == Lone /\ Early /\ Due

LEMMA DueFinite ==
  ASSUME Typed, NEW c \in Cells
  PROVE  /\ IsFiniteSet(DuePlaces(c)) /\ Cardinality(DuePlaces(c)) \in Nat
         /\ grid[c].kill \in Int
  <1>1. creatures \in Seq(Beings) /\ grid[c].kill \in Int
    BY DEF Typed, Grids, Locations
  <1>2. IsFiniteSet(1 .. Len(creatures)) /\ DuePlaces(c) \in SUBSET (1 .. Len(creatures))
    <2>1. Len(creatures) \in Int
      BY <1>1
    <2> QED BY <2>1, FS_Interval DEF DuePlaces
  <1> QED BY <1>1, <1>2, FS_Subset, FS_CardinalityType

\* Between the turns of two iterations nobody is due.
LEMMA NobodyDue ==
  ASSUME Typed, turn = 0 \/ turn = Len(creatures) + 1, NEW c \in Cells
  PROVE  Cardinality(DuePlaces(c)) = 0
  <1>1. Len(creatures) \in Nat
    BY DEF Typed
  <1>2. DuePlaces(c) = {}
    BY <1>1 DEF DuePlaces
  <1> QED BY <1>2, FS_EmptySet, Zenon

LEMMA LoneTurn ==
  ASSUME Consistent, Lone, InTurn, NEW t, Outcome(t), EndTurn(t)
  PROVE  Lone'
  <1>1. /\ Consistent'
        /\ Len(creatures') = Len(creatures) /\ Len(newborn') = Len(newborn) + Len(t.born)
        /\ \A i \in 1 .. Len(creatures) :
              creatures'[i] = IF i = turn THEN t.me ELSE creatures[i]
        /\ \A i \in 1 .. Len(newborn) : newborn'[i] = newborn[i]
        /\ \A i \in Len(newborn) + 1 .. Len(newborn) + Len(t.born) :
              newborn'[i] = t.born[i - Len(newborn)]
    BY TurnKeeps
  <1>2. /\ Typed /\ turn \in 1 .. Len(creatures) /\ Len(creatures) \in Nat
        /\ newborn \in Seq(Beings) /\ t.born \in Seq(Beings)
        /\ t.me.kind = creatures[turn].kind /\ t.me.cell \in Cells /\ t.me.kind \in Kinds
    BY SceneType DEF Consistent, Typed, InTurn, Outcome
  <1>3. \A i \in 1 .. Len(creatures') : creatures'[i].kind = "predator" => i = 1
    BY <1>1, <1>2 DEF Lone
  <1>4. t.born = <<>> \/ t.me.kind # "predator"
    <2> SUFFICES ASSUME t.born # <<>>, t.me.kind = "predator" PROVE FALSE
      OBVIOUS
    <2>1. Breeders(Acting, t.me.cell, t.me.kind) > 0
      BY DEF Outcome
    <2>2. PICK j \in 1 .. Len(Everyone) :
            j # turn /\ Everyone[j] \in Breeding(t.me.cell, t.me.kind) \cap Quick
      BY <1>2, <2>1, PartnerMet
    <2>3. turn = 1
      BY <1>2 DEF Lone
    <2>4. /\ Len(Everyone) = Len(creatures) + Len(newborn)
          /\ \A i \in 1 .. Len(creatures) : Everyone[i] = creatures[i]
          /\ \A i \in Len(creatures) + 1 .. Len(creatures) + Len(newborn) :
               Everyone[i] = newborn[i - Len(creatures)]
      BY <1>2, EveryoneJoint
    <2>5. Everyone[j].kind = "predator"
      BY <2>2 DEF Breeding
    <2>6. CASE j \in 1 .. Len(creatures)
      BY <2>2, <2>3, <2>4, <2>5, <2>6 DEF Lone
    <2>7. CASE j \notin 1 .. Len(creatures)
      <3>1. /\ j - Len(creatures) \in 1 .. Len(newborn)
            /\ Everyone[j] = newborn[j - Len(creatures)]
        BY <1>2, <2>4, <2>7
      <3> QED BY <2>5, <3>1 DEF Lone
    <2> QED BY <2>6, <2>7
  <1>5. \A i \in 1 .. Len(newborn') : newborn'[i].kind # "predator"
    <2> TAKE i \in 1 .. Len(newborn')
    <2>1. CASE i <= Len(newborn)
      BY <1>1, <1>2, <2>1 DEF Lone
    <2>2. CASE i > Len(newborn)
      <3>1. /\ i - Len(newborn) \in 1 .. Len(t.born)
            /\ newborn'[i] = t.born[i - Len(newborn)]
        BY <1>1, <1>2, <2>2
      <3>2. BabyOf(t.born[i - Len(newborn)], t.me) /\ t.born # <<>>
        BY <3>1 DEF Outcome, Babies
      <3> QED BY <1>4, <3>1, <3>2 DEF BabyOf
    <2> QED BY <1>1, <1>2, <2>1, <2>2
  <1> QED BY <1>3, <1>5 DEF Lone

LEMMA DueTurn ==
  ASSUME Consistent, Covered, InTurn, NEW t, Outcome(t), EndTurn(t)
  PROVE  Due'
  <1>1. /\ Consistent' /\ Len(creatures') = Len(creatures)
        /\ \A i \in 1 .. Len(creatures) :
              creatures'[i] = IF i = turn THEN t.me ELSE creatures[i]
    BY TurnKeeps
  <1>2. /\ Typed /\ Lively /\ turn \in 1 .. Len(creatures) /\ Len(creatures) \in Nat
        /\ t \in Scenes /\ t.me.cell \in Cells /\ "prey" \in Kinds
        /\ creatures[turn] \in Beings /\ Alive(creatures[turn])
        /\ Acting.grid = grid
    BY SceneType, TurnOpens DEF Consistent, Typed, InTurn, Outcome, Kinds
  <1>3. grid' = t.grid /\ turn' = turn + 1
    BY DEF EndTurn
  <1> SUFFICES ASSUME NEW c \in Cells
               PROVE  t.grid[c].kill <= Cardinality(DuePlaces(c)')
    BY <1>3 DEF Due
  <1>4. DuePlaces(c)' = DuePlaces(c) \ {turn}
    BY <1>1, <1>2, <1>3 DEF DuePlaces
  <1>5. /\ IsFiniteSet(DuePlaces(c)) /\ Cardinality(DuePlaces(c)) \in Nat
        /\ grid[c].kill \in Int /\ grid[c].kill <= Cardinality(DuePlaces(c))
    BY <1>2, DueFinite DEF Covered, Due
  <1>6. /\ IsFiniteSet(DuePlaces(c)') /\ Cardinality(DuePlaces(c)') \in Nat
        /\ Cardinality(DuePlaces(c)') = IF turn \in DuePlaces(c)
                                        THEN Cardinality(DuePlaces(c)) - 1
                                        ELSE Cardinality(DuePlaces(c))
    <2> DEFINE D == DuePlaces(c)
    <2> HIDE DEF D
    <2>1. /\ IsFiniteSet(D \ {turn})
          /\ Cardinality(D \ {turn}) = IF turn \in D THEN Cardinality(D) - 1
                                                    ELSE Cardinality(D)
      BY <1>5, FS_RemoveElement DEF D
    <2>2. Cardinality(D \ {turn}) \in Nat
      BY <2>1, FS_CardinalityType
    <2> QED BY <1>4, <2>1, <2>2 DEF D
  <1>7. turn \in DuePlaces(c) <=> /\ creatures[turn].kind = "prey"
                                  /\ creatures[turn].visible
                                  /\ creatures[turn].cell = c
    BY <1>2 DEF DuePlaces, Seen, Quick
  <1>8. CASE ~IsEaten /\ SameKills(Acting, t)
    <2>1. t.grid[c].kill = grid[c].kill
      BY <1>2, <1>8 DEF SameKills
    <2>2. turn \in DuePlaces(c) => grid[c].kill <= 0
      BY <1>5, <1>7, <1>8 DEF IsEaten
    <2> QED BY <1>5, <1>6, <2>1, <2>2
  <1>9. CASE /\ IsEaten
             /\ \A d \in Cells : t.grid[d].kill
                  = grid[d].kill - (IF d = creatures[turn].cell THEN 1 ELSE 0)
    <2>1. turn \in DuePlaces(c) <=> creatures[turn].cell = c
      BY <1>7, <1>9 DEF IsEaten
    <2> QED BY <1>5, <1>6, <1>9, <2>1
  <1>10. CASE /\ creatures[turn].kind = "predator"
              /\ KillNoted(Acting, t) /\ Num(Acting, t.me.cell, "prey") > 0
    <2>1. turn = 1 /\ grid[c].kill <= 0
      BY <1>2, <1>10 DEF Covered, Lone, Early
    <2>2. CASE c = t.me.cell
      <3>1. t.grid[c].kill = grid[c].kill + 1
        BY <1>2, <1>10, <2>2 DEF KillNoted
      <3>2. PICK j \in 1 .. Len(creatures) :
              j # turn /\ creatures[j] \in Seen(c, "prey") \cap Quick
        BY <1>2, <1>10, <2>2, PreyMet
      <3>3. j \in DuePlaces(c)'
        BY <1>2, <1>4, <2>1, <3>2 DEF DuePlaces
      <3>4. Cardinality(DuePlaces(c)') # 0
        BY <1>6, <3>3, FS_EmptySet
      <3> QED BY <1>5, <1>6, <2>1, <3>1, <3>4
    <2>3. CASE c # t.me.cell
      <3>1. t.grid[c].kill = grid[c].kill + 0
        BY <1>2, <1>10, <2>3 DEF KillNoted
      <3> QED BY <1>5, <1>6, <2>1, <3>1
    <2> QED BY <2>2, <2>3
  <1> QED BY <1>8, <1>9, <1>10 DEF Outcome, Pays

LEMMA CoveredIteration ==
  ASSUME Consistent, Covered, EndIteration
  PROVE  Covered'
  <1> DEFINE I == {i \in DOMAIN creatures : Alive(creatures[i])}
             K == Kept(creatures, I)
  <1>1. Typed /\ Consistent' /\ creatures \in Seq(Beings) /\ newborn \in Seq(Beings)
    BY IterationKeeps DEF Consistent, Typed
  <1>2. /\ creatures' = Joint(K, newborn) /\ newborn' = <<>> /\ turn' = 0 /\ grid' = grid
        /\ turn = Len(creatures) + 1
    BY DEF EndIteration, Joint
  <1> HIDE DEF I
  <1>3. K \in Seq(Beings)
    BY <1>1, KeptSeq
  <1>4. \A j \in 1 .. Len(K) : K[j].kind = "predator" => j = 1
    <2> TAKE j \in 1 .. Len(K)
    <2>1. PICK i \in 1 .. Len(creatures) : j <= i /\ K[j] = creatures[i]
      BY <1>1, KeptElements
    <2> QED BY <2>1 DEF Covered, Lone
  <1> HIDE DEF K
  <1>5. /\ creatures' \in Seq(Beings) /\ Len(creatures') = Len(K) + Len(newborn)
        /\ \A i \in 1 .. Len(K) : creatures'[i] = K[i]
        /\ \A i \in Len(K) + 1 .. Len(K) + Len(newborn) :
              creatures'[i] = newborn[i - Len(K)]
    BY <1>1, <1>2, <1>3, Concatenated
  <1>6. Lone'
    <2>1. ASSUME NEW i \in 1 .. Len(creatures'), creatures'[i].kind = "predator"
          PROVE  i = 1
      <3>1. CASE i \in 1 .. Len(K)
        BY <1>4, <1>5, <2>1, <3>1
      <3>2. CASE i \notin 1 .. Len(K)
        <4>1. i - Len(K) \in 1 .. Len(newborn) /\ creatures'[i] = newborn[i - Len(K)]
          BY <1>1, <1>3, <1>5, <3>2
        <4> QED BY <2>1, <4>1 DEF Covered, Lone
      <3> QED BY <3>1, <3>2
    <2>2. Len(newborn') = 0
      BY <1>2
    <2> QED BY <2>1, <2>2 DEF Lone
  <1>7. \A c \in Cells : grid[c].kill <= 0
    BY <1>1, <1>2, NobodyDue DEF Covered, Due
  <1>8. \A c \in Cells : grid'[c].kill <= 0
    BY <1>2, <1>7
  <1>9. ASSUME NEW c \in Cells PROVE grid'[c].kill <= Cardinality(DuePlaces(c)')
    <2>1. DuePlaces(c)' = {}
      BY <1>2 DEF DuePlaces
    <2>2. Cardinality(DuePlaces(c)') = 0
      BY <2>1, FS_EmptySet, Zenon
    <2> QED BY <1>8, <2>2
  <1>10. Due'
    BY <1>9 DEF Due
  <1>11. Early'
    BY <1>8 DEF Early
  <1> QED BY <1>6, <1>10, <1>11 DEF Covered

LEMMA CoveredConfig ==
  ASSUME PredNums \subseteq {0, 1}, Consistent, Covered, Config
  PROVE  Covered'
  <1>1. Typed /\ grid \in Grids /\ creatures' \in Seq(Beings)
    BY ConfigPlaces DEF Consistent, Typed
  <1>2. newborn' = newborn /\ turn = 0 /\ turn' = 0 /\ grid' = Populated(grid, creatures')
    BY DEF Config
  <1>3. Lone'
    BY <1>2, ConfigPlaces DEF Covered, Lone
  <1>4. \A c \in Cells : grid'[c].kill = grid[c].kill
    <2> DEFINE cs == creatures'
    <2> HIDE DEF cs
    <2>1. cs \in Seq(Beings) /\ "prey" \in Kinds
      BY <1>1 DEF cs, Kinds
    <2>2. \A c \in Cells : Populated(grid, cs)[c].kill = grid[c].kill
      BY <1>1, <2>1, PopulatedGrid DEF AllAdded
    <2> QED BY <1>2, <2>2 DEF cs
  <1>5. \A c \in Cells : grid'[c].kill <= 0
    BY <1>2, <1>4 DEF Covered, Early
  <1>6. ASSUME NEW c \in Cells PROVE grid'[c].kill <= Cardinality(DuePlaces(c)')
    <2>1. DuePlaces(c)' = {}
      BY <1>2 DEF DuePlaces
    <2>2. Cardinality(DuePlaces(c)') = 0
      BY <2>1, FS_EmptySet, Zenon
    <2> QED BY <1>5, <2>2
  <1>7. Due'
    BY <1>6 DEF Due
  <1>8. Early'
    BY <1>5 DEF Early
  <1> QED BY <1>3, <1>7, <1>8 DEF Covered

LEMMA CoveredWindow ==
  ASSUME Consistent, Covered, Consistent',
         UNCHANGED <<creatures, newborn, grid>>, turn' = turn \/ (turn = 0 /\ turn' = 1)
  PROVE  Covered'
  <1>1. Typed /\ Typed'
    BY DEF Consistent
  <1>2. Lone'
    BY DEF Covered, Lone
  <1>3. CASE turn' = turn
    <2>1. \A c \in Cells : DuePlaces(c)' = DuePlaces(c)
      BY <1>3 DEF DuePlaces
    <2>2. Due'
      BY <2>1 DEF Covered, Due
    <2>3. Early'
      BY <1>3 DEF Covered, Early
    <2> QED BY <1>2, <2>2, <2>3 DEF Covered
  <1>4. CASE turn = 0 /\ turn' = 1
    <2>1. \A c \in Cells : grid'[c].kill <= 0
      BY <1>4 DEF Covered, Early
    <2>2. \A c \in Cells : Cardinality(DuePlaces(c)') \in Nat /\ grid'[c].kill \in Int
      <3> TAKE c \in Cells
      <3>1. creatures' \in Seq(Beings) /\ grid' \in Grids
        BY <1>1 DEF Typed
      <3>2. IsFiniteSet(1 .. Len(creatures')) /\ DuePlaces(c)' \in SUBSET (1 .. Len(creatures'))
        <4>1. Len(creatures') \in Int
          BY <3>1
        <4> QED BY <4>1, FS_Interval DEF DuePlaces
      <3> QED BY <3>1, <3>2, FS_Subset, FS_CardinalityType DEF Grids, Locations
    <2>3. Due'
      BY <2>1, <2>2 DEF Due
    <2>4. Early'
      BY <2>1 DEF Early
    <2> QED BY <1>2, <2>3, <2>4 DEF Covered
  <1> QED BY <1>3, <1>4

\* The inductive invariant.
Coverage == Agreement /\ (configs <= 1 => Covered)

LEMMA CoverageInit == Init => Coverage
  <1> SUFFICES ASSUME Init PROVE Coverage
    OBVIOUS
  <1>1. /\ creatures = <<>> /\ newborn = <<>> /\ turn = 0
        /\ grid = [c \in Cells |-> Empty]
    BY DEF Init
  <1>2. \A c \in Cells : grid[c].kill = 0
    BY <1>1 DEF Empty
  <1>3. Agreement /\ Typed
    BY AgreementInit DEF Agreement, Consistent, Init
  <1>4. Lone
    <2>1. Len(creatures) = 0 /\ Len(newborn) = 0
      BY <1>1
    <2> QED BY <2>1 DEF Lone
  <1>5. Early
    BY <1>2 DEF Early
  <1>6. Due
    <2>1. \A c \in Cells : Cardinality(DuePlaces(c)) = 0
      BY <1>1, <1>3, NobodyDue
    <2> QED BY <1>2, <2>1 DEF Due
  <1> QED BY <1>3, <1>4, <1>5, <1>6 DEF Coverage, Covered

LEMMA CoverageStep ==
  ASSUME BabiesLive, PredNums \subseteq {0, 1}, Coverage, [Next]_vars
  PROVE  Coverage'
  <1>1. Agreement' /\ Agreement
    BY AgreementStep DEF Coverage
  <1>2. configs' = configs \/ configs' = configs + 1
    BY DEF Next, Act, Eaten, Wait, Idle, Move, Rest, Hunt, Breed, EndTurn, EndIteration,
           Tick, LastTick, Play, Pause, Config, vars
  <1> SUFFICES ASSUME configs' <= 1 PROVE Covered'
    BY <1>1 DEF Coverage
  <1>3. configs <= 1 /\ Consistent /\ Covered /\ Consistent'
    BY <1>1, <1>2 DEF Agreement, Coverage
  <1>4. CASE Act
    <2>1. InTurn
      BY <1>4 DEF Act, Eaten, Wait, Ready, Idle, Move, Rest, Hunt, Breed
    <2>2. PICK t : Outcome(t) /\ EndTurn(t)
      BY <1>3, <1>4, ActOutcome DEF Consistent
    <2>3. Lone' /\ Due'
      BY <1>3, <2>1, <2>2, LoneTurn, DueTurn DEF Covered
    <2>4. Early'
      <3>1. turn' = turn + 1 /\ turn \in 1 .. Len(creatures)
        BY <2>1, <2>2 DEF EndTurn, InTurn
      <3> QED BY <3>1 DEF Early
    <2> QED BY <2>3, <2>4 DEF Covered
  <1>5. CASE EndIteration
    BY <1>3, <1>5, CoveredIteration
  <1>6. CASE Config
    BY <1>3, <1>6, CoveredConfig
  <1>7. CASE Tick \/ LastTick \/ Play \/ Pause \/ UNCHANGED vars
    <2>1. /\ UNCHANGED <<creatures, newborn, grid>>
          /\ turn' = turn \/ (turn = 0 /\ turn' = 1)
      BY <1>7 DEF Tick, LastTick, Play, Pause, vars, sim
    <2> QED BY <1>3, <2>1, CoveredWindow
  <1> QED BY <1>4, <1>5, <1>6, <1>7 DEF Next

\* With a single predator every pending kill has a living, visible prey in its
\* cell that has still to take its turn, so that none is ever left over for a
\* prey that comes later (creature.rs, location.rs).
THEOREM KillsAlwaysCovered ==
  ASSUME BabiesLive, PredNums \subseteq {0, 1}
  PROVE  Spec => [](configs <= 1 => KillsCovered)
  <1>1. Coverage => (configs <= 1 => KillsCovered)
    <2> SUFFICES ASSUME Coverage, configs <= 1, NEW c \in Cells
                 PROVE  grid[c].kill <= Cardinality({i \in Living(c, "prey", TRUE) :
                                                       0 < turn /\ turn <= i})
      BY DEF KillsCovered
    <2> DEFINE due == {i \in Living(c, "prey", TRUE) : 0 < turn /\ turn <= i}
    <2>1. Typed /\ Consistent /\ Due /\ creatures \in Seq(Beings) /\ newborn \in Seq(Beings)
      BY DEF Coverage, Covered, Agreement, Consistent, Typed
    <2>2. /\ Everyone \in Seq(Beings) /\ Len(Everyone) = Len(creatures) + Len(newborn)
          /\ \A i \in 1 .. Len(creatures) : Everyone[i] = creatures[i]
      BY <2>1, EveryoneJoint
    <2>3. IsFiniteSet(due)
      <3>1. IsFiniteSet(1 .. Len(Everyone)) /\ due \in SUBSET (1 .. Len(Everyone))
        <4>1. Len(Everyone) \in Int
          BY <2>2
        <4> QED BY <2>2, <4>1, FS_Interval DEF Living
      <3> HIDE DEF due
      <3> QED BY <3>1, FS_Subset
    <2>4. DuePlaces(c) \subseteq due
      <3> SUFFICES ASSUME NEW i \in DuePlaces(c) PROVE i \in due
        OBVIOUS
      <3>1. /\ i \in 1 .. Len(creatures) /\ 0 < turn /\ turn <= i
            /\ creatures[i] \in Seen(c, "prey") \cap Quick
        BY DEF DuePlaces
      <3>2. i \in DOMAIN Everyone /\ Everyone[i] = creatures[i]
        BY <2>1, <2>2, <3>1
      <3> QED BY <3>1, <3>2 DEF Living, Seen, Quick, Beings
    <2>5. Cardinality(DuePlaces(c)) <= Cardinality(due)
      <3> HIDE DEF due
      <3> QED BY <2>3, <2>4, FS_Subset
    <2>6. /\ grid[c].kill <= Cardinality(DuePlaces(c)) /\ grid[c].kill \in Int
          /\ Cardinality(DuePlaces(c)) \in Nat /\ Cardinality(due) \in Nat
      BY <2>1, <2>3, DueFinite, FS_CardinalityType DEF Due
    <2> QED BY <2>5, <2>6
  <1>2. Coverage /\ [Next]_vars => Coverage'
    BY CoverageStep
  <1> QED BY <1>1, <1>2, CoverageInit, PTL DEF Spec
=============================================================================
