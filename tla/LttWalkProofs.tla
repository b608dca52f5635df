---------------------------- MODULE LttWalkProofs ----------------------------
(***************************************************************************)
(* Proofs about the walk of LttDump: the order of a file, and that a dump  *)
(* leaves nothing out.  LttProofs treats a subbuffer by itself; here are   *)
(* the laps of a ring (which subbuffers it holds, and that every unit      *)
(* without a commit out of order is counted by seq), the turns of the loop *)
(* of handle_buffer, and the invariant that joins them.                    *)
(***************************************************************************)
EXTENDS LttProofs, FiniteSetTheorems, WellFoundedInduction

-----------------------------------------------------------------------------
(* Laps.                                                                   *)

\* Numbers less than d apart have different remainders.
LEMMA Apart ==
  ASSUME NEW d \in Nat \ {0}, NEW a \in Nat, NEW b \in Nat, a < b, b - a < d
  PROVE  a % d # b % d
<1> DEFINE j == a \div d
           k == b \div d
           r == a % d
<1>1. j \in Int /\ k \in Int /\ r \in Int /\ a = d * j + r /\ b = d * k + (b % d)
      /\ b % d \in Int
  BY DivMod
<1> SUFFICES ASSUME b % d = r PROVE FALSE
  OBVIOUS
<1>2. b = d * k + r  BY <1>1
<1> HIDE DEF j, k, r
<1>3. b - a = d * k - d * j  BY <1>1, <1>2
<1>4. d * k - d * j = d * (k - j) /\ k - j \in Int  BY <1>1
<1> DEFINE z == k - j
<1>5. z \in Int /\ d * z > 0 /\ d * z < d  BY <1>3, <1>4
<1> HIDE DEF z
<1>6. z > 0
  <2> SUFFICES ASSUME z <= 0 PROVE FALSE
    BY <1>5
  <2>1. d * (-z) >= 0 /\ d * (-z) = -(d * z)  BY <1>5
  <2> QED  BY <2>1, <1>5
<1>7. d * z >= d  BY <1>5, <1>6, Multiple
<1> QED  BY <1>5, <1>7

\* Subbuffer l, counted without wrapping, and its places.
LEMMA LapStart ==
  ASSUME NEW l \in Nat
  PROVE  /\ l * subbuf_size \in Nat /\ (l * subbuf_size) % subbuf_size = 0
         /\ Lap(l * subbuf_size) = l /\ Index(l * subbuf_size) = l % num_subbuf
         /\ l % num_subbuf \in Subbufs
         /\ \A q \in 0..(subbuf_size - 1) : Lap((l * subbuf_size) + q) = l
<1> DEFINE h == l * subbuf_size
<1>1. h \in Nat /\ h = subbuf_size * l + 0  BY Sizes
<1>2. 0 \in 0..(subbuf_size - 1)  BY Sizes
<1>3. (subbuf_size * l + 0) \div subbuf_size = l /\ (subbuf_size * l + 0) % subbuf_size = 0
  BY <1>2, Sizes, DivUnique
<1> HIDE DEF h
<1>4. h \div subbuf_size = l /\ h % subbuf_size = 0  BY <1>1, <1>3
<1>5. Lap(h) = l /\ Index(h) = l % num_subbuf  BY <1>4 DEF Lap, Index
<1>6. Index(h) \in Subbufs  BY <1>1, IndexTyped
<1>7. \A q \in 0..(subbuf_size - 1) : Lap(h + q) = l  BY <1>1, <1>4, <1>5, InSubbuffer
<1> QED  BY <1>1, <1>4, <1>5, <1>6, <1>7 DEF h

\* A position, from its lap and what it has of its subbuffer.
LEMMA LapOf ==
  ASSUME NEW p \in Nat
  PROVE  /\ Lap(p) \in Nat /\ p % subbuf_size \in 0..(subbuf_size - 1)
         /\ p = (Lap(p) * subbuf_size) + (p % subbuf_size)
         /\ Index(p) = Lap(p) % num_subbuf
<1>1. Start(p) = Lap(p) * subbuf_size /\ p - Start(p) = p % subbuf_size /\ Start(p) \in Nat
  BY StartOf
<1>2. p % subbuf_size \in 0..(subbuf_size - 1)  BY Sizes, DivMod
<1> DEFINE s == Start(p)
           m == p % subbuf_size
<1>3. p - s = m /\ s \in Nat /\ m \in Nat  BY <1>1, <1>2
<1> HIDE DEF s, m
<1>4. p = s + m  BY <1>3
<1> QED  BY <1>1, <1>2, <1>4, IndexTyped DEF Lap, Index, s, m

LEMMA Times ==
  ASSUME NEW d \in Nat \ {0}, NEW a \in Nat, NEW b \in Nat
  PROVE  /\ a < b => (a * d) + d <= b * d
         /\ a <= b => a * d <= b * d
<1>1. a * d \in Nat /\ b * d \in Nat /\ (b - a) * d = b * d - a * d  OBVIOUS
<1>2. ASSUME a < b PROVE (a * d) + d <= b * d
  <2> DEFINE z == b - a
  <2>1. z \in Int /\ z > 0  BY <1>2
  <2>2. d * z >= d /\ d * z = z * d  BY <2>1, Multiple
  <2>3. z * d >= d  BY <2>2
  <2> HIDE DEF z
  <2> QED  BY <2>3, <1>1 DEF z
<1>3. ASSUME a <= b PROVE a * d <= b * d
  <2>1. CASE a = b  BY <2>1, <1>1
  <2>2. CASE a # b
    <3>1. a < b  BY <2>2, <1>3
    <3>2. (a * d) + d <= b * d  BY <3>1, <1>2
    <3> QED  BY <3>2, <1>1
  <2> QED  BY <2>1, <2>2
<1> QED  BY <1>2, <1>3

LEMMA LapMonotone ==
  ASSUME NEW p \in Nat, NEW q \in Nat, p <= q PROVE Lap(p) <= Lap(q)
<1> DEFINE a == Lap(p)
           b == Lap(q)
<1>1. /\ a \in Nat /\ b \in Nat
      /\ p % subbuf_size \in 0..(subbuf_size - 1) /\ q % subbuf_size \in 0..(subbuf_size - 1)
      /\ p = (a * subbuf_size) + (p % subbuf_size)
      /\ q = (b * subbuf_size) + (q % subbuf_size)
  BY LapOf
<1> HIDE DEF a, b
<1> SUFFICES ASSUME b < a PROVE FALSE
  BY <1>1 DEF a, b
<1> DEFINE x == a * subbuf_size
           y == b * subbuf_size
           m == p % subbuf_size
           n == q % subbuf_size
<1>2. y + subbuf_size <= x  BY <1>1, Sizes, Times
<1>3. x \in Nat /\ y \in Nat  BY <1>1, Sizes
<1> HIDE DEF x, y, m, n
<1>4. p = x + m /\ q = y + n /\ m \in 0..(subbuf_size - 1) /\ n \in 0..(subbuf_size - 1)
  BY <1>1 DEF x, y, m, n
<1> QED  BY <1>2, <1>3, <1>4, Sizes

\* The subbuffer of the position before o.
LEMMA LapBefore ==
  ASSUME NEW o \in Nat \ {0}
  PROVE  /\ o - 1 \in Nat /\ Lap(o - 1) \in Nat /\ Lap(o) \in Nat
         /\ o % subbuf_size # 0 => Lap(o - 1) = Lap(o)
         /\ o % subbuf_size = 0 => Lap(o) = Lap(o - 1) + 1
<1> DEFINE h == Lap(o) * subbuf_size
           m == o % subbuf_size
<1>1. o - 1 \in Nat  OBVIOUS
<1>2. o = h + m /\ m \in 0..(subbuf_size - 1) /\ Lap(o) \in Nat /\ h \in Nat
      /\ h % subbuf_size = 0 /\ Lap(h) = Lap(o)
  BY LapOf, LapStart
<1>3. ASSUME m # 0 PROVE Lap(o - 1) = Lap(o)
  <2> HIDE DEF m
  <2>1. m - 1 \in 0..(subbuf_size - 1)  BY <1>2, <1>3, Sizes
  <2>2. Lap(h + (m - 1)) = Lap(o)  BY <2>1, <1>2, LapStart
  <2> HIDE DEF h
  <2>3. o - 1 = h + (m - 1)  BY <1>2, <2>1
  <2> QED  BY <2>2, <2>3
<1>4. ASSUME m = 0 PROVE Lap(o) = Lap(o - 1) + 1
  <2> DEFINE l == Lap(o - 1)
             g == l * subbuf_size
             r == (o - 1) % subbuf_size
  <2>1. l \in Nat /\ g \in Nat /\ g % subbuf_size = 0 /\ o - 1 = g + r
        /\ r \in 0..(subbuf_size - 1) /\ Lap(g) = l
    BY <1>1, LapOf, LapStart
  <2>2. Lap(g + subbuf_size) = l + 1 /\ (g + subbuf_size) % subbuf_size = 0
    BY <2>1, NextSubbuffer
  <2>3. o = g + subbuf_size
    <3> SUFFICES ASSUME o # g + subbuf_size PROVE FALSE
      OBVIOUS
    <3> DEFINE w == r + 1
    <3>1. w \in 1..(subbuf_size - 1) /\ o = g + w /\ w \in 0..(subbuf_size - 1)
      <4> HIDE DEF g, r, l
      <4> QED  BY <2>1, Sizes
    <3> HIDE DEF w, g
    <3>2. (g + w) % subbuf_size = w  BY <3>1, <2>1, InSubbuffer
    <3> QED  BY <3>1, <3>2, <1>4
  <2> QED  BY <2>2, <2>3
<1>5. Lap(o - 1) \in Nat  BY <1>1, IndexTyped
<1> QED  BY <1>1, <1>2, <1>3, <1>4, <1>5

\* The laps of which a ring has units when all before position o is reserved.
Oldest(o) == IF Lap(o - 1) < num_subbuf THEN 0 ELSE (Lap(o - 1) - num_subbuf) + 1
Live(o) == Oldest(o)..Lap(o - 1)

LapStarts(b, o) == \A l \in Live(o) : First(b, l % num_subbuf) = l * subbuf_size

Past(b, o) == \A x \in Ring : b.cell[x].pos < o

\* What was written is counted by seq, in a lap without a commit out of order.
Whole(b, o) ==
  \A l \in Live(o), q \in 1..(subbuf_size - 1) :
    /\ b.cell[((l % num_subbuf) * subbuf_size) + q].pos = (l * subbuf_size) + q
    /\ l \notin b.overtaken
    => q < Committed(b, l % num_subbuf)

InLaps(b, o) == LapStarts(b, o) /\ Past(b, o) /\ Whole(b, o)

Lapped(b) ==
  /\ InLaps(b, b.offset)
  /\ b.offset % subbuf_size = 0 => b.data_size[Index(b.offset - 1)] = subbuf_size
  /\ Lap(b.consumed) = Oldest(b.offset)

LEMMA LiveTyped ==
  ASSUME NEW o \in Nat \ {0}
  PROVE  LET t == Lap(o - 1) IN
         /\ t \in Nat /\ Oldest(o) \in 0..t /\ t - Oldest(o) < num_subbuf /\ t \in Live(o)
         /\ \A l \in Live(o) : l \in Nat /\ l <= t /\ t - l < num_subbuf
<1> DEFINE t == Lap(o - 1)
<1>1. t \in Nat  BY LapBefore
<1> HIDE DEF t
<1>2. Oldest(o) = (IF t < num_subbuf THEN 0 ELSE (t - num_subbuf) + 1) /\ Live(o) = Oldest(o)..t
  BY DEF Oldest, Live, t
<1> QED  BY <1>1, <1>2, Sizes DEF t

\* Two laps of the ring are in different subbuffers.
LEMMA LiveApart ==
  ASSUME NEW o \in Nat \ {0}, NEW l \in Live(o), NEW m \in Live(o), l # m
  PROVE  l % num_subbuf # m % num_subbuf
<1> DEFINE t == Lap(o - 1)
<1>1. l \in Nat /\ m \in Nat /\ l <= t /\ m <= t /\ t - l < num_subbuf /\ t - m < num_subbuf
      /\ t \in Nat
  BY LiveTyped
<1> HIDE DEF t
<1>2. CASE l < m
  <2>1. m - l < num_subbuf  BY <1>1, Sizes
  <2> QED  BY <2>1, <1>1, <1>2, Sizes, Apart
<1>3. CASE m < l
  <2>1. l - m < num_subbuf  BY <1>1, Sizes
  <2> QED  BY <2>1, <1>1, <1>3, Sizes, Apart
<1> QED  BY <1>1, <1>2, <1>3

\* Each subbuffer is of a lap of the ring, or not yet used.
LEMMA LiveCover ==
  ASSUME NEW o \in Nat \ {0}, NEW i \in Subbufs
  PROVE  (\E l \in Live(o) : i = l % num_subbuf) \/ Lap(o - 1) < i
<1> DEFINE t == Lap(o - 1)
<1>1. t \in Nat /\ i \in 0..(num_subbuf - 1)  BY LapBefore DEF Subbufs
<1>2. Live(o) = (IF t < num_subbuf THEN 0 ELSE (t - num_subbuf) + 1)..t
  BY DEF Oldest, Live
<1> HIDE DEF t
<1>3. CASE t < num_subbuf
  <2>1. CASE i <= t
    <3>1. i \in Live(o)  BY <1>1, <1>2, <1>3, <2>1
    <3>2. i = i % num_subbuf  BY <1>1, Sizes, ModSmall
    <3> QED  BY <3>1, <3>2
  <2>2. CASE t < i  BY <2>2 DEF t
  <2> QED  BY <1>1, <2>1, <2>2
<1>4. CASE ~ t < num_subbuf
  <2> DEFINE k == (t - i) \div num_subbuf
             m == (t - i) % num_subbuf
  <2>1. k \in Int /\ m \in 0..(num_subbuf - 1) /\ t - i = num_subbuf * k + m
    <3>1. t - i \in Int  BY <1>1
    <3> QED  BY <3>1, Sizes, DivMod
  <2> HIDE DEF k, m
  <2> DEFINE l == t - m
             y == num_subbuf * k
  <2>2. y \in Int  BY <2>1, Sizes
  <2>3. l = y + i
    <3> HIDE DEF y
    <3> QED  BY <1>1, <2>1, <2>2 DEF y
  <2>4. l % num_subbuf = i  BY <2>1, <2>3, <1>1, Sizes, DivUnique
  <2>5. l \in Live(o)  BY <1>1, <1>2, <1>4, <2>1, Sizes
  <2> QED  BY <2>4, <2>5
<1> QED  BY <1>3, <1>4

\* A subbuffer of no lap of the ring is blank.
LEMMA Unused ==
  ASSUME NEW b, NEW o \in Nat \ {0}, Placed(b), Past(b, o), NEW i \in Subbufs, Lap(o - 1) < i
  PROVE  First(b, i) = -1
<1> DEFINE f == First(b, i)
           x == i * subbuf_size
           M == num_subbuf * subbuf_size
<1>1. x \in Ring  BY HeaderInRing
<1>2. f = -1 \/ (f \in Nat /\ f % M = x)  BY <1>1 DEF Placed, First
<1>3. f < o  BY <1>1 DEF Past, First
<1> HIDE DEF f
<1> SUFFICES ASSUME f \in Nat, f % M = x PROVE FALSE
  BY <1>2 DEF f
<1>4. f <= o - 1 /\ o - 1 \in Nat  BY <1>3
<1>5. Lap(f) <= Lap(o - 1) /\ Lap(f) \in Nat /\ Lap(o - 1) \in Nat  BY <1>4, LapMonotone, IndexTyped
<1>6. Lap(f) < i /\ i \in 0..(num_subbuf - 1)
  <2>1. i \in 0..(num_subbuf - 1)  BY DEF Subbufs
  <2> QED  BY <2>1, <1>5
<1>7. Index(f) = Lap(f)
  <2> DEFINE l == Lap(f)
  <2>1. l \in 0..(num_subbuf - 1)  BY <1>5, <1>6, Sizes
  <2> HIDE DEF l
  <2>2. l % num_subbuf = l  BY <2>1, Sizes, ModSmall
  <2> QED  BY <2>2 DEF l, Index, Lap
<1>8. f % M = (Index(f) * subbuf_size) + (f % subbuf_size)  BY PlaceOf
<1>9. f % subbuf_size \in 0..(subbuf_size - 1) /\ Index(f) \in Subbufs /\ 0 \in 0..(subbuf_size - 1)
  <2>1. 0 \in 0..(subbuf_size - 1)  BY Sizes
  <2>2. f % subbuf_size \in 0..(subbuf_size - 1)  BY LapOf
  <2>3. Index(f) \in Subbufs  BY IndexTyped
  <2> QED  BY <2>1, <2>2, <2>3
<1>10. (i * subbuf_size) + 0 = (Index(f) * subbuf_size) + (f % subbuf_size)
  <2>1. x + 0 = x
    <3>1. x \in Nat  BY <1>1 DEF Ring
    <3> HIDE DEF x
    <3> QED  BY <3>1
  <2> QED  BY <2>1, <1>8
<1>11. i = Index(f)  BY <1>9, <1>10, SlotUnique
<1> QED  BY <1>6, <1>7, <1>11

\* The lap of a subbuffer with a header.
LEMMA LapIs ==
  ASSUME NEW b, NEW o \in Nat \ {0}, Placed(b), InLaps(b, o), NEW i \in Subbufs, First(b, i) # -1
  PROVE  \E l \in Live(o) : i = l % num_subbuf /\ First(b, i) = l * subbuf_size
<1>1. PICK l \in Live(o) : i = l % num_subbuf  BY LiveCover, Unused DEF InLaps
<1> QED  BY <1>1 DEF InLaps, LapStarts

\* The place of a unit of a lap.
LEMMA LapPlace ==
  ASSUME NEW l \in Nat, NEW q \in 0..(subbuf_size - 1)
  PROVE  /\ l % num_subbuf \in Subbufs /\ ((l % num_subbuf) * subbuf_size) + q \in Ring
         /\ (l % num_subbuf) * subbuf_size \in Ring
<1> QED  BY LapStart, SlotInRing

LEMMA CommitOvertaken ==
  ASSUME NEW b \in Rings, NEW from, NEW end
  PROVE  Commit(b, from, end).overtaken = b.overtaken
  BY DEF Commit, Deliver, Rings

\* Nothing is written, and what was written stays counted.
LEMMA LapsFrame ==
  ASSUME NEW b, NEW c, NEW o \in Nat \ {0}, NEW p \in Nat \ {0}, o <= p, Lap(p - 1) = Lap(o - 1),
         InLaps(b, o), c.overtaken = b.overtaken, b \in Rings,
         \A x \in Ring : c.cell[x].pos = b.cell[x].pos,
         \A l \in Live(o) : LET i == l % num_subbuf IN
           \/ Committed(c, i) = Committed(b, i)
           \/ \A q \in 1..(subbuf_size - 1) : (l * subbuf_size) + q < o => q < Committed(c, i)
  PROVE  InLaps(c, p)
<1>1. Live(p) = Live(o)  BY DEF Live, Oldest
<1>2. \A l \in Live(o) : l \in Nat  BY LiveTyped
<1>3. LapStarts(c, p)
  <2> SUFFICES ASSUME NEW l \in Live(o) PROVE First(c, l % num_subbuf) = l * subbuf_size
    BY <1>1 DEF LapStarts
  <2>1. l % num_subbuf \in Subbufs  BY <1>2, LapStart
  <2>2. (l % num_subbuf) * subbuf_size \in Ring  BY <2>1, HeaderInRing
  <2> QED  BY <2>2 DEF InLaps, LapStarts, First
<1>4. Past(c, p)
  <2> SUFFICES ASSUME NEW x \in Ring PROVE c.cell[x].pos < p
    BY DEF Past
  <2> DEFINE y == b.cell[x].pos
  <2>1. y \in Int  BY DEF Rings, Unit
  <2>2. y < o /\ c.cell[x].pos = y  BY DEF InLaps, Past
  <2> HIDE DEF y
  <2> QED  BY <2>1, <2>2
<1>5. Whole(c, p)
  <2> SUFFICES ASSUME NEW l \in Live(o), NEW q \in 1..(subbuf_size - 1), l \notin b.overtaken,
                      c.cell[((l % num_subbuf) * subbuf_size) + q].pos = (l * subbuf_size) + q
               PROVE  q < Committed(c, l % num_subbuf)
    BY <1>1 DEF Whole
  <2> DEFINE i == l % num_subbuf
             x == (i * subbuf_size) + q
  <2>1. x \in Ring
    <3>1. q \in 0..(subbuf_size - 1)  BY Sizes
    <3> QED  BY <3>1, <1>2, LapPlace
  <2>2. b.cell[x].pos = (l * subbuf_size) + q  BY <2>1
  <2>3. (l * subbuf_size) + q < o
    <3>1. b.cell[x].pos < o  BY <2>1 DEF InLaps, Past
    <3> QED  BY <2>2, <3>1
  <2>4. q < Committed(b, i)  BY <2>2 DEF InLaps, Whole
  <2> QED  BY <2>3, <2>4
<1> QED  BY <1>3, <1>4, <1>5 DEF InLaps

\* What lap l has below o is less than o % subbuf_size, when o is in it.
LEMMA BelowIn ==
  ASSUME NEW o \in Nat, NEW q \in Nat, (Lap(o) * subbuf_size) + q < o
  PROVE  q < o % subbuf_size
<1> DEFINE h == Lap(o) * subbuf_size
           m == o % subbuf_size
<1>1. o = h + m /\ m \in 0..(subbuf_size - 1)  BY LapOf
<1>2. h \in Nat
  <2>1. Lap(o) \in Nat  BY LapOf
  <2> QED  BY <2>1, LapStart
<1>3. h + q < o  OBVIOUS
<1> HIDE DEF h, m
<1>4. q < m  BY <1>1, <1>2, <1>3, Sizes
<1> QED  BY <1>4 DEF m

LEMMA OldEndLaps ==
  ASSUME NEW b, NEW o, RingInv(b, o), b.offset = o, o % subbuf_size # 0, InLaps(b, o)
  PROVE  LET c == SwitchOldEnd(b)
             a == Start(o) + subbuf_size
         IN  InLaps(c, a) /\ c.overtaken = b.overtaken /\ Lap(a - 1) = Lap(o)
<1> DEFINE c == SwitchOldEnd(b)
           s == Start(o)
           a == s + subbuf_size
           i == Index(o)
           m == o % subbuf_size
           d == [b EXCEPT !.data_size[i] = m]
<1>1. b \in Rings /\ o \in Nat \ {0} /\ o \in Nat  BY DEF RingInv
<1>2. s \in Nat /\ s % subbuf_size = 0 /\ o = s + m /\ m \in 1..(subbuf_size - 1) /\ Lap(s) = Lap(o)
      /\ s = Lap(o) * subbuf_size /\ i \in Subbufs /\ i = Lap(o) % num_subbuf
  <2>1. m \in 0..(subbuf_size - 1) /\ o = (Lap(o) * subbuf_size) + m /\ i = Lap(o) % num_subbuf
    BY <1>1, LapOf
  <2>2. s \in Nat /\ s % subbuf_size = 0 /\ Lap(s) = Lap(o) /\ s = Lap(o) * subbuf_size
    BY <1>1, StartOf
  <2>3. m \in 1..(subbuf_size - 1)
    <3> HIDE DEF m
    <3> QED  BY <2>1, Sizes DEF m
  <2>4. i \in Subbufs  BY <1>1, IndexTyped
  <2> HIDE DEF s, m, i
  <2> QED  BY <2>1, <2>2, <2>3, <2>4
<1>3. align(o, subbuf_size) = a
  <2>1. m \in 1..subbuf_size  BY <1>2, Sizes
  <2> HIDE DEF m, s
  <2> QED  BY <2>1, <1>2, NextStart
<1>4. /\ a \in Nat \ {0} /\ a % subbuf_size = 0 /\ Lap(a) = Lap(o) + 1 /\ o <= a
      /\ Lap(a - 1) = Lap(o) /\ Lap(o - 1) = Lap(o)
  <2>1. Lap(a) = Lap(s) + 1 /\ a % subbuf_size = 0  BY <1>2, NextSubbuffer
  <2>2. a \in Nat \ {0} /\ o <= a
    <3> HIDE DEF s, m
    <3> QED  BY <1>2, Sizes
  <2> HIDE DEF a
  <2>3. Lap(a) = Lap(a - 1) + 1 /\ Lap(a - 1) \in Nat  BY <2>1, <2>2, LapBefore
  <2>4. Lap(o - 1) = Lap(o) /\ Lap(o) \in Nat  BY <1>1, LapBefore
  <2> QED  BY <2>1, <2>2, <2>3, <2>4, <1>2
<1>5. c = Commit(d, o, a)  BY <1>3 DEF SwitchOldEnd
<1>6. d \in Rings /\ d.seq = b.seq /\ d.cc = b.cc /\ d.cell = b.cell /\ d.overtaken = b.overtaken
      /\ d.data_size = [b.data_size EXCEPT ![i] = m]
  <2>1. m \in 0..subbuf_size  BY <1>2, Sizes
  <2> HIDE DEF m, i
  <2> QED  BY <1>1, <1>2, <2>1 DEF Rings
<1> HIDE DEF c, a, d
<1>7. AfterCommit(d, o, a, c)  BY <1>1, <1>4, <1>5, <1>6, CommitEffect
<1>8. /\ c.data_size = [b.data_size EXCEPT ![i] = m]
      /\ \E cc \in 0..(subbuf_size - 1) :
           c.seq = [b.seq EXCEPT ![i] = IF 0 = cc THEN cc ELSE @]
      /\ \A x \in Ring : c.cell[x].pos = b.cell[x].pos
  <2> HIDE DEF i, m
  <2> QED  BY <1>4, <1>6, <1>7 DEF AfterCommit, i
<1>9. c.overtaken = b.overtaken  BY <1>5, <1>6, CommitOvertaken
<1>10. b.seq \in [Subbufs -> 0..(subbuf_size - 1)] /\ b.data_size \in [Subbufs -> 0..subbuf_size]
  BY <1>1 DEF Rings
<1>11. b.seq[i] # 0
  <2>1. Current(o, i)  BY DEF Current
  <2>2. First(b, i) = s  BY <2>1, <1>2 DEF RingInv, Slot, Started
  <2>3. First(b, i) # -1
    <3> HIDE DEF s
    <3> QED  BY <2>2, <1>2
  <2> QED  BY <2>1, <2>3, <1>2 DEF RingInv, Slot, Readable
<1>12. \A j \in Subbufs \ {i} : Committed(c, j) = Committed(b, j)
  <2> HIDE DEF i, m
  <2> QED  BY <1>8, <1>10 DEF Committed
<1>13. Committed(c, i) = Committed(b, i) \/ Committed(c, i) = m
  <2> HIDE DEF i, m
  <2> QED  BY <1>2, <1>8, <1>10, <1>11 DEF Committed
<1>14. ASSUME NEW l \in Live(o)
       PROVE  LET j == l % num_subbuf IN
              \/ Committed(c, j) = Committed(b, j)
              \/ \A q \in 1..(subbuf_size - 1) : (l * subbuf_size) + q < o => q < Committed(c, j)
  <2>1. l \in Nat /\ Lap(o) \in Live(o) /\ l % num_subbuf \in Subbufs
    BY <1>1, <1>4, LiveTyped, LapStart
  <2>2. CASE l = Lap(o)
    <3>1. l % num_subbuf = i  BY <1>2, <2>2
    <3>2. ASSUME NEW q \in 1..(subbuf_size - 1), (l * subbuf_size) + q < o PROVE q < m
      <4>1. q \in Nat  BY Sizes
      <4> QED  BY <4>1, <3>2, <2>2, <1>1, BelowIn
    <3> HIDE DEF m, i
    <3> QED  BY <3>1, <3>2, <1>13
  <2>3. CASE l # Lap(o)
    <3>1. l % num_subbuf # i  BY <1>1, <1>2, <2>1, <2>3, LiveApart
    <3> QED  BY <3>1, <2>1, <1>12
  <2> QED  BY <2>2, <2>3
<1>15. InLaps(c, a)
  <2> HIDE DEF i, m
  <2> QED  BY <1>1, <1>4, <1>8, <1>9, <1>14, LapsFrame
<1> QED  BY <1>4, <1>9, <1>15 DEF c, a

LEMMA AddLaps ==
  ASSUME NEW b, NEW g, RingInv(b, g), g % subbuf_size # 0, InLaps(b, g),
         NEW k \in Nat \ {0}, (g % subbuf_size) + k <= subbuf_size, NEW q
  PROVE  LET c == Reserved(b, g, k, q)
         IN  /\ InLaps(c, g + k) /\ c.overtaken = b.overtaken /\ Lap((g + k) - 1) = Lap(g)
             /\ (g + k) % subbuf_size = 0 => c.data_size[Index((g + k) - 1)] = subbuf_size
<1> DEFINE c == Reserved(b, g, k, q)
           i == Index(g)
           m == g % subbuf_size
           s == Lap(g) * subbuf_size
           e == g + k
<1>1. b \in Rings /\ g \in Nat \ {0} /\ g \in Nat  BY DEF RingInv
<1>2. s \in Nat /\ s % subbuf_size = 0 /\ g = s + m /\ m \in 1..(subbuf_size - 1)
      /\ i \in Subbufs /\ i = Lap(g) % num_subbuf /\ Lap(g) \in Nat /\ Lap(g - 1) = Lap(g)
  <2>1. m \in 0..(subbuf_size - 1) /\ g = s + m /\ Lap(g) \in Nat /\ i = Lap(g) % num_subbuf
    BY <1>1, LapOf
  <2>2. s \in Nat /\ s % subbuf_size = 0  BY <2>1, LapStart
  <2>3. m \in 1..(subbuf_size - 1)
    <3> HIDE DEF m
    <3> QED  BY <2>1, Sizes DEF m
  <2>4. i \in Subbufs /\ Lap(g - 1) = Lap(g)  BY <1>1, IndexTyped, LapBefore
  <2> HIDE DEF s, m, i
  <2> QED  BY <2>1, <2>2, <2>3, <2>4
<1>3. e \in Nat \ {0} /\ g <= e /\ Lap(e - 1) = Lap(g) /\ Index(e - 1) = i
  <2> DEFINE r == (m + k) - 1
  <2>1. r \in 0..(subbuf_size - 1) /\ e - 1 = s + r /\ e \in Nat \ {0} /\ g <= e
    <3>1. m + k <= subbuf_size  OBVIOUS
    <3> HIDE DEF s, m
    <3> QED  BY <1>1, <1>2, <3>1, Sizes
  <2> HIDE DEF r
  <2>2. Lap(s + r) = Lap(g)  BY <2>1, <1>2, LapStart
  <2> HIDE DEF e, s
  <2>3. Lap(e - 1) = Lap(g)  BY <2>1, <2>2
  <2> QED  BY <2>1, <2>3 DEF Index, Lap
<1>4. /\ c.cell = b.cell /\ c.seq = b.seq /\ c.overtaken = b.overtaken
      /\ c.data_size = [b.data_size EXCEPT ![i] = IF e % subbuf_size = 0 THEN subbuf_size ELSE @]
  <2> HIDE DEF i, e
  <2> QED  BY <1>1 DEF Reserved, Rings, i, e
<1> HIDE DEF c, e
<1>5. b.seq \in [Subbufs -> 0..(subbuf_size - 1)] /\ b.data_size \in [Subbufs -> 0..subbuf_size]
  BY <1>1 DEF Rings
<1>6. b.seq[i] # 0
  <2>1. Current(g, i)  BY DEF Current
  <2>2. First(b, i) = Start(g) /\ Start(g) \in Nat  BY <2>1, <1>1, <1>2, StartOf DEF RingInv, Slot, Started
  <2>3. First(b, i) # -1  BY <2>2
  <2> QED  BY <2>1, <2>3, <1>2 DEF RingInv, Slot, Readable
<1>7. ASSUME NEW l \in Live(g) PROVE Committed(c, l % num_subbuf) = Committed(b, l % num_subbuf)
  <2>1. l % num_subbuf \in Subbufs  BY <1>1, LiveTyped, LapStart
  <2> HIDE DEF i
  <2> QED  BY <2>1, <1>4, <1>5, <1>6 DEF Committed
<1>8. InLaps(c, e)
  <2> HIDE DEF i, m
  <2> QED  BY <1>1, <1>2, <1>3, <1>4, <1>7, LapsFrame
<1>9. e % subbuf_size = 0 => c.data_size[i] = subbuf_size
  <2> HIDE DEF i
  <2> QED  BY <1>2, <1>4, <1>5
<1> QED  BY <1>3, <1>4, <1>8, <1>9 DEF c, e

LEMMA NewStartLaps ==
  ASSUME NEW b, NEW a \in Nat \ {0}, b \in Rings, a % subbuf_size = 0, InLaps(b, a), Placed(b)
  PROVE  LET c == SwitchNewStart(b, a)
         IN  InLaps(c, a + 1) /\ c.overtaken = b.overtaken /\ Lap((a + 1) - 1) = Lap(a)
<1> DEFINE c == SwitchNewStart(b, a)
           i == Index(a)
           x0 == i * subbuf_size
           d == [b EXCEPT !.cell[x0] = Plain(a)]
           t == Lap(a)
<1>1. /\ a \in Nat /\ a + 1 \in Nat \ {0} /\ (a + 1) - 1 = a /\ a <= a + 1 /\ t \in Nat
      /\ i \in Subbufs /\ i = t % num_subbuf /\ x0 \in Ring /\ a = t * subbuf_size
      /\ t = Lap(a - 1) + 1 /\ Lap(a - 1) \in Nat
  <2>1. a \in Nat /\ a + 1 \in Nat \ {0} /\ (a + 1) - 1 = a /\ a <= a + 1  OBVIOUS
  <2>2. t \in Nat /\ i = t % num_subbuf /\ a = (t * subbuf_size) + (a % subbuf_size)
    BY <2>1, LapOf
  <2>3. t * subbuf_size \in Nat  BY <2>2, LapStart
  <2>4. a = t * subbuf_size
    <3> DEFINE y == t * subbuf_size
    <3> HIDE DEF y, t
    <3> QED  BY <2>2, <2>3 DEF y
  <2>5. i \in Subbufs /\ x0 \in Ring  BY <2>1, IndexTyped, HeaderInRing
  <2>6. t = Lap(a - 1) + 1 /\ Lap(a - 1) \in Nat  BY LapBefore
  <2> QED  BY <2>1, <2>2, <2>4, <2>5, <2>6
<1>2. c = Commit(d, a, a + 1)  BY DEF SwitchNewStart
<1>3. d \in Rings /\ d.seq = b.seq /\ d.cc = b.cc /\ d.overtaken = b.overtaken
      /\ d.data_size = b.data_size /\ d.cell = [b.cell EXCEPT ![x0] = Plain(a)]
  <2>1. Plain(a) \in Unit  BY DEF Plain, Unit
  <2> HIDE DEF x0
  <2> QED  BY <1>1, <2>1 DEF Rings
<1> HIDE DEF c, d
<1>4. AfterCommit(d, a, a + 1, c)  BY <1>1, <1>2, <1>3, CommitEffect
<1>5. c.data_size = b.data_size /\ \E s : c.seq = [b.seq EXCEPT ![i] = s]
  <2> HIDE DEF i
  <2> QED  BY <1>3, <1>4 DEF AfterCommit, i
<1>6. \A x \in Ring : c.cell[x].pos = IF x = x0 THEN a ELSE b.cell[x].pos
  <2>1. \A x \in Ring : c.cell[x].pos = d.cell[x].pos  BY <1>4 DEF AfterCommit
  <2>2. b.cell \in [Ring -> Unit]  BY DEF Rings
  <2> HIDE DEF x0
  <2> QED  BY <2>1, <2>2, <1>3 DEF Plain
<1>7. c.overtaken = b.overtaken  BY <1>2, <1>3, CommitOvertaken
<1>8. \A j \in Subbufs \ {i} : Committed(c, j) = Committed(b, j)
  <2>1. b.seq \in [Subbufs -> 0..(subbuf_size - 1)]  BY DEF Rings
  <2> HIDE DEF i
  <2> QED  BY <2>1, <1>5 DEF Committed
<1>9. ASSUME NEW l \in Live(a + 1)
      PROVE  /\ l \in Nat
             /\ l # t => /\ l \in Live(a) /\ l % num_subbuf \in Subbufs \ {i}
                         /\ \A q \in 0..(subbuf_size - 1) :
                              LET x == ((l % num_subbuf) * subbuf_size) + q IN x \in Ring /\ x # x0
  <2>1. l \in Nat /\ l <= t /\ t \in Live(a + 1)  BY <1>1, LiveTyped
  <2> SUFFICES ASSUME l # t
               PROVE  /\ l \in Live(a) /\ l % num_subbuf \in Subbufs \ {i}
                      /\ \A q \in 0..(subbuf_size - 1) :
                           LET x == ((l % num_subbuf) * subbuf_size) + q IN x \in Ring /\ x # x0
    BY <2>1
  <2>2. l % num_subbuf # i  BY <1>1, <2>1, LiveApart
  <2>3. l % num_subbuf \in Subbufs  BY <2>1, LapStart
  <2>4. l \in Live(a)
    <3> DEFINE u == Lap(a - 1)
    <3>1. /\ Live(a) = (IF u < num_subbuf THEN 0 ELSE (u - num_subbuf) + 1)..u
          /\ Live(a + 1) = (IF t < num_subbuf THEN 0 ELSE (t - num_subbuf) + 1)..t
      BY <1>1 DEF Live, Oldest
    <3>2. t = u + 1 /\ u \in Nat  BY <1>1
    <3> HIDE DEF u, t
    <3> QED  BY <3>1, <3>2, <2>1, Sizes
  <2>5. ASSUME NEW q \in 0..(subbuf_size - 1)
        PROVE  LET x == ((l % num_subbuf) * subbuf_size) + q IN x \in Ring /\ x # x0
    <3>1. ((l % num_subbuf) * subbuf_size) + q \in Ring  BY <2>1, LapPlace
    <3> SUFFICES ASSUME ((l % num_subbuf) * subbuf_size) + q = x0 PROVE FALSE
      BY <3>1
    <3>2. x0 + 0 = x0
      <4>1. x0 \in Nat  BY <1>1 DEF Ring
      <4> HIDE DEF x0
      <4> QED  BY <4>1
    <3>3. ((l % num_subbuf) * subbuf_size) + q = (i * subbuf_size) + 0  BY <3>2
    <3>4. 0 \in 0..(subbuf_size - 1)  BY Sizes
    <3>5. l % num_subbuf = i  BY <3>3, <3>4, <2>3, <1>1, SlotUnique
    <3> QED  BY <3>5, <2>2
  <2> QED  BY <2>2, <2>3, <2>4, <2>5
<1>10. LapStarts(c, a + 1)
  <2> SUFFICES ASSUME NEW l \in Live(a + 1) PROVE First(c, l % num_subbuf) = l * subbuf_size
    BY DEF LapStarts
  <2>1. CASE l = t
    <3>1. (l % num_subbuf) * subbuf_size = x0  BY <2>1, <1>1
    <3> QED  BY <3>1, <2>1, <1>1, <1>6 DEF First
  <2>2. CASE l # t
    <3>1. l \in Live(a)  BY <1>9, <2>2
    <3>2. (l % num_subbuf) * subbuf_size \in Ring /\ (l % num_subbuf) * subbuf_size # x0
      <4>1. 0 \in 0..(subbuf_size - 1)  BY Sizes
      <4>2. ((l % num_subbuf) * subbuf_size) + 0 # x0  BY <4>1, <1>9, <2>2
      <4>3. (l % num_subbuf) * subbuf_size \in Ring  BY <1>9, LapStart, HeaderInRing
      <4> DEFINE y == (l % num_subbuf) * subbuf_size
      <4>4. y \in Nat  BY <4>3 DEF Ring
      <4> HIDE DEF y
      <4>5. y + 0 = y  BY <4>4
      <4> QED  BY <4>2, <4>3, <4>5 DEF y
    <3>3. First(c, l % num_subbuf) = First(b, l % num_subbuf)  BY <3>2, <1>6 DEF First
    <3> QED  BY <3>1, <3>3 DEF InLaps, LapStarts
  <2> QED  BY <2>1, <2>2
<1>11. Past(c, a + 1)
  <2> SUFFICES ASSUME NEW x \in Ring PROVE c.cell[x].pos < a + 1
    BY DEF Past
  <2> DEFINE y == b.cell[x].pos
  <2>1. y \in Int  BY DEF Rings, Unit
  <2>2. y < a  BY DEF InLaps, Past
  <2>3. c.cell[x].pos = a \/ c.cell[x].pos = y  BY <1>6
  <2> HIDE DEF y
  <2> QED  BY <2>1, <2>2, <2>3
<1>12. Whole(c, a + 1)
  <2> SUFFICES ASSUME NEW l \in Live(a + 1), NEW q \in 1..(subbuf_size - 1), l \notin b.overtaken,
                      c.cell[((l % num_subbuf) * subbuf_size) + q].pos = (l * subbuf_size) + q
               PROVE  q < Committed(c, l % num_subbuf)
    BY <1>7 DEF Whole
  <2>1. q \in 0..(subbuf_size - 1) /\ q > 0  BY Sizes
  <2>2. CASE l = t
    <3> DEFINE x == ((l % num_subbuf) * subbuf_size) + q
    <3>1. x \in Ring  BY <1>9, <2>1, LapPlace
    <3>2. c.cell[x].pos = a + q  BY <1>1, <2>2
    <3>3. c.cell[x].pos < a + 1  BY <3>1, <1>11 DEF Past
    <3> HIDE DEF x
    <3> QED  BY <3>2, <3>3, <2>1
  <2>3. CASE l # t
    <3>1. /\ l \in Live(a) /\ l % num_subbuf \in Subbufs \ {i}
          /\ c.cell[((l % num_subbuf) * subbuf_size) + q].pos
               = b.cell[((l % num_subbuf) * subbuf_size) + q].pos
      BY <1>6, <1>9, <2>1, <2>3
    <3>2. q < Committed(b, l % num_subbuf)  BY <3>1 DEF InLaps, Whole
    <3> QED  BY <3>1, <3>2, <1>8
  <2> QED  BY <2>2, <2>3
<1>13. InLaps(c, a + 1)  BY <1>10, <1>11, <1>12 DEF InLaps
<1> QED  BY <1>1, <1>7, <1>13 DEF c

\* `consumed' follows `offset'.
LEMMA PushedIs ==
  ASSUME NEW b, NEW o \in Nat \ {0}, NEW e \in Nat \ {0}, b.consumed \in Nat,
         b.consumed % subbuf_size = 0, Lap(b.consumed) = Oldest(o),
         Lap(e - 1) \in {Lap(o - 1), Lap(o - 1) + 1}
  PROVE  Lap(Pushed(b, e)) = Oldest(e)
<1> DEFINE t == Lap(o - 1)
           u == Lap(e - 1)
           C == Lap(b.consumed)
<1>1. t \in Nat /\ u \in Nat /\ u \in {t, t + 1} /\ C \in Nat
      /\ Lap(b.consumed + subbuf_size) = C + 1
  BY LapBefore, IndexTyped, NextSubbuffer
<1>2. C = IF t < num_subbuf THEN 0 ELSE (t - num_subbuf) + 1  BY DEF Oldest
<1>3. Oldest(e) = IF u < num_subbuf THEN 0 ELSE (u - num_subbuf) + 1  BY DEF Oldest
<1>4. Lap(Pushed(b, e)) = IF u - C >= num_subbuf THEN C + 1 ELSE C  BY <1>1 DEF Pushed
<1> HIDE DEF t, u, C
<1> QED  BY <1>1, <1>2, <1>3, <1>4, Sizes

\* How far a reservation goes.
LEMMA EndLap ==
  ASSUME NEW o \in Nat \ {0}, NEW b, b.offset = o, NEW k \in RecordSizes
  PROVE  LET g == Begin(b, k)  e == g + k IN
         /\ g \in Nat \ {0} /\ e \in Nat \ {0} /\ o <= g /\ o < e /\ k \in Nat \ {0}
         /\ g % subbuf_size # 0 /\ (g % subbuf_size) + k <= subbuf_size
         /\ Fits(b, k) => g = o /\ Lap(e - 1) = Lap(o - 1)
         /\ ~ Fits(b, k) => /\ g - 1 = align(o, subbuf_size) /\ (g - 1) % subbuf_size = 0
                            /\ g - 1 \in Nat \ {0} /\ Lap(e - 1) = Lap(o - 1) + 1
                            /\ (g - 1) + 1 = g /\ o <= g - 1 /\ Lap((g - 1) - 1) = Lap(o - 1)
                            /\ Lap(g) = Lap(o - 1) + 1
<1> DEFINE g == Begin(b, k)
           e == g + k
<1>1. k \in 1..(subbuf_size - 1)  BY LttAssumption
<1>2. CASE Fits(b, k)
  <2>1. g = o /\ o % subbuf_size # 0 /\ (o % subbuf_size) + k <= subbuf_size
    BY <1>2 DEF Begin, Fits
  <2> DEFINE m == o % subbuf_size
             h == Lap(o) * subbuf_size
  <2>2. Lap(o) \in Nat /\ m \in 0..(subbuf_size - 1) /\ o = h + m  BY LapOf
  <2>3. h \in Nat  BY <2>2, LapStart
  <2>4. m + k <= subbuf_size /\ m # 0  BY <2>1
  <2> DEFINE r == (m + k) - 1
  <2> HIDE DEF m, h
  <2>5. r \in 0..(subbuf_size - 1) /\ (o + k) - 1 = h + r /\ o + k \in Nat \ {0} /\ o < o + k
        /\ o <= o /\ k \in Nat \ {0}
    BY <2>2, <2>3, <2>4, <1>1, Sizes
  <2> HIDE DEF r
  <2>6. Lap(h + r) = Lap(o)  BY <2>2, <2>5, LapStart DEF h
  <2>7. Lap(o - 1) = Lap(o)  BY <2>4, LapBefore DEF m
  <2> HIDE DEF g
  <2> QED  BY <2>1, <2>5, <2>6, <2>7, <1>2 DEF g
<1>3. CASE ~ Fits(b, k)
  <2> DEFINE a == align(o, subbuf_size)
             m == o % subbuf_size
             h == Lap(o) * subbuf_size
             t == Lap(o - 1)
  <2>1. g = a + 1  BY <1>3 DEF Begin
  <2>2. Lap(o) \in Nat /\ m \in 0..(subbuf_size - 1) /\ o = h + m /\ t \in Nat
    BY LapOf, LapBefore
  <2>3. h \in Nat /\ h % subbuf_size = 0 /\ Lap(h) = Lap(o)  BY <2>2, LapStart
  <2>4. a \in Nat /\ a % subbuf_size = 0 /\ o <= a /\ Lap(a) = t + 1
    <3>1. CASE m = 0
      <4>1. a = o  BY <3>1, AlignStart
      <4>2. Lap(o) = t + 1  BY <3>1, LapBefore
      <4> QED  BY <4>1, <4>2, <3>1
    <3>2. CASE m # 0
      <4>1. m \in 1..subbuf_size
        <5> HIDE DEF m
        <5> QED  BY <2>2, <3>2, Sizes
      <4>2. align(h + m, subbuf_size) = h + subbuf_size
        <5> HIDE DEF m, h
        <5> QED  BY <4>1, <2>3, NextStart
      <4>3. a = h + subbuf_size  BY <2>2, <4>2
      <4>4. Lap(h + subbuf_size) = Lap(h) + 1 /\ (h + subbuf_size) % subbuf_size = 0
        BY <2>3, NextSubbuffer
      <4>5. t = Lap(o)  BY <3>2, LapBefore
      <4>6. h + subbuf_size \in Nat /\ h + m <= h + subbuf_size
        <5> HIDE DEF h, m
        <5> QED  BY <2>2, <2>3, Sizes
      <4> QED  BY <4>3, <4>4, <4>5, <4>6, <2>2, <2>3
    <3> QED  BY <3>1, <3>2
  <2> HIDE DEF a, t
  <2>5. a \in Nat \ {0} /\ (a + 1) - 1 = a /\ a + 1 \in Nat \ {0} /\ o <= a + 1
        /\ (a + 1) + k \in Nat \ {0} /\ o < (a + 1) + k /\ k \in Nat \ {0}
    BY <2>4, <1>1, Sizes
  <2>6. \A q \in 0..(subbuf_size - 1) : (a + q) % subbuf_size = q /\ Lap(a + q) = t + 1
    <3> SUFFICES ASSUME NEW q \in 0..(subbuf_size - 1)
                 PROVE  (a + q) % subbuf_size = q /\ Lap(a + q) = t + 1
      OBVIOUS
    <3>1. (a + q) % subbuf_size = q /\ Lap(a + q) = Lap(a)  BY <2>4, InSubbuffer
    <3> QED  BY <3>1, <2>4
  <2>7. 1 \in 0..(subbuf_size - 1) /\ k \in 0..(subbuf_size - 1) /\ ((a + 1) + k) - 1 = a + k
        /\ 1 + k <= subbuf_size
    BY <2>4, <1>1, Sizes
  <2>8. (a + 1) % subbuf_size = 1 /\ Lap(a + 1) = t + 1 /\ Lap(a + k) = t + 1  BY <2>6, <2>7
  <2>9. Lap(a - 1) = t
    <3>1. Lap(a) = Lap(a - 1) + 1 /\ Lap(a - 1) \in Nat  BY <2>4, <2>5, LapBefore
    <3> QED  BY <3>1, <2>4, <2>2 DEF t
  <2> HIDE DEF g
  <2> QED  BY <2>1, <2>4, <2>5, <2>7, <2>8, <2>9, <1>3 DEF a, t, g
<1> QED  BY <1>2, <1>3

LEMMA ReserveLaps ==
  ASSUME NEW b, RingInv(b, b.offset), Len(b.pending) <= 1, NEW k \in RecordSizes,
         ~ Fits(b, k) => b.cc[Index(Begin(b, k))] = 0,
         Lapped(b), b.consumed % subbuf_size = 0
  PROVE  LET begin == Begin(b, k)
             end   == begin + k
             moved == IF Fits(b, k) THEN b
                      ELSE SwitchNewStart(SwitchOldEnd(b), begin - 1)
         IN  Lapped(Reserved(moved, begin, k, Pushed(b, end)))
<1> DEFINE o == b.offset
           begin == Begin(b, k)
           end == begin + k
           q == Pushed(b, end)
           moved == IF Fits(b, k) THEN b
                    ELSE SwitchNewStart(SwitchOldEnd(b), begin - 1)
           c == Reserved(moved, begin, k, q)
<1>1. b \in Rings /\ o \in Nat \ {0} /\ b.consumed \in Nat  BY DEF RingInv, Rings
<1>2. /\ begin \in Nat \ {0} /\ end \in Nat \ {0} /\ k \in Nat \ {0}
      /\ begin % subbuf_size # 0 /\ (begin % subbuf_size) + k <= subbuf_size
      /\ Lap(end - 1) \in {Lap(o - 1), Lap(o - 1) + 1}
      /\ Fits(b, k) => begin = o
      /\ ~ Fits(b, k) => /\ begin - 1 = align(o, subbuf_size) /\ (begin - 1) % subbuf_size = 0
                         /\ begin - 1 \in Nat \ {0} /\ (begin - 1) + 1 = begin
                         /\ Lap((begin - 1) - 1) = Lap(o - 1)
  <2> HIDE DEF o, begin
  <2> QED  BY <1>1, EndLap DEF o, begin
<1>3. RingInv(b, o) /\ InLaps(b, o) /\ Lap(b.consumed) = Oldest(o)
  BY DEF Lapped
<1>4. Lap(q) = Oldest(end)
  <2> HIDE DEF o, end
  <2> QED  BY <1>1, <1>2, <1>3, PushedIs
<1>5. RingInv(c, end) /\ c.offset = end /\ c.consumed = q  BY ReserveStep
<1>6. RingInv(moved, begin) /\ InLaps(moved, begin)
  <2>1. CASE Fits(b, k)  BY <2>1, <1>2, <1>3
  <2>2. CASE ~ Fits(b, k)
    <3> DEFINE a == begin - 1
               b1 == SwitchOldEnd(b)
    <3>1. moved = SwitchNewStart(b1, a) /\ a = align(o, subbuf_size) /\ a % subbuf_size = 0
          /\ a \in Nat \ {0} /\ a + 1 = begin
      BY <2>2, <1>2
    <3> HIDE DEF a
    <3>2. Index(begin) = Index(a) /\ b.cc[Index(a)] = 0
      <4>1. 1 \in 0..(subbuf_size - 1)  BY Sizes
      <4>2. Index(a + 1) = Index(a)  BY <3>1, <4>1, InSubbuffer
      <4> QED  BY <4>2, <3>1, <2>2
    <3>3. RingInv(b1, a) /\ InLaps(b1, a) /\ b1.pending = b.pending /\ b1.cc[Index(a)] = 0
      <4>1. CASE o % subbuf_size = 0
        <5>1. b1 = b /\ a = o  BY <4>1, <1>1, <3>1, AlignStart DEF SwitchOldEnd
        <5> QED  BY <5>1, <1>3, <3>2
      <4>2. CASE o % subbuf_size # 0
        <5> DEFINE s == Start(o) + subbuf_size
        <5>1. /\ align(o, subbuf_size) = s /\ RingInv(b1, s) /\ b1.pending = b.pending
              /\ \A j \in Subbufs \ {Index(o)} : b1.cc[j] = b.cc[j]
              /\ Index(s) # Index(o)
          BY <4>2, OldEndStep
        <5>2. InLaps(b1, s)  BY <4>2, <1>3, OldEndLaps
        <5>3. Index(a) \in Subbufs  BY <3>1, IndexTyped
        <5> HIDE DEF s, b1, o
        <5> QED  BY <5>1, <5>2, <5>3, <3>1, <3>2
      <4> QED  BY <4>1, <4>2
    <3> HIDE DEF b1, moved, begin
    <3>4. RingInv(moved, a + 1)
      <4>1. Len(b1.pending) <= 1  BY <3>3
      <4> QED  BY <4>1, <3>1, <3>3, NewStartStep
    <3>5. InLaps(moved, a + 1)
      <4>1. b1 \in Rings /\ Placed(b1)  BY <3>3 DEF RingInv
      <4> QED  BY <4>1, <3>1, <3>3, NewStartLaps
    <3> QED  BY <3>1, <3>4, <3>5
  <2> QED  BY <2>1, <2>2
<1> HIDE DEF moved, q, begin
<1>7. /\ InLaps(c, end)
      /\ end % subbuf_size = 0 => c.data_size[Index(end - 1)] = subbuf_size
  BY <1>2, <1>6, AddLaps
<1>8. Lapped(c)
  <2> HIDE DEF c, end
  <2> QED  BY <1>4, <1>5, <1>7 DEF Lapped
<1> QED  BY <1>8 DEF moved, q, begin

\* When the last record of a ring is committed in order, seq gets to its end.
LEMMA CommittedLast ==
  ASSUME NEW b, RingInv(b, b.offset), Len(b.pending) > 0, NEW c, AfterLast(b, c), Lapped(b),
         b.pending[Len(b.pending)].end = b.offset,
         \A k \in 1..(Len(b.pending) - 1) :
           Lap(b.pending[k].from) # Lap(b.pending[Len(b.pending)].from)
  PROVE  LET r == b.pending[Len(b.pending)]
             i == Index(r.from)
         IN  Start(r.from) + Committed(c, i) = b.offset
<1> DEFINE N == Len(b.pending)
           r == b.pending[N]
           i == Index(r.from)
           f == Start(r.from)
           o == b.offset
           m == o % subbuf_size
           z == (b.cc[i] + r.end - r.from) % subbuf_size
           n == r.end - r.from
<1>1. b \in Rings /\ o \in Nat \ {0} /\ RingInv(b, o)  BY DEF RingInv
<1>2. N \in Nat /\ N \in 1..N
  <2>1. b.pending \in Seq(Record)  BY <1>1 DEF Rings
  <2>2. N \in Nat  BY <2>1, LenProperties
  <2> HIDE DEF N
  <2> QED  BY <2>2 DEF N
<1>3. /\ r \in Record /\ i \in Subbufs /\ f \in Nat /\ f % subbuf_size = 0
      /\ First(b, i) = f /\ f < r.from /\ r.from < r.end /\ r.end <= f + Used(b, o, i)
      /\ r.end <= f + subbuf_size /\ r.end = o
  BY <1>1, <1>2, RecordIn
<1>4. r.from \in Nat /\ r.end \in Nat /\ Lap(r.from) = Lap(f) /\ Index(f) = i
  <2>1. r.from \in Nat /\ r.end \in Nat  BY <1>3 DEF Record
  <2> QED  BY <2>1, StartOf
<1>5. Open(b, i) = n
  <2>1. ASSUME NEW k \in 1..(N - 1), Index(b.pending[k].from) = i PROVE FALSE
    <3>1. k \in 1..N  BY <1>2
    <3>2. /\ b.pending[k] \in Record
          /\ First(b, i) = Start(b.pending[k].from)
      BY <3>1, <2>1, <1>1, RecordIn
    <3>3. b.pending[k].from \in Nat  BY <3>2 DEF Record
    <3>4. Lap(Start(b.pending[k].from)) = Lap(b.pending[k].from)  BY <3>3, StartOf
    <3> QED  BY <3>2, <3>4, <1>3, <1>4
  <2>2. N \in {1, 2}
    <3>1. N <= 2  BY DEF RingInv, Nested
    <3> HIDE DEF N
    <3> QED  BY <3>1, <1>2
  <2>3. n \in Nat  BY <1>3, <1>4
  <2>4. CASE N = 1
    <3>1. Size(b, 1, i) = n /\ Size(b, 2, i) = 0  BY <2>4 DEF Size
    <3> HIDE DEF n
    <3> QED  BY <3>1, <2>3 DEF Open
  <2>5. CASE N = 2
    <3>1. 1 \in 1..(N - 1)  BY <2>5
    <3>2. Index(b.pending[1].from) # i  BY <3>1, <2>1
    <3>3. Size(b, 1, i) = 0 /\ Size(b, 2, i) = n  BY <2>5, <3>2 DEF Size
    <3> HIDE DEF n
    <3> QED  BY <3>3, <2>3 DEF Open
  <2> QED  BY <2>2, <2>4, <2>5
<1>6. Counted(b, o, i)  BY <1>1, <1>3 DEF RingInv, Slot
<1>7. c.seq[i] = (IF m = z THEN z ELSE b.seq[i]) /\ c.data_size = b.data_size
  <2>1. b.seq \in [Subbufs -> 0..(subbuf_size - 1)]  BY <1>1 DEF Rings
  <2>2. c.seq = [b.seq EXCEPT ![i] = IF r.end % subbuf_size = z THEN z ELSE @]
        /\ c.data_size = b.data_size
    BY DEF AfterLast
  <2> HIDE DEF i, z
  <2> QED  BY <2>1, <2>2, <1>3
<1>8. z = Used(b, o, i) % subbuf_size
  <2> DEFINE u == Used(b, o, i)
             w == b.cc[i]
  <2>1. u \in Nat  BY <1>1, <1>3, UsedTyped
  <2>2. w = (u - n) % subbuf_size  BY <1>5, <1>6 DEF Counted
  <2>3. w \in 0..(subbuf_size - 1) /\ n \in Int /\ u - n \in Int /\ (u - n) + n = u
    <3>1. w \in 0..(subbuf_size - 1)  BY <1>1, <1>3 DEF Rings
    <3>2. n \in Int  BY <1>4
    <3> HIDE DEF u, n, w
    <3> QED  BY <3>1, <3>2, <2>1
  <2>4. b.cc[i] + r.end - r.from = w + n
    <3> HIDE DEF i, r
    <3> QED  BY <1>4, <2>3
  <2> HIDE DEF u, n, w
  <2>5. (((u - n) % subbuf_size) + n) % subbuf_size = ((u - n) + n) % subbuf_size
    BY <2>3, Sizes, ModSum
  <2>6. (w + n) % subbuf_size = u % subbuf_size  BY <2>2, <2>3, <2>5
  <2> QED  BY <2>4, <2>6 DEF u
<1>9. CASE m # 0
  <2>1. i = Index(o)
    <3> DEFINE d == o - f
    <3>1. f <= o /\ o <= f + subbuf_size  BY <1>1, <1>3, <1>4
    <3>2. o # f + subbuf_size
      <4>1. (f + subbuf_size) % subbuf_size = 0  BY <1>3, NextSubbuffer
      <4> QED  BY <4>1, <1>9
    <3>3. d \in 0..(subbuf_size - 1) /\ f + d = o
      <4> HIDE DEF f, o
      <4> QED  BY <1>1, <1>3, <3>1, <3>2, Sizes
    <3> HIDE DEF d, f, o
    <3>4. Index(f + d) = Index(f)  BY <3>3, <1>3, InSubbuffer
    <3> QED  BY <3>3, <3>4, <1>4
  <2>2. Current(o, i)  BY <2>1, <1>9 DEF Current
  <2>3. Used(b, o, i) = m /\ First(b, i) = Start(o)
    BY <2>2, <1>1, <1>3 DEF Used, RingInv, Slot, Started
  <2>4. m \in 0..(subbuf_size - 1)  BY <1>1, LapOf
  <2>5. z = m
    <3> HIDE DEF m, z
    <3> QED  BY <1>8, <2>3, <2>4, Sizes, ModSmall
  <2>6. Committed(c, i) = m
    <3> HIDE DEF m, z
    <3> QED  BY <2>5, <1>7, <1>9 DEF Committed
  <2>7. Start(o) + m = o
    <3>1. o - Start(o) = o % subbuf_size /\ Start(o) \in Nat  BY <1>1, StartOf
    <3> DEFINE s == Start(o)
    <3>2. o - s = m /\ s \in Nat /\ m \in Nat /\ o \in Nat  BY <3>1, <2>4, <1>1
    <3> HIDE DEF m, s, o
    <3>3. s + m = o  BY <3>2
    <3> QED  BY <3>3 DEF s
  <2> QED  BY <2>3, <2>6, <2>7, <1>3
<1>10. CASE m = 0
  <2>1. ~ Current(o, i)  BY <1>10 DEF Current
  <2>2. First(b, i) # -1
    <3> HIDE DEF f
    <3> QED  BY <1>3
  <2>3. Used(b, o, i) = subbuf_size  BY <2>1, <2>2 DEF Used
  <2>4. z = 0
    <3>1. subbuf_size % subbuf_size = 0
      <4>1. subbuf_size - subbuf_size * 1 = 0 /\ 0 \in 0..(subbuf_size - 1)  BY Sizes
      <4> QED  BY <4>1, Sizes, ModOf
    <3> HIDE DEF z
    <3> QED  BY <3>1, <2>3, <1>8
  <2>5. o = f + subbuf_size
    <3>1. f < o /\ o <= f + subbuf_size  BY <1>1, <1>3, <1>4
    <3>2. f + subbuf_size <= o
      <4> HIDE DEF f, o
      <4> QED  BY <3>1, <1>1, <1>3, <1>10, StartsApart DEF m
    <3> HIDE DEF f, o
    <3> QED  BY <3>1, <3>2, <1>1, <1>3, Sizes
  <2>6. b.data_size[i] = subbuf_size
    <3>1. b.data_size[Index(o - 1)] = subbuf_size  BY <1>10 DEF Lapped
    <3>2. Index(o - 1) = i
      <4> DEFINE d == subbuf_size - 1
      <4>1. d \in 0..(subbuf_size - 1)  BY Sizes
      <4>2. o - 1 = f + d
        <5> HIDE DEF o, f
        <5> QED  BY <2>5, <1>3, Sizes
      <4> HIDE DEF d, f
      <4>3. Index(f + d) = Index(f)  BY <4>1, <1>3, InSubbuffer
      <4> QED  BY <4>2, <4>3, <1>4
    <3> QED  BY <3>1, <3>2
  <2>7. Committed(c, i) = subbuf_size
    <3> HIDE DEF m, z, i
    <3> QED  BY <1>7, <1>10, <2>4, <2>6 DEF Committed
  <2> QED  BY <2>5, <2>7
<1> QED  BY <1>9, <1>10

\* The laps with a commit out of order, after the last record's.
Over(b) ==
  LET r == b.pending[Len(b.pending)]
  IN  IF r.end = b.offset /\ \A i \in 1..(Len(b.pending) - 1) :
           Lap(b.pending[i].from) # Lap(r.from)
      THEN b.overtaken ELSE b.overtaken \cup {Lap(r.from)}

LEMMA CommitLaps ==
  ASSUME NEW b, RingInv(b, b.offset), Len(b.pending) > 0, Lapped(b)
  PROVE  LET r == b.pending[Len(b.pending)]
             c == Commit(Written(b, r, Over(b)), r.from, r.end)
         IN  Lapped(c) /\ c.overtaken = Over(b)
<1> DEFINE N == Len(b.pending)
           r == b.pending[N]
           i == Index(r.from)
           f == Start(r.from)
           o == b.offset
           over == Over(b)
           w == Written(b, r, over)
           c == Commit(w, r.from, r.end)
<1>1. b \in Rings /\ o \in Nat \ {0} /\ RingInv(b, o)  BY DEF RingInv
<1>2. N \in Nat /\ N \in 1..N
  <2>1. b.pending \in Seq(Record)  BY <1>1 DEF Rings
  <2>2. N \in Nat  BY <2>1, LenProperties
  <2> HIDE DEF N
  <2> QED  BY <2>2 DEF N
<1>3. /\ r \in Record /\ i \in Subbufs /\ f \in Nat /\ f % subbuf_size = 0
      /\ First(b, i) = f /\ f < r.from /\ r.from < r.end /\ r.end <= o
  <2>1. Pending(b, o, N)  BY <1>1, <1>2 DEF RingInv
  <2> QED  BY <2>1, <1>1, <1>2, RecordIn DEF Pending
<1>4. r.from \in Nat /\ r.end \in Nat /\ Lap(r.from) = Lap(f) /\ Lap(f) \in Nat
  <2>1. r.from \in Nat /\ r.end \in Nat  BY <1>3 DEF Record
  <2> QED  BY <2>1, <1>3, StartOf, IndexTyped
<1>5. over \in SUBSET Nat /\ b.overtaken \subseteq over
  <2>1. b.overtaken \in SUBSET Nat /\ Lap(r.from) \in Nat  BY <1>1, <1>4 DEF Rings
  <2>2. over = b.overtaken \/ over = b.overtaken \cup {Lap(r.from)}  BY DEF Over
  <2> HIDE DEF over
  <2> QED  BY <2>1, <2>2
<1> HIDE DEF over
<1>6. AfterLast(b, c)  BY <1>1, <1>5, CommitChanges
<1>7. c.overtaken = over
  <2>1. w \in Rings  BY <1>1, <1>5, WrittenEffect
  <2>2. w.overtaken = over  BY <1>1 DEF Written, Rings
  <2> HIDE DEF w
  <2> QED  BY <2>1, <2>2, CommitOvertaken
<1> HIDE DEF c
<1>8. /\ c.offset = o /\ c.consumed = b.consumed /\ c.data_size = b.data_size
      /\ \A j \in Subbufs : First(c, j) = First(b, j)
      /\ \A j \in Subbufs \ {i} : c.seq[j] = b.seq[j]
      /\ \A j \in Subbufs, q \in 0..(subbuf_size - 1) :
           c.cell[(j * subbuf_size) + q].pos =
             IF j = i /\ f + q \in r.from..(r.end - 1) THEN f + q
             ELSE b.cell[(j * subbuf_size) + q].pos
  <2>1. b.seq \in [Subbufs -> 0..(subbuf_size - 1)]  BY <1>1 DEF Rings
  <2>2. \E z : c.seq = [b.seq EXCEPT ![i] = z]
    <3> HIDE DEF i, r
    <3> QED  BY <1>6 DEF AfterLast, r, i, N
  <2>3. \A j \in Subbufs \ {i} : c.seq[j] = b.seq[j]
    <3> HIDE DEF i
    <3> QED  BY <2>1, <2>2
  <2> QED  BY <1>6, <2>3 DEF AfterLast
<1>9. LapStarts(c, o)
  <2>1. \A l \in Live(o) : l % num_subbuf \in Subbufs  BY <1>1, LiveTyped, LapStart
  <2> QED  BY <2>1, <1>8 DEF Lapped, InLaps, LapStarts
<1>10. Past(c, o)
  <2> SUFFICES ASSUME NEW x \in Ring PROVE c.cell[x].pos < o
    BY DEF Past
  <2>1. PICK j \in Subbufs, q \in 0..(subbuf_size - 1) : x = (j * subbuf_size) + q
    BY RingIsSlots
  <2>2. CASE j = i /\ f + q \in r.from..(r.end - 1)
    <3>1. c.cell[x].pos = f + q  BY <2>1, <2>2, <1>8
    <3> DEFINE y == f + q
    <3>2. y \in r.from..(r.end - 1) /\ y \in Int  BY <2>2, <1>3, <1>4
    <3> HIDE DEF y
    <3>3. y < o  BY <3>2, <1>3, <1>4, <1>1
    <3> QED  BY <3>1, <3>3 DEF y
  <2>3. CASE ~ (j = i /\ f + q \in r.from..(r.end - 1))
    <3>1. c.cell[x].pos = b.cell[x].pos  BY <2>1, <2>3, <1>8
    <3> QED  BY <3>1 DEF Lapped, InLaps, Past
  <2> QED  BY <2>2, <2>3
<1>11. Whole(c, o)
  <2> SUFFICES ASSUME NEW l \in Live(o), NEW q \in 1..(subbuf_size - 1), l \notin over,
                      c.cell[((l % num_subbuf) * subbuf_size) + q].pos = (l * subbuf_size) + q
               PROVE  q < Committed(c, l % num_subbuf)
    BY <1>7 DEF Whole
  <2> DEFINE j == l % num_subbuf
  <2>1. l \in Nat /\ j \in Subbufs /\ q \in 0..(subbuf_size - 1)
    <3>1. l \in Nat  BY <1>1, LiveTyped
    <3>2. j \in Subbufs  BY <3>1, LapStart
    <3>3. q \in 0..(subbuf_size - 1)  BY Sizes
    <3> QED  BY <3>1, <3>2, <3>3
  <2>2. CASE j # i
    <3>1. b.cell[(j * subbuf_size) + q].pos = (l * subbuf_size) + q
      BY <1>8, <2>1, <2>2
    <3>2. q < Committed(b, j)  BY <3>1, <1>5 DEF Lapped, InLaps, Whole
    <3>3. Committed(c, j) = Committed(b, j)  BY <1>8, <2>1, <2>2 DEF Committed
    <3> QED  BY <3>2, <3>3
  <2>3. CASE j = i
    <3>1. f = l * subbuf_size  BY <2>3, <1>3 DEF Lapped, InLaps, LapStarts
    <3>2. l = Lap(r.from)  BY <3>1, <2>1, <1>4, LapStart
    <3>3. /\ r.end = b.offset
          /\ \A k \in 1..(Len(b.pending) - 1) : Lap(b.pending[k].from) # Lap(r.from)
      <4>1. l \notin Over(b)  BY DEF over
      <4> QED  BY <4>1, <3>2 DEF Over
    <3>4. f + Committed(c, i) = o  BY <1>6, <3>3, CommittedLast
    <3>5. (l * subbuf_size) + q < o
      <4>1. ((l % num_subbuf) * subbuf_size) + q \in Ring  BY <2>1, LapPlace
      <4> QED  BY <4>1, <1>10 DEF Past
    <3>6. Committed(c, i) \in Int
      <4>1. RingInv(c, o)  BY <1>1, <1>5, CommitStep DEF c
      <4>2. c \in Rings  BY <4>1 DEF RingInv
      <4> QED  BY <4>2, <1>3 DEF Committed, Rings
    <3> DEFINE n == Committed(c, i)
    <3>7. f + n = o /\ f + q < o /\ n \in Int /\ f \in Nat /\ q \in Nat
      BY <3>1, <3>4, <3>5, <3>6, <1>3, <2>1, Sizes
    <3> HIDE DEF n, f, o
    <3>8. q < n  BY <3>7
    <3> QED  BY <3>8, <2>3 DEF n
  <2> QED  BY <2>2, <2>3
<1>12. Lapped(c)
  <2>1. o % subbuf_size = 0 => b.data_size[Index(o - 1)] = subbuf_size  BY DEF Lapped
  <2>2. Lap(b.consumed) = Oldest(o)  BY DEF Lapped
  <2> HIDE DEF o
  <2> QED  BY <2>1, <2>2, <1>8, <1>9, <1>10, <1>11 DEF Lapped, InLaps
<1> QED  BY <1>7, <1>12 DEF c, over

-----------------------------------------------------------------------------
(* The ring that the crash leaves, as the walk sees it.                    *)

\* The number of the last turn of the walk.
LastTurn(b) == (Lap(b.offset) - Lap(b.consumed)) % num_subbuf

KeptIn(b) ==
  {p \in b.consumed..(b.offset - 1) :
     /\ b.cell[p % (num_subbuf * subbuf_size)].pos = p
     /\ ~ IsHeader(Plain(p))
     /\ Lap(p) \notin b.overtaken}

\* A turn of the walk takes position p.
Taken(b, p) ==
  /\ Lap(p) - Lap(b.consumed) \in 0..LastTurn(b)
  /\ First(b, Index(p)) = Lap(p) * subbuf_size
  /\ p % subbuf_size < Committed(b, Index(p))
  /\ Lap(p) - Lap(b.consumed) = LastTurn(b) => p % subbuf_size < b.offset % subbuf_size

\* In each turn but the last the walk finds the subbuffer it expects, or a blank
\* one; in the last only if the crash was not in a switch.
Shaped(b, t) ==
  /\ b.consumed <= b.offset
  /\ \A k \in 0..LastTurn(b) :
       LET l == Lap(b.consumed) + k  f == First(b, l % num_subbuf) IN
       f = -1 \/ f = l * subbuf_size \/ (k = LastTurn(b) /\ t # "no")
  /\ \A i \in Subbufs : First(b, i) # -1 => First(b, i) + Committed(b, i) <= b.offset
  /\ t # "unpushed" /\ ~ FullRing(b) => \A p \in KeptIn(b) : Taken(b, p)

LEMMA LastTurnIs ==
  ASSUME NEW b, b.offset \in Nat, b.consumed \in Nat,
         Lap(b.offset) - Lap(b.consumed) \in 0..(num_subbuf + 1)
  PROVE  LET d == Lap(b.offset) - Lap(b.consumed) IN
         LastTurn(b) = IF d < num_subbuf THEN d ELSE d - num_subbuf
<1> DEFINE d == Lap(b.offset) - Lap(b.consumed)
<1>1. d \in Nat /\ d <= num_subbuf + 1  BY Sizes
<1>2. LastTurn(b) = d % num_subbuf  BY DEF LastTurn
<1> HIDE DEF d
<1>3. CASE d < num_subbuf
  <2>1. d % num_subbuf = d  BY <1>1, <1>3, Sizes, ModSmall
  <2> QED  BY <2>1, <1>2, <1>3 DEF d
<1>4. CASE ~ d < num_subbuf
  <2>1. d - num_subbuf * 1 \in 0..(num_subbuf - 1) /\ d - num_subbuf * 1 = d - num_subbuf
    BY <1>1, <1>4, Sizes
  <2>2. \A k \in Int : d - num_subbuf * k \in 0..(num_subbuf - 1)
                        => d % num_subbuf = d - num_subbuf * k
    <3>1. d \in Int  BY <1>1
    <3> QED  BY <3>1, Sizes, ModOf
  <2> QED  BY <2>1, <2>2, <1>2, <1>4 DEF d
<1> QED  BY <1>3, <1>4

\* A ring in which all before o is reserved and, if t is not "no", offset already
\* in the next subbuffer.
Crashed(b, o, t) ==
  /\ RingInv(b, o) /\ InLaps(b, o) /\ b.consumed % subbuf_size = 0 /\ o <= b.offset
  /\ \/ t = "no" /\ b.offset = o /\ Lap(b.consumed) = Oldest(o)
     \/ /\ t = "unstarted" /\ Lap(b.offset - 1) = Lap(o - 1) + 1
        /\ Lap(b.consumed) = Oldest(b.offset)
     \/ /\ t = "unpushed" /\ Lap(b.offset - 1) = Lap(o - 1) + 1
        /\ Lap(b.consumed) = Oldest(o)

\* The subbuffers of consumed and of offset.
LEMMA CrashedTurns ==
  ASSUME NEW b, NEW o, NEW t, Crashed(b, o, t)
  PROVE  LET C == Lap(b.consumed)  O == Lap(b.offset)  T == Lap(o - 1)  L == LastTurn(b)
             m == b.offset % subbuf_size
         IN /\ o \in Nat \ {0} /\ b.offset \in Nat \ {0} /\ b.consumed \in Nat
            /\ C \in Nat /\ O \in Nat /\ T \in Nat /\ C \in Live(o) /\ T <= O
            /\ L \in 0..(num_subbuf - 1)
            /\ b.consumed = C * subbuf_size /\ b.consumed <= b.offset
            /\ \A k \in 0..L : C + k \in Live(o)
                 \/ (C + k < num_subbuf /\ T < C + k) \/ (k = L /\ t # "no")
            /\ t # "unpushed" /\ ~ FullRing(b) => L = O - C
            /\ T = O => m # 0
<1> DEFINE e == b.offset
           C == Lap(b.consumed)
           O == Lap(e)
           T == Lap(o - 1)
           E == Lap(e - 1)
           m == e % subbuf_size
           n == num_subbuf
           d == O - C
           L == LastTurn(b)
<1>1. /\ o \in Nat \ {0} /\ b.consumed \in Nat /\ e \in Nat /\ o <= e
      /\ b.consumed % subbuf_size = 0
  BY DEF Crashed, RingInv, Rings
<1>2. e \in Nat \ {0}
  <2> HIDE DEF e
  <2> QED  BY <1>1
<1>3. /\ C \in Nat /\ O \in Nat /\ T \in Nat /\ E \in Nat
      /\ m # 0 => E = O
      /\ m = 0 => O = E + 1
  <2> HIDE DEF e
  <2> QED  BY <1>1, <1>2, LapBefore, IndexTyped
<1>4. /\ Oldest(o) = (IF T < n THEN 0 ELSE (T - n) + 1)
      /\ Oldest(e) = (IF E < n THEN 0 ELSE (E - n) + 1)
      /\ Live(o) = Oldest(o)..T
  BY DEF Oldest, Live
<1>5. \/ t = "no" /\ E = T /\ C = Oldest(o) /\ C = Oldest(e)
      \/ t = "unstarted" /\ E = T + 1 /\ C = Oldest(e)
      \/ t = "unpushed" /\ E = T + 1 /\ C = Oldest(o)
  BY DEF Crashed
<1>6. b.consumed = C * subbuf_size
  <2> DEFINE y == C * subbuf_size
  <2>1. b.consumed = y + (b.consumed % subbuf_size)  BY <1>1, LapOf
  <2>2. y \in Nat  BY <1>3, LapStart
  <2> HIDE DEF y
  <2> QED  BY <2>1, <2>2, <1>1 DEF y
<1>7. n \in Nat /\ n >= 2  BY Sizes
<1>8. /\ C \in Live(o) /\ T <= O /\ d \in 0..(n + 1) /\ d \in Int /\ C <= E
      /\ t # "unpushed" => d <= n
      /\ t # "unpushed" /\ d = n => m = 0
      /\ T = O => m # 0
  <2> HIDE DEF C, O, T, E, m, n, e
  <2> QED  BY <1>3, <1>4, <1>5, <1>7
<1>9. L = IF d < n THEN d ELSE d - n
  <2> HIDE DEF L
  <2> QED  BY <1>1, <1>8, LastTurnIs DEF L
<1>10. L \in 0..(n - 1)
  <2> HIDE DEF d, n, L
  <2> QED  BY <1>7, <1>8, <1>9
<1>11. ASSUME NEW k \in 0..L
       PROVE  C + k \in Live(o) \/ (C + k < n /\ T < C + k) \/ (k = L /\ t # "no")
  <2>1. d = O - C  OBVIOUS
  <2> HIDE DEF C, O, T, E, m, n, e, d, L
  <2>2. k \in Nat /\ k <= L /\ L \in Nat  BY <1>7, <1>10
  <2>3. CASE d < n
    BY <2>1, <2>2, <2>3, <1>3, <1>4, <1>5, <1>7, <1>8, <1>9
  <2>4. CASE ~ d < n
    BY <2>1, <2>2, <2>4, <1>3, <1>4, <1>5, <1>7, <1>8, <1>9
  <2> QED  BY <2>3, <2>4
<1>12. b.consumed <= e
  <2>1. C * subbuf_size <= E * subbuf_size  BY <1>3, <1>8, Sizes, Times
  <2> DEFINE x == C * subbuf_size
             y == E * subbuf_size
  <2>2. e - 1 = y + ((e - 1) % subbuf_size) /\ (e - 1) % subbuf_size \in 0..(subbuf_size - 1)
    <3>1. e - 1 \in Nat
      <4> HIDE DEF e
      <4> QED  BY <1>2
    <3> QED  BY <3>1, LapOf
  <2>3. x \in Nat /\ y \in Nat  BY <1>3, LapStart
  <2> DEFINE r == (e - 1) % subbuf_size
  <2>4. x <= y /\ e - 1 = y + r /\ r \in Nat  BY <2>1, <2>2
  <2> HIDE DEF x, y, r, e
  <2>5. x <= e  BY <2>3, <2>4, <1>2
  <2> QED  BY <2>5, <1>6 DEF x
<1>13. t # "unpushed" /\ ~ FullRing(b) => L = d
  <2> SUFFICES ASSUME t # "unpushed", ~ FullRing(b), d = n PROVE FALSE
    <3> HIDE DEF d, n, L
    <3> QED  BY <1>7, <1>8, <1>9
  <2>1. m = 0  BY <1>8
  <2> DEFINE x == C * subbuf_size
             y == O * subbuf_size
             z == n * subbuf_size
  <2>2. e = y + m /\ y \in Nat /\ x \in Nat /\ z \in Nat
    <3>1. e = y + m  BY <1>1, LapOf
    <3>2. y \in Nat /\ x \in Nat  BY <1>3, LapStart
    <3> QED  BY <3>1, <3>2, Sizes
  <2>3. y = x + z
    <3>1. O = C + n
      <4> HIDE DEF C, O, n
      <4> QED  BY <1>3, <1>7
    <3> HIDE DEF C, O, n
    <3>2. (C + n) * subbuf_size = C * subbuf_size + n * subbuf_size
      BY <1>3, <1>7, Sizes
    <3> QED  BY <3>1, <3>2
  <2> HIDE DEF x, y, z, m, e, C
  <2>4. e - x = z  BY <2>1, <2>2, <2>3
  <2>5. e - b.consumed = num_subbuf * subbuf_size  BY <2>4, <1>6 DEF x, z
  <2> QED  BY <2>5 DEF FullRing, e
<1> QED
  BY <1>1, <1>2, <1>3, <1>6, <1>8, <1>10, <1>11, <1>12, <1>13

LEMMA CrashShapes ==
  ASSUME NEW b, NEW o, NEW t, Crashed(b, o, t) PROVE Shaped(b, t)
<1> DEFINE C == Lap(b.consumed)
           O == Lap(b.offset)
           T == Lap(o - 1)
           L == LastTurn(b)
<1>1. /\ o \in Nat \ {0} /\ b.offset \in Nat \ {0} /\ b.consumed \in Nat
      /\ C \in Nat /\ O \in Nat /\ T \in Nat /\ C \in Live(o) /\ T <= O
      /\ L \in 0..(num_subbuf - 1)
      /\ b.consumed = C * subbuf_size /\ b.consumed <= b.offset
      /\ \A k \in 0..L : C + k \in Live(o)
           \/ (C + k < num_subbuf /\ T < C + k) \/ (k = L /\ t # "no")
      /\ t # "unpushed" /\ ~ FullRing(b) => L = O - C
      /\ T = O => b.offset % subbuf_size # 0
  BY CrashedTurns
<1>2. RingInv(b, o) /\ InLaps(b, o) /\ o <= b.offset /\ b \in Rings /\ Placed(b) /\ Past(b, o)
  BY DEF Crashed, RingInv, InLaps
<1>3. ASSUME NEW k \in 0..L
      PROVE  LET l == C + k  f == First(b, l % num_subbuf) IN
             f = -1 \/ f = l * subbuf_size \/ (k = L /\ t # "no")
  <2> DEFINE l == C + k
  <2>1. l \in Nat
    <3> HIDE DEF C, L
    <3> QED  BY <1>1, Sizes
  <2>2. CASE l \in Live(o)  BY <2>2, <1>2 DEF InLaps, LapStarts
  <2>3. CASE l < num_subbuf /\ T < l
    <3> HIDE DEF l, T
    <3>1. l \in 0..(num_subbuf - 1)  BY <2>1, <2>3, Sizes
    <3>2. l % num_subbuf = l /\ l \in Subbufs  BY <3>1, Sizes, ModSmall DEF Subbufs
    <3>3. First(b, l) = -1  BY <3>2, <2>3, <1>1, <1>2, Unused DEF T
    <3> QED  BY <3>2, <3>3 DEF l
  <2> QED  BY <2>2, <2>3, <1>1
<1>4. ASSUME NEW i \in Subbufs, First(b, i) # -1
      PROVE  First(b, i) + Committed(b, i) <= b.offset
  <2> DEFINE f == First(b, i)
             n == Committed(b, i)
             D == Data(b, o, i)
  <2>1. Slot(b, o, i)  BY <1>2 DEF RingInv
  <2>2. f \in Nat /\ f + D <= o /\ n \in 1..D  BY <2>1, <1>4 DEF Slot, Started, Readable
  <2>3. D \in 0..subbuf_size  BY <1>2, UsedTyped
  <2> HIDE DEF f, n, D
  <2>4. f + n <= b.offset  BY <2>2, <2>3, <1>1, <1>2, Sizes
  <2> QED  BY <2>4 DEF f, n
<1>5. ASSUME t # "unpushed", ~ FullRing(b), NEW p \in KeptIn(b) PROVE Taken(b, p)
  <2> DEFINE l == Lap(p)
             q == p % subbuf_size
             M == num_subbuf * subbuf_size
  <2>1. p \in b.consumed..(b.offset - 1) /\ b.cell[p % M].pos = p /\ ~ IsHeader(Plain(p))
        /\ l \notin b.overtaken
    BY DEF KeptIn
  <2>2. p \in Nat /\ b.consumed <= p /\ p < b.offset  BY <2>1, <1>1
  <2>3. l \in Nat /\ q \in 0..(subbuf_size - 1) /\ p = (l * subbuf_size) + q
        /\ Index(p) = l % num_subbuf /\ p % M = (Index(p) * subbuf_size) + q
    BY <2>2, LapOf, PlaceOf
  <2>4. q # 0  BY <2>1, <2>2 DEF IsHeader, Plain
  <2>5. p < o
    <3>1. p % M \in Ring  BY <2>3, LapPlace
    <3> QED  BY <3>1, <2>1, <1>2 DEF Past
  <2>6. C <= l /\ l <= T
    <3>1. p <= o - 1 /\ o - 1 \in Nat  BY <2>2, <2>5, <1>1
    <3>2. l <= T  BY <3>1, <2>2, LapMonotone
    <3>3. C <= l  BY <2>2, <1>1, LapMonotone
    <3> QED  BY <3>2, <3>3
  <2>7. l \in Live(o)
    <3>1. C \in Oldest(o)..T /\ Live(o) = Oldest(o)..T  BY <1>1 DEF Live
    <3>2. Oldest(o) \in 0..T  BY <1>1, LiveTyped
    <3> HIDE DEF l, C, T
    <3> QED  BY <3>1, <3>2, <2>3, <2>6, <1>1
  <2>8. l - C \in 0..L
    <3>1. L = O - C  BY <1>1, <1>5
    <3> HIDE DEF L, O, C, l, T
    <3> QED  BY <3>1, <1>1, <2>3, <2>6
  <2>9. First(b, Index(p)) = l * subbuf_size  BY <2>3, <2>7, <1>2 DEF InLaps, LapStarts
  <2>10. q < Committed(b, Index(p))
    <3>1. q \in 1..(subbuf_size - 1)
      <4> HIDE DEF q
      <4> QED  BY <2>3, <2>4, Sizes
    <3>2. b.cell[((l % num_subbuf) * subbuf_size) + q].pos = (l * subbuf_size) + q
      BY <2>1, <2>3
    <3> QED  BY <3>1, <3>2, <2>1, <2>3, <2>7, <1>2 DEF InLaps, Whole
  <2>11. ASSUME l - C = L PROVE q < b.offset % subbuf_size
    <3>1. l = O
      <4>1. L = O - C  BY <1>1, <1>5
      <4> HIDE DEF L, O, C, l
      <4> QED  BY <4>1, <1>1, <2>3, <2>11
    <3>2. (Lap(b.offset) * subbuf_size) + q < b.offset  BY <3>1, <2>2, <2>3
    <3>3. q \in Nat /\ b.offset \in Nat  BY <2>3, <1>1
    <3> QED  BY <3>2, <3>3, BelowIn
  <2> QED  BY <2>8, <2>9, <2>10, <2>11 DEF Taken
<1> QED  BY <1>1, <1>3, <1>4, <1>5 DEF Shaped

-----------------------------------------------------------------------------
(* The laps of all rings.                                                  *)

\* The ring with nothing but its first header.
LEMMA NewRingLapped == Lapped(NewRing)
<1> DEFINE b == NewRing
<1>1. /\ b \in Rings /\ b.offset = 1 /\ b.consumed = 0
      /\ b.cell = [r \in Ring |-> IF r = 0 THEN Plain(0) ELSE Blank]
  BY NewRingInv DEF NewRing
<1> HIDE DEF b
<1>2. 0 * subbuf_size = 0 /\ Lap(0) = 0 /\ 0 % num_subbuf = 0 /\ 1 % subbuf_size = 1
      /\ 1 - 1 = 0
  <2>1. 0 * subbuf_size = 0 /\ Lap(0 * subbuf_size) = 0  BY LapStart, Sizes
  <2>2. 0 \in 0..(num_subbuf - 1) /\ 1 \in 0..(subbuf_size - 1)  BY Sizes
  <2> QED  BY <2>1, <2>2, Sizes, ModSmall
<1>3. \A l \in Live(1) : l = 0  BY <1>2, Sizes DEF Live, Oldest
<1>4. \A x \in Ring : b.cell[x].pos = IF x = 0 THEN 0 ELSE -1
  BY <1>1 DEF Plain, Blank
<1>5. 0 \in Ring
  <2>1. 0 \in Subbufs  BY Sizes DEF Subbufs
  <2> QED  BY <2>1, <1>2, HeaderInRing
<1>6. LapStarts(b, 1)  BY <1>2, <1>3, <1>4, <1>5 DEF LapStarts, First
<1>7. Past(b, 1)  BY <1>4 DEF Past
<1>8. Whole(b, 1)
  <2> SUFFICES ASSUME NEW l \in Live(1), NEW q \in 1..(subbuf_size - 1),
                      b.cell[((l % num_subbuf) * subbuf_size) + q].pos = (l * subbuf_size) + q
               PROVE  FALSE
    BY DEF Whole
  <2>1. l = 0 /\ q \in Nat /\ q # 0 /\ q \in 0..(subbuf_size - 1)  BY <1>3, Sizes
  <2>2. ((l % num_subbuf) * subbuf_size) + q = q /\ (l * subbuf_size) + q = q
    BY <2>1, <1>2
  <2>3. q \in Ring
    <3>1. 0 \in Subbufs  BY Sizes DEF Subbufs
    <3>2. (0 * subbuf_size) + q \in Ring  BY <3>1, <2>1, SlotInRing
    <3> QED  BY <3>2, <2>1, <2>2, <1>2
  <2>4. b.cell[q].pos = -1  BY <2>1, <2>3, <1>4
  <2> QED  BY <2>1, <2>2, <2>4
<1>9. Lap(b.consumed) = Oldest(b.offset)  BY <1>1, <1>2, Sizes DEF Oldest
<1> QED  BY <1>1, <1>2, <1>6, <1>7, <1>8, <1>9 DEF Lapped, InLaps, b

\* What is known of the laps of all rings, before the crash and after it.
LapsInv ==
  /\ torn \in {"no", "unpushed", "unstarted"}
  /\ pc = "tracing" => torn = "no" /\ \A c \in CPUs : Lapped(buf[c])
  /\ pc # "tracing" => \A c \in CPUs : Shaped(buf[c], torn)

LEMMA InitLaps == Init => LapsInv
<1>1. \A c \in CPUs : Init => Lapped(buf[c])  BY NewRingLapped DEF Init
<1> QED  BY <1>1 DEF Init, LapsInv

\* A ring that the crash does not catch in a switch.
LEMMA CrashShape ==
  ASSUME NEW b, RingInv(b, b.offset), Lapped(b), b.consumed % subbuf_size = 0
  PROVE  Shaped(b, "no")
<1> DEFINE o == b.offset
<1>1. o <= o
  <2>1. o \in Nat  BY DEF RingInv, Rings
  <2> HIDE DEF o
  <2> QED  BY <2>1
<1>2. Crashed(b, o, "no")  BY <1>1 DEF Crashed, Lapped
<1> QED  BY <1>2, CrashShapes

\* The ring after a reservation of k units.
Moved(b, k) ==
  LET begin == Begin(b, k)
      moved == IF Fits(b, k) THEN b ELSE SwitchNewStart(SwitchOldEnd(b), begin - 1)
  IN  Reserved(moved, begin, k, Pushed(b, begin + k))

LEMMA ReserveIs ==
  ASSUME MaxNesting <= 2, DumpInv, NEW c \in CPUs, reserve(c)
  PROVE  \E k \in RecordSizes : LET b == buf[c]  d == Moved(b, k) IN
           /\ ~ Fits(b, k) => b.cc[Index(Begin(b, k))] = 0
           /\ Begin(b, k) + k <= MaxOffset[c]
           /\ RingInv(b, b.offset) /\ b.consumed % subbuf_size = 0
           /\ Len(b.pending) <= 1 /\ Len(b.pending) < MaxNesting /\ b.pending \in Seq(Record)
           /\ d \in Rings /\ RingInv(d, Begin(b, k) + k) /\ d.offset = Begin(b, k) + k
           /\ d.consumed = Pushed(b, Begin(b, k) + k)
           /\ buf'[c] = d /\ \A e \in CPUs \ {c} : buf'[e] = buf[e]
           /\ pc = "tracing" /\ UNCHANGED <<kernel, online, torn, pc, cpus, cidx, files, metadata>>
<1> DEFINE b == buf[c]
<1>1. PICK k \in RecordSizes : CanReserve(c, k) /\ buf' = [buf EXCEPT ![c] = Moved(b, k)]
  BY DEF reserve, Reserved, Moved
<1> DEFINE e == Begin(b, k) + k
           d == Moved(b, k)
<1>2. /\ pc = "tracing" /\ Len(b.pending) < MaxNesting /\ e <= MaxOffset[c]
      /\ ~ Fits(b, k) => b.cc[Index(Begin(b, k))] = 0
  BY <1>1 DEF CanReserve
<1>3. UNCHANGED <<kernel, online, torn, pc, cpus, cidx, files, metadata>>  BY DEF reserve
<1>4. /\ RingInv(b, b.offset) /\ b.consumed % subbuf_size = 0 /\ b.pending \in Seq(Record)
      /\ buf \in [CPUs -> Rings]
  BY <1>2 DEF DumpInv, RingInv, Rings
<1>5. Len(b.pending) <= 1
  <2> DEFINE n == Len(b.pending)
  <2>1. n \in Nat /\ n < MaxNesting /\ MaxNesting \in Nat
    BY <1>2, <1>4, LenProperties, LttAssumption
  <2> HIDE DEF n
  <2>2. n <= 1  BY <2>1
  <2> QED  BY <2>2 DEF n
<1>6. RingInv(d, e) /\ d.offset = e /\ d.consumed = Pushed(b, e)
  <2> HIDE DEF b
  <2> QED  BY <1>2, <1>4, <1>5, ReserveStep DEF Moved
<1> HIDE DEF d, e, b
<1>7. d \in Rings  BY <1>6 DEF RingInv
<1>8. buf'[c] = d /\ \A i \in CPUs \ {c} : buf'[i] = buf[i]
  BY <1>1, <1>4 DEF d, b
<1> QED  BY <1>2, <1>3, <1>4, <1>5, <1>6, <1>7, <1>8 DEF b, d, e

LEMMA ReserveLapsInv ==
  ASSUME MaxNesting <= 2, DumpInv, LapsInv, NEW c \in CPUs, reserve(c) PROVE LapsInv'
<1> DEFINE b == buf[c]
<1>1. PICK k \in RecordSizes :
        /\ ~ Fits(b, k) => b.cc[Index(Begin(b, k))] = 0
        /\ RingInv(b, b.offset) /\ b.consumed % subbuf_size = 0 /\ Len(b.pending) <= 1
        /\ buf'[c] = Moved(b, k) /\ \A e \in CPUs \ {c} : buf'[e] = buf[e]
        /\ pc = "tracing" /\ UNCHANGED <<torn, pc>>
  BY ReserveIs
<1>2. Lapped(b) /\ torn = "no"  BY <1>1 DEF LapsInv
<1>3. Lapped(Moved(b, k))
  <2> HIDE DEF b
  <2> QED  BY <1>1, <1>2, ReserveLaps DEF Moved
<1>4. \A e \in CPUs : Lapped(buf'[e])
  <2> SUFFICES ASSUME NEW e \in CPUs PROVE Lapped(buf'[e])
    OBVIOUS
  <2>1. CASE e = c  BY <2>1, <1>1, <1>3
  <2>2. CASE e # c  BY <2>2, <1>1 DEF LapsInv
  <2> QED  BY <2>1, <2>2
<1> QED  BY <1>1, <1>2, <1>4 DEF LapsInv

LEMMA CommitLapsInv ==
  ASSUME DumpInv, LapsInv, NEW c \in CPUs, commit(c) PROVE LapsInv'
<1> DEFINE b == buf[c]
           r == b.pending[Len(b.pending)]
           d == Commit(Written(b, r, Over(b)), r.from, r.end)
<1>1. /\ pc = "tracing" /\ b.pending # <<>> /\ UNCHANGED <<pc, torn>>
      /\ buf' = [buf EXCEPT ![c] = d]
  BY DEF commit, Written, Over
<1>2. RingInv(b, b.offset) /\ b \in Rings /\ Lapped(b) /\ torn = "no" /\ buf \in [CPUs -> Rings]
  BY <1>1 DEF DumpInv, RingInv, LapsInv
<1>3. Len(b.pending) > 0
  <2> DEFINE n == Len(b.pending)
  <2>1. b.pending \in Seq(Record)  BY <1>2 DEF Rings
  <2>2. n \in Nat /\ n # 0  BY <2>1, <1>1, LenProperties, EmptySeq
  <2> HIDE DEF n
  <2>3. n > 0  BY <2>2
  <2> QED  BY <2>3 DEF n
<1>4. Lapped(d)
  <2> HIDE DEF b
  <2> QED  BY <1>2, <1>3, CommitLaps
<1>5. \A e \in CPUs : Lapped(buf'[e])
  <2> HIDE DEF d
  <2> SUFFICES ASSUME NEW e \in CPUs PROVE Lapped(buf'[e])
    OBVIOUS
  <2>1. CASE e = c  BY <2>1, <1>1, <1>2, <1>4
  <2>2. CASE e # c  BY <2>2, <1>1, <1>2 DEF LapsInv
  <2> QED  BY <2>1, <2>2
<1> QED  BY <1>1, <1>2, <1>5 DEF LapsInv

LEMMA CrashLapsInv == ASSUME DumpInv, LapsInv, crash PROVE LapsInv'
<1>1. pc = "tracing" /\ pc' = "gdb" /\ UNCHANGED <<buf, torn>>  BY DEF crash
<1>2. torn = "no" /\ \A c \in CPUs : Shaped(buf[c], "no")
  BY <1>1, CrashShape DEF DumpInv, LapsInv
<1> QED  BY <1>1, <1>2 DEF LapsInv

\* The ring of which offset is at e and consumed at q, but nothing is written.
Torn(b, e, q) == [b EXCEPT !.offset = e, !.consumed = q]

LEMMA TornFrame ==
  ASSUME NEW b, NEW o, RingInv(b, o), InLaps(b, o), NEW e \in Nat, NEW q \in Nat
  PROVE  LET d == Torn(b, e, q) IN
         RingInv(d, o) /\ InLaps(d, o) /\ d.offset = e /\ d.consumed = q
<1> DEFINE d == Torn(b, e, q)
<1>1. /\ d \in Rings /\ d.offset = e /\ d.consumed = q /\ d.cc = b.cc /\ d.seq = b.seq
      /\ d.data_size = b.data_size /\ d.cell = b.cell /\ d.pending = b.pending
      /\ d.overtaken = b.overtaken
  BY DEF RingInv, Rings, Torn
<1> HIDE DEF d
<1>2. \A i \in Subbufs : First(d, i) = First(b, i) /\ Committed(d, i) = Committed(b, i)
                         /\ Open(d, i) = Open(b, i)
  BY <1>1 DEF First, Committed, Open, Size
<1>3. \A p : Held(d, p) <=> Held(b, p)  BY <1>1 DEF Held
<1>4. ASSUME NEW i \in Subbufs PROVE Slot(d, o, i)
  <2>1. Used(d, o, i) = Used(b, o, i) /\ Data(d, o, i) = Data(b, o, i)
    BY <1>1, <1>2 DEF Used, Data
  <2>2. Slot(b, o, i)  BY DEF RingInv
  <2>3. Counted(d, o, i)  BY <2>1, <2>2, <1>1, <1>2 DEF Slot, Counted
  <2>4. Started(d, o, i)  BY <2>1, <2>2, <1>1, <1>2 DEF Slot, Started
  <2>5. Readable(d, o, i)  BY <2>1, <2>2, <1>1, <1>2, <1>3 DEF Slot, Readable
  <2>6. Ended(d, o, i)  BY <2>1, <2>2, <1>1, <1>2 DEF Slot, Ended
  <2> QED  BY <2>3, <2>4, <2>5, <2>6 DEF Slot
<1>5. ASSUME NEW k \in 1..Len(d.pending) PROVE Pending(d, o, k)
  <2>1. Pending(b, o, k)  BY <1>1 DEF RingInv
  <2> QED  BY <2>1, <1>1 DEF Pending, First, Committed
<1>6. Nested(d, o) /\ Placed(d)  BY <1>1 DEF RingInv, Nested, Placed
<1>7. RingInv(d, o)  BY <1>1, <1>4, <1>5, <1>6 DEF RingInv
<1>8. InLaps(d, o)
  <2>1. \A l \in Live(o) : l % num_subbuf \in Subbufs
    <3>1. o \in Nat \ {0}  BY DEF RingInv
    <3>2. \A l \in Live(o) : l \in Nat  BY <3>1, LiveTyped
    <3> QED  BY <3>2, LapStart
  <2>2. LapStarts(d, o)  BY <2>1, <1>2 DEF InLaps, LapStarts
  <2>3. Past(d, o)  BY <1>1 DEF InLaps, Past
  <2>4. Whole(d, o)  BY <2>1, <1>1, <1>2 DEF InLaps, Whole
  <2> QED  BY <2>2, <2>3, <2>4 DEF InLaps
<1> QED  BY <1>1, <1>7, <1>8 DEF d

LEMMA SwitchIs ==
  ASSUME DumpInv, NEW c \in CPUs, crash_in_switch(c)
  PROVE  \E k \in RecordSizes, t \in {"unpushed", "unstarted"} :
           LET b == buf[c]
               e == Begin(b, k) + k
               q == IF t = "unpushed" THEN b.consumed ELSE Pushed(b, e)
           IN  /\ ~ Fits(b, k) /\ RingInv(b, b.offset) /\ b.consumed % subbuf_size = 0
               /\ e <= MaxOffset[c] /\ Len(b.pending) < MaxNesting
               /\ buf'[c] = Torn(b, e, q) /\ \A i \in CPUs \ {c} : buf'[i] = buf[i]
               /\ torn' = t /\ pc = "tracing" /\ pc' = "gdb"
               /\ UNCHANGED <<kernel, online, cpus, cidx, files, metadata>>
<1> DEFINE b == buf[c]
<1>1. PICK k \in RecordSizes, t \in {"unpushed", "unstarted"} :
        LET end == Begin(b, k) + k IN
        /\ CanReserve(c, k) /\ ~ Fits(b, k)
        /\ torn' = t /\ pc' = "gdb"
        /\ buf' = [buf EXCEPT ![c].offset = end,
                     ![c].consumed = IF t = "unpushed" THEN @ ELSE Pushed(b, end)]
        /\ UNCHANGED <<kernel, online, cpus, cidx, files, metadata>>
  BY DEF crash_in_switch
<1> DEFINE e == Begin(b, k) + k
           q == IF t = "unpushed" THEN b.consumed ELSE Pushed(b, e)
<1>2. pc = "tracing" /\ Len(b.pending) < MaxNesting /\ e <= MaxOffset[c]
  BY <1>1 DEF CanReserve
<1>3. RingInv(b, b.offset) /\ b.consumed % subbuf_size = 0 /\ buf \in [CPUs -> Rings]
  BY <1>2 DEF DumpInv
<1>4. buf' = [buf EXCEPT ![c] = Torn(b, e, q)]  BY <1>1 DEF Torn
<1> HIDE DEF e, q
<1>5. buf'[c] = Torn(b, e, q) /\ \A i \in CPUs \ {c} : buf'[i] = buf[i]
  <2> DEFINE d == Torn(b, e, q)
  <2>1. buf' = [buf EXCEPT ![c] = d]  BY <1>4
  <2> HIDE DEF d
  <2> QED  BY <2>1, <1>3 DEF d
<1> QED  BY <1>1, <1>2, <1>3, <1>5 DEF e, q

\* The crash in a switch of one ring leaves the others as they were.
LEMMA OtherShape ==
  ASSUME NEW b, NEW t, Shaped(b, "no") PROVE Shaped(b, t)
BY DEF Shaped

LEMMA SwitchLapsInv ==
  ASSUME DumpInv, LapsInv, NEW c \in CPUs, crash_in_switch(c) PROVE LapsInv'
<1> DEFINE b == buf[c]
           o == b.offset
<1>1. PICK k \in RecordSizes, t \in {"unpushed", "unstarted"} :
        LET e == Begin(b, k) + k
            q == IF t = "unpushed" THEN b.consumed ELSE Pushed(b, e)
        IN  /\ ~ Fits(b, k) /\ RingInv(b, b.offset) /\ b.consumed % subbuf_size = 0
            /\ buf'[c] = Torn(b, e, q) /\ \A i \in CPUs \ {c} : buf'[i] = buf[i]
            /\ torn' = t /\ pc = "tracing" /\ pc' = "gdb"
  BY SwitchIs
<1> DEFINE e == Begin(b, k) + k
           q == IF t = "unpushed" THEN b.consumed ELSE Pushed(b, e)
           d == Torn(b, e, q)
<1>2. Lapped(b) /\ b \in Rings /\ o \in Nat \ {0} /\ RingInv(b, o)
      /\ InLaps(b, o) /\ Lap(b.consumed) = Oldest(o) /\ b.consumed \in Nat
  BY <1>1 DEF LapsInv, Lapped, RingInv, Rings
<1>3. e \in Nat \ {0} /\ o < e /\ Lap(e - 1) = Lap(o - 1) + 1
  <2> HIDE DEF b, o
  <2>1. ~ Fits(b, k)  BY <1>1 DEF b
  <2> QED  BY <2>1, <1>2, EndLap DEF o
<1>4. q \in Nat /\ q % subbuf_size = 0
  <2> DEFINE h == b.consumed
  <2>1. h \in Nat /\ h % subbuf_size = 0  BY <1>1, <1>2
  <2>2. q \in {h, h + subbuf_size}  BY DEF Pushed
  <2> HIDE DEF h, q
  <2>3. (h + subbuf_size) % subbuf_size = 0  BY <2>1, NextSubbuffer
  <2>4. h + subbuf_size \in Nat  BY <2>1, Sizes
  <2> QED  BY <2>1, <2>2, <2>3, <2>4
<1>5. Lap(q) = IF t = "unpushed" THEN Oldest(o) ELSE Oldest(e)
  <2> HIDE DEF b, o, e
  <2>1. b.consumed % subbuf_size = 0  BY <1>1 DEF b
  <2>2. Lap(Pushed(b, e)) = Oldest(e)  BY <2>1, <1>2, <1>3, PushedIs
  <2> QED  BY <2>2, <1>2
<1>6. buf'[c] = d /\ torn' = t  BY <1>1
<1> HIDE DEF b, o, e, q, d
<1>7. RingInv(d, o) /\ InLaps(d, o) /\ d.offset = e /\ d.consumed = q
  <2>1. e \in Nat /\ q \in Nat /\ RingInv(b, o) /\ InLaps(b, o)  BY <1>2, <1>3, <1>4
  <2>2. LET x == Torn(b, e, q) IN
        RingInv(x, o) /\ InLaps(x, o) /\ x.offset = e /\ x.consumed = q
    BY <2>1, TornFrame
  <2> QED  BY <2>2 DEF d
<1>8. o <= e  BY <1>2, <1>3
<1>9. Crashed(d, o, t)  BY <1>3, <1>4, <1>5, <1>7, <1>8 DEF Crashed
<1>10. Shaped(d, t)  BY <1>9, CrashShapes
<1>11. ASSUME NEW i \in CPUs PROVE Shaped(buf'[i], t)
  <2>1. CASE i = c  BY <2>1, <1>6, <1>10
  <2>2. CASE i # c
    <3>1. Lapped(buf[i]) /\ RingInv(buf[i], buf[i].offset) /\ buf[i].consumed % subbuf_size = 0
      BY <1>1 DEF DumpInv, LapsInv
    <3>2. Shaped(buf[i], t)  BY <3>1, CrashShape, OtherShape
    <3> QED  BY <3>2, <2>2, <1>1
  <2> QED  BY <2>1, <2>2
<1> QED  BY <1>1, <1>6, <1>11 DEF LapsInv

LEMMA NextLaps == ASSUME MaxNesting <= 2, DumpInv, LapsInv, [Next]_vars PROVE LapsInv'
<1>1. CASE crash  BY <1>1, CrashLapsInv
<1>2. ASSUME NEW c \in CPUs, reserve(c) PROVE LapsInv'
  BY <1>2, ReserveLapsInv
<1>3. ASSUME NEW c \in CPUs, commit(c) PROVE LapsInv'
  BY <1>3, CommitLapsInv
<1>4. ASSUME NEW c \in CPUs, cpu_down(c) PROVE LapsInv'
  BY <1>4 DEF cpu_down, LapsInv
<1>5. ASSUME NEW c \in CPUs, crash_in_switch(c) PROVE LapsInv'
  BY <1>5, SwitchLapsInv
<1>6. CASE dumpltt \/ UNCHANGED vars
  <2>1. buf' = buf /\ torn' = torn
        /\ (pc' = pc \/ (pc # "tracing" /\ pc' # "tracing"))
    BY <1>6 DEF dumpltt, invoke, find_session_channel, handle_buffer, walk, vars
  <2> QED  BY <2>1 DEF LapsInv
<1> QED
  BY <1>1, <1>2, <1>3, <1>4, <1>5, <1>6 DEF Next, kernel_step

-----------------------------------------------------------------------------
(* What a turn of the walk appends.                                        *)

LEMMA Joined ==
  ASSUME NEW f \in Seq(Unit), NEW p \in Seq(Unit)
  PROVE  LET s == f \o p IN
         /\ s \in Seq(Unit) /\ Len(f) \in Nat /\ Len(p) \in Nat /\ Len(s) = Len(f) + Len(p)
         /\ DOMAIN f = 1..Len(f) /\ DOMAIN p = 1..Len(p) /\ DOMAIN s = 1..Len(s)
         /\ \A j \in 1..Len(f) : s[j] = f[j]
         /\ \A j \in 1..Len(p) : s[Len(f) + j] = p[j]
         /\ \A j \in 1..Len(s) : j \notin 1..Len(f) =>
              j - Len(f) \in 1..Len(p) /\ s[j] = p[j - Len(f)]
OBVIOUS

\* The data of f is in order, and is in lo..hi-1.
Between(f, lo, hi) ==
  \A j \in 1..Len(f) : f[j].pos # -1 =>
    /\ lo <= f[j].pos /\ f[j].pos < hi
    /\ \A i \in 1..(j - 1) : f[i].pos < f[j].pos

\* A packet of the n units from g on.
LEMMA BetweenAppend ==
  ASSUME NEW f \in Seq(Unit), NEW p \in Seq(Unit), NEW lo \in Nat, NEW m \in Nat,
         NEW hi \in Nat, NEW g \in Nat, NEW n \in Nat,
         Between(f, lo, m), m <= g, lo <= g, m <= hi, g + n <= hi,
         \A j \in 1..Len(p) : p[j].pos = IF j <= n THEN (g + j) - 1 ELSE -1
  PROVE  Between(f \o p, lo, hi)
<1> DEFINE s == f \o p
           N == Len(f)
           P == Len(p)
<1>1. /\ N \in Nat /\ P \in Nat /\ Len(s) = N + P
      /\ \A j \in 1..N : s[j] = f[j] /\ f[j].pos \in Int
      /\ \A j \in 1..P : s[N + j] = p[j]
      /\ \A j \in 1..Len(s) : j \notin 1..N => j - N \in 1..P /\ s[j] = p[j - N]
  <2>1. \A j \in 1..N : f[j] \in Unit  OBVIOUS
  <2> QED  BY <2>1, Joined DEF Unit
<1>2. \A j \in 1..N : f[j].pos = -1 \/ (lo <= f[j].pos /\ f[j].pos < m)
  BY DEF Between
<1>3. \A j \in 1..P : p[j].pos = -1 \/ (j <= n /\ p[j].pos = (g + j) - 1)
  OBVIOUS
<1> SUFFICES ASSUME NEW j \in 1..Len(s), s[j].pos # -1
             PROVE  /\ lo <= s[j].pos /\ s[j].pos < hi
                    /\ \A i \in 1..(j - 1) : s[i].pos < s[j].pos
  BY DEF Between
<1>4. CASE j \in 1..N
  <2>1. s[j] = f[j] /\ f[j].pos \in Int /\ lo <= f[j].pos /\ f[j].pos < m
        /\ \A i \in 1..(j - 1) : f[i].pos < f[j].pos
    BY <1>1, <1>4 DEF Between
  <2>2. \A i \in 1..(j - 1) : i \in 1..N  BY <1>1, <1>4
  <2>3. \A i \in 1..(j - 1) : s[i].pos < s[j].pos  BY <2>1, <2>2, <1>1
  <2>4. f[j].pos < hi  BY <2>1
  <2> QED  BY <2>1, <2>3, <2>4
<1>5. CASE j \notin 1..N
  <2> DEFINE x == j - N
  <2>1. x \in 1..P /\ s[j] = p[x] /\ j = N + x  BY <1>1, <1>5
  <2>2. x <= n /\ s[j].pos = (g + x) - 1  BY <2>1, <1>3
  <2>3. lo <= s[j].pos /\ s[j].pos < hi
    <3> HIDE DEF x, P
    <3> QED  BY <2>1, <2>2, <1>1
  <2>4. ASSUME NEW i \in 1..(j - 1) PROVE s[i].pos < s[j].pos
    <3>1. CASE i \in 1..N
      <4>1. s[i] = f[i] /\ (f[i].pos = -1 \/ f[i].pos < m) /\ f[i].pos \in Int
        BY <3>1, <1>1, <1>2
      <4> DEFINE y == f[i].pos
                 z == s[j].pos
      <4>2. y \in Int /\ (y = -1 \/ y < m) /\ s[i].pos = y  BY <4>1
      <4>3. x \in Nat /\ 1 <= x /\ z = (g + x) - 1
        <5> HIDE DEF x, P
        <5> QED  BY <2>1, <2>2, <1>1
      <4> HIDE DEF x, y, z
      <4>4. y < z  BY <4>2, <4>3
      <4> QED  BY <4>2, <4>4 DEF z
    <3>2. CASE i \notin 1..N
      <4>1. i \in 1..Len(s) /\ i - N \in 1..P /\ s[i] = p[i - N]  BY <3>2, <1>1
      <4>2. p[i - N].pos = -1 \/ p[i - N].pos = (g + (i - N)) - 1  BY <4>1, <1>3
      <4> DEFINE y == i - N
      <4>3. y \in Int /\ y < x /\ x \in Int  BY <4>1, <2>1, <1>1
      <4>4. s[i].pos = -1 \/ s[i].pos = (g + y) - 1  BY <4>1, <4>2
      <4> DEFINE u == s[i].pos
                 v == s[j].pos
      <4>5. x \in Nat /\ 1 <= x /\ v = (g + x) - 1 /\ (u = -1 \/ u = (g + y) - 1)
        <5> HIDE DEF x, y, P
        <5> QED  BY <4>4, <2>1, <2>2, <1>1
      <4> HIDE DEF x, y, u, v
      <4>6. u < v  BY <4>3, <4>5
      <4> QED  BY <4>6 DEF u, v
    <3> QED  BY <3>1, <3>2
  <2> QED  BY <2>3, <2>4
<1> QED  BY <1>4, <1>5

\* The walk from subbuffer C to subbuffer O, counted without wrapping.
LEMMA TurnIsLast ==
  ASSUME NEW C \in Nat, NEW O \in Nat, NEW k \in 0..((O - C) % num_subbuf)
  PROVE  LET n == num_subbuf  d == (O - C) % n IN
         /\ d \in 0..(n - 1)
         /\ (C + k) % n = O % n <=> k = d
         /\ (((C + k) % n) + 1) % n = (C + (k + 1)) % n
<1> DEFINE n == num_subbuf
           d == (O - C) % n
<1>1. n \in Nat \ {0} /\ d \in 0..(n - 1)
  <2>1. n \in Nat \ {0}  BY Sizes
  <2>2. O - C \in Int  OBVIOUS
  <2> QED  BY <2>1, <2>2, DivMod
<1>2. k \in Nat /\ k \in 0..(n - 1)
  <2>1. k \in 0..d  OBVIOUS
  <2> HIDE DEF d, n
  <2> QED  BY <2>1, <1>1
<1>3. (O - C) - k \in Int /\ O - (C + k) \in Int /\ (O - C) - k = O - (C + k)
      /\ C + k \in Int /\ O - C \in Int
  BY <1>2
<1>4. ((O - C) - k) % n = 0 <=> d = k
  <2> HIDE DEF n
  <2> QED  BY <1>1, <1>2, <1>3, ModEqual
<1> DEFINE a == C + k
<1>5. (O - a) % n = 0 <=> O % n = a % n
  <2> DEFINE r == a % n
  <2>1. r \in 0..(n - 1) /\ a \in Int
    <3> HIDE DEF n
    <3> QED  BY <1>1, <1>3, DivMod
  <2>2. -r \in Int  BY <2>1
  <2>3. (O - r) % n = 0 <=> O % n = r
    <3>1. n \in Nat \ {0} /\ O \in Int  BY <1>1
    <3> HIDE DEF n, r
    <3> QED  BY <3>1, <2>1, ModEqual
  <2>4. (O - r) % n = (O - a) % n
    <3> DEFINE j == a \div n
               z == n * j
    <3>1. j \in Int /\ a = n * j + r
      <4> HIDE DEF n, a
      <4> QED  BY <1>1, <2>1, DivMod DEF r
    <3>2. z \in Int
      <4> HIDE DEF j, n
      <4> QED  BY <1>1, <3>1
    <3>3. O - r = (O - a) + n * j
      <4>1. a = z + r  BY <3>1
      <4> HIDE DEF z, r, a
      <4>2. O - r = (O - a) + z  BY <4>1, <3>2, <2>1
      <4> QED  BY <4>2 DEF z
    <3> DEFINE y == O - a
               x == y % n
               e == y \div n
    <3>4. x \in 0..(n - 1) /\ e \in Int /\ y = n * e + x /\ y \in Int
      <4>1. y \in Int  BY <1>3
      <4> HIDE DEF y, n
      <4> QED  BY <4>1, <1>1, DivMod
    <3>5. O - r = n * (e + j) + x /\ e + j \in Int
      <4>1. n * (e + j) = n * e + n * j /\ n * e \in Int /\ n * j \in Int /\ e + j \in Int
        <5> HIDE DEF n, e, j
        <5> QED  BY <1>1, <3>1, <3>4
      <4> DEFINE u == n * e
                 v == n * j
                 w == n * (e + j)
      <4>2. w = u + v /\ y = u + x /\ O - r = y + v /\ u \in Int /\ v \in Int
        BY <4>1, <3>3, <3>4
      <4> HIDE DEF u, v, w, x, y, r
      <4>3. O - r = w + x  BY <4>2, <3>4, <2>1
      <4> QED  BY <4>1, <4>3 DEF w
    <3> HIDE DEF x, e, j, n, r, y
    <3>6. (n * (e + j) + x) % n = x  BY <3>4, <3>5, <1>1, DivUnique
    <3> QED  BY <3>5, <3>6 DEF x, y
  <2> QED  BY <2>3, <2>4
<1>6. ((a % n) + 1) % n = (a + 1) % n /\ a + 1 = C + (k + 1)
  <2>1. a + 1 = C + (k + 1) /\ a \in Int  BY <1>2, <1>3
  <2> HIDE DEF a, n
  <2>2. 1 \in Int  OBVIOUS
  <2> QED  BY <2>1, <2>2, <1>1, ModSum
<1> QED  BY <1>1, <1>3, <1>4, <1>5, <1>6

\* What may be in the file when turn k begins.
Bound(b, k) == Least(b.offset, (Lap(b.consumed) + k) * subbuf_size)

KeptTo(f, b, k, t) ==
  t # "unpushed" /\ ~ FullRing(b) =>
    \A p \in KeptIn(b) : Lap(p) < Lap(b.consumed) + k =>
      \E j \in 1..Len(f) : f[j].pos = p

Sorted(f, b, t) ==
  \A j \in 1..Len(f) : (t = "no" \/ \E h \in Headers(f) : j < h) /\ f[j].pos # -1 =>
    /\ f[j].pos \in b.consumed..(b.offset - 1)
    /\ \A i \in 1..(j - 1) : f[i].pos < f[j].pos

\* What turn k of the walk appends.
Turn(b, k) ==
  handle_subbuffer(b, (Lap(b.consumed) + k) % num_subbuf, 0,
                   IF k = LastTurn(b) THEN b.offset % subbuf_size ELSE 0)

LEMMA BoundIs ==
  ASSUME NEW b, b.offset \in Nat, b.consumed \in Nat, b.consumed % subbuf_size = 0,
         NEW k \in Nat
  PROVE  LET C == Lap(b.consumed)  g == (C + k) * subbuf_size  m == Bound(b, k) IN
         /\ C \in Nat /\ g \in Nat /\ m \in Nat /\ m <= g /\ m <= b.offset
         /\ b.consumed = C * subbuf_size /\ b.consumed <= g
         /\ Bound(b, k + 1) = Least(b.offset, g + subbuf_size)
<1> DEFINE C == Lap(b.consumed)
           g == (C + k) * subbuf_size
<1>1. C \in Nat /\ b.consumed = (C * subbuf_size) + 0 /\ C + k \in Nat /\ C <= C + k
  <2>1. C \in Nat /\ b.consumed = (C * subbuf_size) + (b.consumed % subbuf_size)  BY LapOf
  <2> HIDE DEF C
  <2> QED  BY <2>1
<1>2. g \in Nat /\ C * subbuf_size \in Nat  BY <1>1, LapStart
<1>3. C * subbuf_size <= g  BY <1>1, Sizes, Times
<1>4. (C + (k + 1)) * subbuf_size = g + subbuf_size
  <2> DEFINE a == C + k
  <2>1. a \in Nat /\ C + (k + 1) = a + 1 /\ subbuf_size \in Nat  BY <1>1, Sizes
  <2> HIDE DEF a, C
  <2>2. (a + 1) * subbuf_size = a * subbuf_size + subbuf_size  BY <2>1
  <2> QED  BY <2>1, <2>2 DEF a
<1> HIDE DEF C, g
<1> DEFINE z == C * subbuf_size
<1>5. z \in Nat /\ b.consumed = z + 0 /\ z <= g  BY <1>1, <1>2, <1>3
<1> HIDE DEF z
<1>6. b.consumed = z /\ b.consumed <= g  BY <1>5, <1>2
<1>7. Bound(b, k) = Least(b.offset, g) /\ Bound(b, k + 1) = Least(b.offset, g + subbuf_size)
  BY <1>4 DEF Bound, C, g
<1>8. Least(b.offset, g) \in Nat /\ Least(b.offset, g) <= g /\ Least(b.offset, g) <= b.offset
  BY <1>2 DEF Least
<1> QED  BY <1>1, <1>2, <1>6, <1>7, <1>8 DEF C, g, z

LEMMA TurnIs ==
  ASSUME NEW b \in Rings, Sound(b), NEW t, Shaped(b, t), b.consumed % subbuf_size = 0,
         NEW k \in 0..LastTurn(b)
  PROVE  LET l == Lap(b.consumed) + k
             i == l % num_subbuf
             f == First(b, i)
             m == b.offset % subbuf_size
             p == Turn(b, k)
             n == p[1].content
             c == Committed(b, i)
         IN /\ p \in Seq(Unit) /\ k \in Nat /\ l \in Nat /\ i \in Subbufs /\ m \in Nat
            /\ p = <<>> => c = 0
            /\ p # <<>> =>
                 /\ f \in Nat /\ c \in Nat /\ n \in 1..subbuf_size /\ n <= Len(p)
                 /\ f + n <= b.offset
                 /\ k # LastTurn(b) \/ t = "no" => f = l * subbuf_size
                 /\ \A j \in 1..Len(p) : p[j].pos = IF j <= n THEN (f + j) - 1 ELSE -1
                 /\ \A j \in 2..Len(p) : ~ IsHeader(p[j])
                 /\ n = IF k = LastTurn(b) /\ 0 < m /\ m < c THEN m ELSE c
<1> DEFINE C == Lap(b.consumed)
           O == Lap(b.offset)
           L == LastTurn(b)
           l == C + k
           i == l % num_subbuf
           f == First(b, i)
           m == b.offset % subbuf_size
           x == IF k = L THEN m ELSE 0
           p == Turn(b, k)
           n == p[1].content
           c == Committed(b, i)
<1>1. C \in Nat /\ O \in Nat /\ m \in 0..(subbuf_size - 1) /\ b.offset \in Nat
  BY LapOf DEF Rings
<1>2. L \in 0..(num_subbuf - 1)
  <2>1. 0 \in Int /\ O - C \in Int
    <3> HIDE DEF O, C
    <3> QED  BY <1>1
  <2>2. (O - C) % num_subbuf \in 0..(num_subbuf - 1)
    <3> HIDE DEF O, C
    <3> QED  BY <2>1, Sizes, DivMod
  <2> QED  BY <2>2 DEF LastTurn
<1>3. k \in Nat /\ l \in Nat
  <2>1. k \in 0..L  OBVIOUS
  <2> HIDE DEF L, C
  <2> QED  BY <2>1, <1>1, <1>2
<1>4. i \in Subbufs  BY <1>3, LapStart
<1>5. x \in Nat /\ m \in Nat
  <2> HIDE DEF m, L
  <2> QED  BY <1>1
<1>6. p = handle_subbuffer(b, i, 0, x)  BY DEF Turn
<1>7. /\ IsPacket(p, b)
      /\ p = <<>> => c = 0
      /\ p # <<>> => n = IF x > 0 /\ x < c THEN x ELSE c
      /\ p # <<>> => p[1].pos = f /\ f # -1
  <2> HIDE DEF i, x, p
  <2> QED  BY <1>4, <1>5, <1>6, PacketIs
<1>8. f # -1 => f \in Nat /\ c \in 1..subbuf_size /\ f + c <= b.offset
  BY <1>4 DEF Sound, Shaped
<1>9. f = -1 \/ f = l * subbuf_size \/ (k = L /\ t # "no")  BY DEF Shaped
<1> HIDE DEF C, O, L, l, i, f, m, c, x, p
<1>10. ASSUME p # <<>>
       PROVE  /\ f \in Nat /\ c \in Nat /\ n \in 1..subbuf_size /\ n <= Len(p)
              /\ f + n <= b.offset
              /\ k # L \/ t = "no" => f = l * subbuf_size
              /\ \A j \in 1..Len(p) : p[j].pos = IF j <= n THEN (f + j) - 1 ELSE -1
              /\ \A j \in 2..Len(p) : ~ IsHeader(p[j])
              /\ n = IF k = L /\ 0 < m /\ m < c THEN m ELSE c
  <2>1. f \in Nat /\ c \in 1..subbuf_size /\ f + c <= b.offset /\ f # -1
        /\ n = (IF x > 0 /\ x < c THEN x ELSE c)
    BY <1>7, <1>8, <1>10
  <2>2. n \in Nat /\ n <= c /\ 1 <= n  BY <2>1, <1>5, Sizes
  <2>3. n <= subbuf_size /\ f + n <= b.offset /\ c \in Nat  BY <2>1, <2>2, <1>1, Sizes
  <2>4. n \in 1..Len(p) /\ p \in Seq(Unit)  BY <1>7, <1>10 DEF IsPacket
  <2>5. n <= Len(p)  BY <2>2, <2>4
  <2>6. \A j \in 1..Len(p) : p[j].pos = IF j <= n THEN f + j - 1 ELSE -1
    BY <1>7, <1>10 DEF IsPacket
  <2>7. \A j \in 2..Len(p) : ~ IsHeader(p[j])  BY <1>7, <1>10 DEF IsPacket
  <2>8. n = IF k = L /\ 0 < m /\ m < c THEN m ELSE c
    <3>1. n = (IF x > 0 /\ x < c THEN x ELSE c)  BY <2>1
    <3>2. CASE k = L
      <4>1. x = m  BY <3>2 DEF x
      <4> QED  BY <4>1, <3>1, <3>2, <1>5, <2>3
    <3>3. CASE k # L
      <4>1. x = 0  BY <3>3 DEF x
      <4> QED  BY <4>1, <3>1, <3>3
    <3> QED  BY <3>2, <3>3
  <2>9. k # L \/ t = "no" => f = l * subbuf_size  BY <1>9, <2>1
  <2>10. n \in 1..subbuf_size  BY <2>2, <2>3, Sizes
  <2> HIDE DEF n
  <2> QED  BY <2>1, <2>3, <2>5, <2>6, <2>7, <2>8, <2>9, <2>10
<1>11. p \in Seq(Unit)  BY <1>7 DEF IsPacket
<1> QED
  BY <1>3, <1>4, <1>5, <1>7, <1>10, <1>11 DEF C, L, l, i, f, m, c, p

LEMMA BetweenMore ==
  ASSUME NEW f \in Seq(Unit), NEW lo \in Nat, NEW m \in Nat, NEW hi \in Nat,
         Between(f, lo, m), m <= hi
  PROVE  Between(f, lo, hi)
<1> SUFFICES ASSUME NEW j \in 1..Len(f), f[j].pos # -1
             PROVE  /\ lo <= f[j].pos /\ f[j].pos < hi
                    /\ \A i \in 1..(j - 1) : f[i].pos < f[j].pos
  BY DEF Between
<1>1. f[j] \in Unit  OBVIOUS
<1>2. f[j].pos \in Int  BY <1>1 DEF Unit
<1>3. lo <= f[j].pos /\ f[j].pos < m /\ \A i \in 1..(j - 1) : f[i].pos < f[j].pos
  BY DEF Between
<1> DEFINE z == f[j].pos
<1>4. z \in Int /\ z < m  BY <1>2, <1>3
<1> HIDE DEF z
<1>5. z < hi  BY <1>4
<1> QED  BY <1>3, <1>5 DEF z

LEMMA BetweenSorted ==
  ASSUME NEW f \in Seq(Unit), NEW b, b.consumed \in Nat, b.offset \in Nat,
         Between(f, b.consumed, b.offset), NEW t
  PROVE  Sorted(f, b, t)
<1> SUFFICES ASSUME NEW j \in 1..Len(f), f[j].pos # -1
             PROVE  /\ f[j].pos \in b.consumed..(b.offset - 1)
                    /\ \A i \in 1..(j - 1) : f[i].pos < f[j].pos
  BY DEF Sorted
<1>1. f[j] \in Unit  OBVIOUS
<1>2. f[j].pos \in Int  BY <1>1 DEF Unit
<1>3. b.consumed <= f[j].pos /\ f[j].pos < b.offset
      /\ \A i \in 1..(j - 1) : f[i].pos < f[j].pos
  BY DEF Between
<1> DEFINE z == f[j].pos
<1>4. z \in Int /\ z < b.offset /\ b.consumed <= z  BY <1>2, <1>3
<1> HIDE DEF z
<1>5. z \in b.consumed..(b.offset - 1)  BY <1>4
<1> QED  BY <1>3, <1>5 DEF z

\* Only the packet of the last turn can be out of order, after a crash in a switch.
LEMMA TurnOrder ==
  ASSUME NEW b \in Rings, Sound(b), NEW t, Shaped(b, t), b.consumed % subbuf_size = 0,
         NEW f \in Seq(Unit), NEW k \in 0..LastTurn(b), Between(f, b.consumed, Bound(b, k))
  PROVE  LET s == f \o Turn(b, k) IN
         /\ s \in Seq(Unit)
         /\ k # LastTurn(b) => Between(s, b.consumed, Bound(b, k + 1))
         /\ Sorted(s, b, t)
<1> DEFINE L == LastTurn(b)
           l == Lap(b.consumed) + k
           g == l * subbuf_size
           p == Turn(b, k)
           n == p[1].content
           h == First(b, l % num_subbuf)
           s == f \o p
           lo == b.consumed
           m == Bound(b, k)
           N == Len(f)
<1>1. lo \in Nat /\ b.offset \in Nat  BY DEF Rings
<1>2. /\ p \in Seq(Unit) /\ k \in Nat
      /\ p # <<>> =>
           /\ h \in Nat /\ n \in 1..subbuf_size /\ h + n <= b.offset
           /\ k # L \/ t = "no" => h = g
           /\ \A j \in 1..Len(p) : p[j].pos = IF j <= n THEN (h + j) - 1 ELSE -1
           /\ \A j \in 2..Len(p) : ~ IsHeader(p[j])
  BY TurnIs
<1>3. /\ g \in Nat /\ m \in Nat /\ m <= g /\ m <= b.offset /\ lo <= g
      /\ Bound(b, k + 1) = Least(b.offset, g + subbuf_size)
  BY <1>1, <1>2, BoundIs
<1> HIDE DEF L, l, g, p, h, m
<1>4. /\ s \in Seq(Unit) /\ N \in Nat /\ DOMAIN s = 1..Len(s)
      /\ \A j \in 1..N : s[j] = f[j]
      /\ \A j \in 1..Len(s) : j \notin 1..N => j - N \in 1..Len(p) /\ s[j] = p[j - N]
  BY <1>2, Joined
<1>5. ASSUME k # L \/ t = "no" PROVE Between(s, lo, Least(b.offset, g + subbuf_size))
  <2> DEFINE hi == Least(b.offset, g + subbuf_size)
  <2>1. hi \in Nat /\ m <= hi /\ hi <= b.offset  BY <1>1, <1>3, Sizes DEF Least
  <2>2. CASE p = <<>>
    <3>1. s = f  BY <2>2
    <3>2. Between(f, lo, m)  BY DEF m
    <3> HIDE DEF hi, s, lo
    <3>3. Between(s, lo, hi)  BY <3>1, <3>2, <2>1, <1>1, <1>3, BetweenMore
    <3> QED  BY <3>3 DEF hi
  <2>3. CASE p # <<>>
    <3>1. g + n <= hi /\ n \in Nat
      <4>1. n \in 1..subbuf_size /\ g + n <= b.offset  BY <2>3, <1>2, <1>5
      <4> HIDE DEF n
      <4> QED  BY <4>1, <1>1, <1>3, Sizes DEF Least
    <3>2. \A j \in 1..Len(p) : p[j].pos = IF j <= n THEN (g + j) - 1 ELSE -1
      BY <2>3, <1>2, <1>5
    <3>3. Between(f, lo, m)  BY DEF m
    <3> HIDE DEF hi, n, lo
    <3>4. Between(s, lo, hi)  BY <3>1, <3>2, <3>3, <2>1, <1>1, <1>2, <1>3, BetweenAppend
    <3> QED  BY <3>4 DEF hi
  <2> QED  BY <2>2, <2>3
<1>6. ASSUME k # L \/ t = "no" PROVE Sorted(s, b, t)
  <2> DEFINE hi == Least(b.offset, g + subbuf_size)
  <2>1. hi \in Nat /\ hi <= b.offset  BY <1>1, <1>3, Sizes DEF Least
  <2>2. Between(s, lo, hi)  BY <1>5, <1>6
  <2> HIDE DEF hi, s
  <2>3. Between(s, lo, b.offset)  BY <2>1, <2>2, <1>1, <1>4, BetweenMore
  <2> QED  BY <2>3, <1>1, <1>4, BetweenSorted
<1>7. ASSUME k = L, t # "no" PROVE Sorted(s, b, t)
  <2>1. Between(f, lo, b.offset)
    <3>1. Between(f, lo, m)  BY DEF m
    <3> HIDE DEF lo
    <3> QED  BY <3>1, <1>1, <1>3, BetweenMore
  <2>2. Sorted(f, b, "no")  BY <2>1, <1>1, BetweenSorted
  <2> SUFFICES ASSUME NEW j \in 1..Len(s), NEW x \in Headers(s), j < x, s[j].pos # -1
               PROVE  /\ s[j].pos \in lo..(b.offset - 1)
                      /\ \A i \in 1..(j - 1) : s[i].pos < s[j].pos
    BY <1>7 DEF Sorted
  <2>3. x \in 1..Len(s) /\ IsHeader(s[x])  BY <1>4 DEF Headers
  <2>4. x \in 1..N \/ x = N + 1
    <3> SUFFICES ASSUME x \notin 1..N, x # N + 1 PROVE FALSE
      OBVIOUS
    <3>1. x - N \in 1..Len(p) /\ s[x] = p[x - N]  BY <2>3, <1>4
    <3>2. x - N \in 2..Len(p)
      <4> DEFINE y == x - N
      <4>1. y \in Int /\ y # 1  BY <3>1, <2>3, <1>4
      <4>2. y \in 1..Len(p)  BY <3>1
      <4> HIDE DEF y
      <4>3. Len(p) \in Nat  BY <1>2
      <4>4. y \in 2..Len(p)  BY <4>1, <4>2, <4>3
      <4> QED  BY <4>4 DEF y
    <3>3. p # <<>>
      <4> SUFFICES ASSUME p = <<>> PROVE FALSE  OBVIOUS
      <4>1. Len(p) = 0
        <5>1. Len(<<>>) = 0  OBVIOUS
        <5> HIDE DEF s
        <5> QED  BY <5>1
      <4> QED  BY <4>1, <3>1
    <3> QED  BY <3>1, <3>2, <3>3, <2>3, <1>2
  <2>5. j \in 1..N /\ \A i \in 1..(j - 1) : i \in 1..N
    <3>1. j \in Nat /\ 1 <= j /\ j < x /\ x <= N + 1
      <4>1. x \in Nat /\ j \in Nat /\ 1 <= j
        <5> HIDE DEF s, N
        <5> QED  BY <2>3, <1>4
      <4> HIDE DEF s, N
      <4> QED  BY <4>1, <2>4, <1>4
    <3> HIDE DEF s, N
    <3> QED  BY <3>1, <2>3, <1>4
  <2>6. s[j] = f[j] /\ \A i \in 1..(j - 1) : s[i] = f[i]  BY <2>5, <1>4
  <2>7. f[j].pos \in lo..(b.offset - 1) /\ \A i \in 1..(j - 1) : f[i].pos < f[j].pos
    BY <2>2, <2>5, <2>6 DEF Sorted
  <2> QED  BY <2>6, <2>7
<1>8. k # L => Between(s, lo, Bound(b, k + 1))  BY <1>3, <1>5
<1> QED  BY <1>4, <1>6, <1>7, <1>8 DEF L, p

\* A turn takes all that is kept of its subbuffer.
LEMMA TurnKept ==
  ASSUME NEW b \in Rings, Sound(b), NEW t, Shaped(b, t), b.consumed % subbuf_size = 0,
         NEW f \in Seq(Unit), NEW k \in 0..LastTurn(b), KeptTo(f, b, k, t)
  PROVE  KeptTo(f \o Turn(b, k), b, k + 1, t)
<1> DEFINE L == LastTurn(b)
           C == Lap(b.consumed)
           l == C + k
           i == l % num_subbuf
           p == Turn(b, k)
           n == p[1].content
           h == First(b, i)
           c == Committed(b, i)
           m == b.offset % subbuf_size
           s == f \o p
           N == Len(f)
<1>1. /\ p \in Seq(Unit) /\ k \in Nat /\ l \in Nat /\ i \in Subbufs /\ m \in Nat
      /\ p = <<>> => c = 0
      /\ p # <<>> =>
           /\ h \in Nat /\ n \in 1..subbuf_size /\ n <= Len(p) /\ c \in Nat
           /\ \A j \in 1..Len(p) : p[j].pos = IF j <= n THEN (h + j) - 1 ELSE -1
           /\ n = IF k = L /\ 0 < m /\ m < c THEN m ELSE c
  BY TurnIs
<1>2. b.consumed \in Nat /\ C \in Nat
  BY IndexTyped DEF Rings
<1> HIDE DEF p
<1>3. /\ N \in Nat /\ Len(p) \in Nat /\ Len(s) = N + Len(p)
      /\ \A j \in 1..N : s[j] = f[j]
      /\ \A j \in 1..Len(p) : s[N + j] = p[j]
  BY <1>1, Joined
<1> SUFFICES ASSUME t # "unpushed", ~ FullRing(b), NEW x \in KeptIn(b), Lap(x) < C + (k + 1)
             PROVE  \E j \in 1..Len(s) : s[j].pos = x
  BY DEF KeptTo, p
<1> DEFINE q == x % subbuf_size
           e == Lap(x)
<1>4. x \in Nat /\ e \in Nat /\ q \in 0..(subbuf_size - 1) /\ x = (e * subbuf_size) + q
      /\ Index(x) = e % num_subbuf
  <2>1. x \in b.consumed..(b.offset - 1) /\ b.offset \in Nat  BY DEF KeptIn, Rings
  <2>2. x \in Nat  BY <2>1, <1>2
  <2> QED  BY <2>2, LapOf
<1>5. CASE e < C + k
  <2>1. PICK j \in 1..N : f[j].pos = x  BY <1>5 DEF KeptTo
  <2>2. s[j] = f[j]  BY <2>1, <1>3
  <2>3. j \in 1..Len(s)
    <3> HIDE DEF s, N
    <3> QED  BY <1>3
  <2> QED  BY <2>1, <2>2, <2>3
<1>6. CASE ~ e < C + k
  <2>1. e = l
    <3>1. e < C + (k + 1)  OBVIOUS
    <3> HIDE DEF e, C
    <3> QED  BY <3>1, <1>6, <1>1, <1>2, <1>4
  <2>2. h = l * subbuf_size /\ q < c /\ (k = L => q < m)
    <3>1. Taken(b, x)  BY DEF Shaped
    <3>2. e - C = k
      <4> HIDE DEF C, e
      <4> QED  BY <2>1, <1>1, <1>2
    <3>3. Index(x) = i  BY <1>4, <2>1
    <3> QED  BY <3>1, <3>2, <3>3, <2>1 DEF Taken
  <2>3. p # <<>>
    <3> SUFFICES ASSUME p = <<>> PROVE FALSE  OBVIOUS
    <3>1. c = 0 /\ q < c  BY <1>1, <2>2
    <3>2. q \in Nat
      <4> HIDE DEF q
      <4> QED  BY <1>4
    <3> HIDE DEF q, c
    <3> QED  BY <3>1, <3>2
  <2>4. q < n
    <3>1. n = (IF k = L /\ 0 < m /\ m < c THEN m ELSE c)  BY <1>1, <2>3
    <3> HIDE DEF n, m, c, q, L
    <3> QED  BY <3>1, <2>2
  <2>5. q + 1 \in 1..Len(p) /\ q + 1 <= n
    <3>1. n \in Nat /\ n <= Len(p)
      <4>1. n \in 1..subbuf_size  BY <1>1, <2>3
      <4> HIDE DEF n
      <4> QED  BY <4>1, <1>1, <2>3, Sizes DEF n
    <3>2. q \in Nat
      <4> HIDE DEF q
      <4> QED  BY <1>4
    <3> HIDE DEF q, n
    <3> QED  BY <3>1, <3>2, <2>4, <1>3
  <2>6. p[q + 1].pos = (h + (q + 1)) - 1  BY <2>5, <2>3, <1>1
  <2>7. (h + (q + 1)) - 1 = x
    <3>1. h \in Nat /\ q \in Nat
      <4> HIDE DEF q
      <4> QED  BY <1>1, <1>4, <2>3
    <3>2. x = h + q  BY <2>1, <2>2, <1>4
    <3> HIDE DEF h, q
    <3> QED  BY <3>1, <3>2
  <2>8. s[N + (q + 1)].pos = x /\ N + (q + 1) \in 1..Len(s)
    <3>1. s[N + (q + 1)] = p[q + 1]  BY <2>5, <1>3
    <3>2. N + (q + 1) \in 1..Len(s)
      <4> DEFINE y == q + 1
      <4>1. y \in 1..Len(p)  BY <2>5
      <4> HIDE DEF y, s, N
      <4>2. N + y \in 1..Len(s)  BY <4>1, <1>3
      <4> QED  BY <4>2 DEF y
    <3> QED  BY <3>1, <3>2, <2>6, <2>7
  <2> QED  BY <2>8
<1> QED  BY <1>5, <1>6

-----------------------------------------------------------------------------
(* The list of CPUs.                                                       *)

LEMMA Less == IsWellFoundedOn({ss \in Nat \X Nat : ss[1] < ss[2]}, Nat)
BY NatLessThanWellFounded DEF OpToRel

LEMMA LeastIn ==
  ASSUME NEW S \in SUBSET Nat, S # {} PROVE \E x \in S : \A y \in S : x <= y
<1> DEFINE R == {ss \in Nat \X Nat : ss[1] < ss[2]}
<1>1. \A x, y \in Nat : x < y => <<x, y>> \in R  OBVIOUS
<1>2. IsWellFoundedOn(R, Nat)  BY Less
<1> HIDE DEF R
<1>3. PICK x \in S : \A y \in S : ~ (<<y, x>> \in R)  BY <1>2, WFMin
<1>4. ASSUME NEW y \in S PROVE x <= y
  <2>1. ~ (y < x)  BY <1>1, <1>3
  <2> QED  BY <2>1
<1> QED  BY <1>4

\* A list of the members of S in ascending order.
IsAscending(s, S) ==
  /\ s \in [1..Cardinality(S) -> S]
  /\ \A i, j \in DOMAIN s : i < j => s[i] < s[j]

\* The least member of S, and then a list of the others.
LEMMA AscendingMore ==
  ASSUME NEW S \in SUBSET Nat, IsFiniteSet(S), NEW n \in Nat, Cardinality(S) = n + 1,
         NEW x \in S, \A y \in S : x <= y, NEW r, IsAscending(r, S \ {x})
  PROVE  \E s : IsAscending(s, S)
<1> DEFINE s == [i \in 1..(n + 1) |-> IF i = 1 THEN x ELSE r[i - 1]]
<1>1. Cardinality(S \ {x}) = n
  <2>1. Cardinality(S \ {x}) = Cardinality(S) - 1  BY FS_RemoveElement
  <2> QED  BY <2>1
<1>2. r \in [1..n -> S \ {x}] /\ \A i, j \in 1..n : i < j => r[i] < r[j]
  BY <1>1 DEF IsAscending
<1>3. ASSUME NEW i \in 1..(n + 1), i # 1
      PROVE  i - 1 \in 1..n /\ s[i] = r[i - 1] /\ s[i] \in S \ {x}
  <2>1. i - 1 \in 1..n  BY <1>3
  <2> QED  BY <2>1, <1>2, <1>3
<1>4. s[1] = x  OBVIOUS
<1>5. s \in [1..(n + 1) -> S]
  <2>1. \A i \in 1..(n + 1) : s[i] \in S  BY <1>3, <1>4
  <2> QED  BY <2>1
<1>6. ASSUME NEW i \in 1..(n + 1), NEW j \in 1..(n + 1), i < j PROVE s[i] < s[j]
  <2>1. j # 1 /\ s[j] = r[j - 1] /\ j - 1 \in 1..n /\ s[j] \in S \ {x}  BY <1>3, <1>6
  <2>2. CASE i = 1
    <3>1. s[i] = x /\ x <= s[j] /\ x # s[j] /\ x \in Nat /\ s[j] \in Nat
      BY <2>1, <2>2, <1>4
    <3> HIDE DEF s
    <3> QED  BY <3>1
  <2>3. CASE i # 1
    <3>1. s[i] = r[i - 1] /\ i - 1 \in 1..n  BY <2>3, <1>3
    <3>2. i - 1 < j - 1  BY <1>6
    <3> QED  BY <3>1, <3>2, <2>1, <1>2
  <2> QED  BY <2>2, <2>3
<1> HIDE DEF s
<1>7. DOMAIN s = 1..Cardinality(S)  BY <1>5
<1>8. IsAscending(s, S)  BY <1>5, <1>6, <1>7 DEF IsAscending
<1> QED  BY <1>8

\* Every finite set of numbers has one: there is no smallest set without.
LEMMA Ascending ==
  ASSUME NEW S \in SUBSET Nat, IsFiniteSet(S) PROVE \E s : IsAscending(s, S)
<1> DEFINE Bad(T) == T \in SUBSET Nat /\ IsFiniteSet(T) /\ ~ \E s : IsAscending(s, T)
           N == {n \in Nat : \E T \in SUBSET Nat : Bad(T) /\ Cardinality(T) = n}
<1> SUFFICES ASSUME Bad(S) PROVE FALSE
  OBVIOUS
<1>1. Cardinality(S) \in N  BY FS_CardinalityType
<1>2. N \in SUBSET Nat /\ N # {}  BY <1>1
<1> HIDE DEF N
<1>3. PICK n \in N : \A m \in N : n <= m  BY <1>2, LeastIn
<1>4. PICK T \in SUBSET Nat : Bad(T) /\ Cardinality(T) = n  BY DEF N
<1>5. n \in Nat  BY <1>2
<1>6. T # {}
  <2> SUFFICES ASSUME T = {} PROVE FALSE  OBVIOUS
  <2>1. Cardinality(T) = 0  BY FS_EmptySet
  <2> DEFINE s == [i \in 1..0 |-> 0]
  <2>2. s \in [1..Cardinality(T) -> T] /\ DOMAIN s = {}  BY <2>1
  <2>3. IsAscending(s, T)  BY <2>2 DEF IsAscending
  <2> QED  BY <2>3, <1>4
<1>7. PICK x \in T : \A y \in T : x <= y  BY <1>6, LeastIn
<1>8. IsFiniteSet(T \ {x}) /\ Cardinality(T \ {x}) = n - 1
  BY <1>4, FS_RemoveElement
<1>9. n # 0  BY <1>4, <1>6, FS_EmptySet
<1>10. n - 1 \in Nat /\ ~ (n <= n - 1) /\ n = (n - 1) + 1  BY <1>5, <1>9
<1>11. n - 1 \notin N  BY <1>3, <1>10
<1>12. ~ Bad(T \ {x})  BY <1>8, <1>10, <1>11 DEF N
<1>13. PICK r : IsAscending(r, T \ {x})  BY <1>8, <1>12
<1>14. \E s : IsAscending(s, T)
  <2> DEFINE m == n - 1
  <2>1. m \in Nat /\ Cardinality(T) = m + 1 /\ IsFiniteSet(T)  BY <1>4, <1>10
  <2> HIDE DEF m
  <2> QED  BY <2>1, <1>7, <1>13, AscendingMore
<1> QED  BY <1>4, <1>14

\* Every online CPU is in the list, and only once.
LEMMA ListedOnce ==
  ASSUME online \subseteq CPUs
  PROVE  /\ get_cpu_list \in Seq(online)
         /\ \A i, j \in 1..Len(get_cpu_list) : i # j => get_cpu_list[i] # get_cpu_list[j]
         /\ \A c \in online : \E j \in 1..Len(get_cpu_list) : get_cpu_list[j] = c
<1> DEFINE n == Cardinality(online)
           L == get_cpu_list
<1>1. online \subseteq Nat /\ IsFiniteSet(online)
  <2>1. CPUs \subseteq Nat /\ IsFiniteSet(CPUs)  BY LttAssumption
  <2> QED  BY <2>1, FS_Subset
<1>2. n \in Nat  BY <1>1, FS_CardinalityType
<1>3. L \in [1..n -> online] /\ \A i, j \in DOMAIN L : i < j => L[i] < L[j]
  <2>1. \E s \in [1..n -> online] : \A i, j \in DOMAIN s : i < j => s[i] < s[j]
    BY <1>1, Ascending DEF IsAscending
  <2> QED  BY <2>1 DEF get_cpu_list
<1> HIDE DEF n, L
<1>4. L \in Seq(online) /\ Len(L) = n /\ DOMAIN L = 1..n
  BY <1>2, <1>3
<1>5. ASSUME NEW i \in 1..n, NEW j \in 1..n, i # j PROVE L[i] # L[j]
  <2>1. L[i] \in Nat /\ L[j] \in Nat  BY <1>1, <1>3
  <2>2. i < j \/ j < i  BY <1>2, <1>5
  <2> QED  BY <2>1, <2>2, <1>3, <1>4
<1>6. L \in Injection(1..n, online)
  BY <1>3, <1>4, <1>5 DEF Injection, IsInjective
<1>7. Cardinality(1..n) = n
  <2>1. 1 \in Int /\ n \in Int /\ (1 > n => n = 0)  BY <1>2
  <2>2. Cardinality(1..n) = IF 1 > n THEN 0 ELSE n - 1 + 1  BY <2>1, FS_Interval
  <2> QED  BY <2>1, <2>2
<1>8. L \in Surjection(1..n, online)
  <2>1. Cardinality(1..n) = Cardinality(online)  BY <1>7 DEF n
  <2> QED  BY <2>1, <1>1, <1>6, FS_Injection
<1>9. \A c \in online : \E j \in 1..n : L[j] = c  BY <1>8 DEF Surjection
<1> QED  BY <1>4, <1>5, <1>9 DEF L

LEMMA SessionFound ==
  ASSUME kernel \in Kernels, Found # {}
  PROVE  (CHOOSE s \in Found : \A t \in Found : s <= t) \in Nat \ {0}
<1>1. Found \subseteq Nat \ {0}
  <2>1. DOMAIN kernel.sessions \subseteq Nat \ {0}  BY LttAssumption
  <2> QED  BY <2>1 DEF Found
<1>2. \E x \in Found : \A y \in Found : x <= y
  <2>1. Found \in SUBSET Nat  BY <1>1
  <2> QED  BY <2>1, LeastIn
<1> QED  BY <1>1, <1>2

-----------------------------------------------------------------------------
(* The types that DumpInv does not have: bounds, and the list of CPUs.     *)

ListInv ==
  /\ kernel \in Kernels /\ online \subseteq CPUs
  /\ \A c \in CPUs : buf[c].offset \in 1..MaxOffset[c] /\ Len(buf[c].pending) <= MaxNesting
  /\ pc \in {"tracing", "gdb", "session", "cpu", "walk", "done", "error"}
  /\ cpus \in Seq(online) /\ cidx \in Subbufs /\ metadata \in Nat
  /\ pc \notin {"cpu", "walk"} => cpus = <<>>
  /\ pc = "walk" => cpus # <<>>

LEMMA InitList == Init => ListInv
<1> SUFFICES ASSUME Init PROVE ListInv
  OBVIOUS
<1>1. /\ kernel \in Kernels /\ online = CPUs /\ buf = [c \in CPUs |-> NewRing]
      /\ pc = "tracing" /\ cpus = <<>> /\ cidx = 0 /\ metadata = 0
  BY DEF Init
<1>2. NewRing.offset = 1 /\ Len(NewRing.pending) = 0
  BY DEF NewRing
<1>3. \A c \in CPUs : buf[c].offset \in 1..MaxOffset[c] /\ Len(buf[c].pending) <= MaxNesting
  <2> SUFFICES ASSUME NEW c \in CPUs
               PROVE  buf[c].offset \in 1..MaxOffset[c] /\ Len(buf[c].pending) <= MaxNesting
    OBVIOUS
  <2>1. buf[c] = NewRing  BY <1>1
  <2>2. MaxOffset[c] \in Nat \ {0} /\ MaxNesting \in Nat  BY LttAssumption
  <2>3. 1 \in 1..MaxOffset[c] /\ 0 <= MaxNesting  BY <2>2
  <2> QED  BY <2>1, <2>3, <1>2
<1>4. cidx \in Subbufs  BY <1>1, Sizes DEF Subbufs
<1>5. cpus \in Seq(online)  BY <1>1
<1> QED  BY <1>1, <1>3, <1>4, <1>5 DEF ListInv

LEMMA CommitPending ==
  ASSUME NEW b, "pending" \in DOMAIN b, NEW from, NEW end
  PROVE  LET d == Commit(b, from, end) IN d.pending = b.pending /\ "pending" \in DOMAIN d
BY DEF Commit, Deliver

LEMMA SwitchPending ==
  ASSUME NEW b, "pending" \in DOMAIN b, NEW p
  PROVE  LET d == SwitchNewStart(SwitchOldEnd(b), p) IN
         d.pending = b.pending /\ "pending" \in DOMAIN d
<1> DEFINE e == SwitchOldEnd(b)
<1>1. e.pending = b.pending /\ "pending" \in DOMAIN e
  <2>1. CASE b.offset % subbuf_size = 0  BY <2>1 DEF SwitchOldEnd
  <2>2. CASE b.offset % subbuf_size # 0
    <3> DEFINE d == [b EXCEPT !.data_size[Index(b.offset)] = b.offset % subbuf_size]
    <3>1. d.pending = b.pending /\ "pending" \in DOMAIN d  OBVIOUS
    <3>2. e = Commit(d, b.offset, align(b.offset, subbuf_size))  BY <2>2 DEF SwitchOldEnd
    <3> HIDE DEF d, e
    <3> QED  BY <3>1, <3>2, CommitPending
  <2> QED  BY <2>1, <2>2
<1> HIDE DEF e
<1> DEFINE d == [e EXCEPT !.cell[Index(p) * subbuf_size] = Plain(p)]
<1>2. d.pending = b.pending /\ "pending" \in DOMAIN d  BY <1>1
<1>3. SwitchNewStart(e, p) = Commit(d, p, p + 1)  BY DEF SwitchNewStart
<1> HIDE DEF d
<1> QED  BY <1>2, <1>3, CommitPending DEF e

LEMMA ReserveList ==
  ASSUME MaxNesting <= 2, DumpInv, ListInv, NEW c \in CPUs, reserve(c) PROVE ListInv'
<1> DEFINE b == buf[c]
<1>1. PICK k \in RecordSizes :
        LET d == Moved(b, k)  e == Begin(b, k) + k IN
        /\ e <= MaxOffset[c] /\ RingInv(b, b.offset)
        /\ Len(b.pending) < MaxNesting /\ b.pending \in Seq(Record)
        /\ d.offset = e /\ d \in Rings
        /\ buf'[c] = d /\ \A i \in CPUs \ {c} : buf'[i] = buf[i]
        /\ pc = "tracing" /\ UNCHANGED <<kernel, online, torn, pc, cpus, cidx, files, metadata>>
  BY ReserveIs
<1> DEFINE d == Moved(b, k)
           e == Begin(b, k) + k
<1>2. d.offset \in 1..MaxOffset[c]
  <2>1. b.offset \in Nat \ {0} /\ d.offset = e /\ e <= MaxOffset[c]  BY <1>1 DEF RingInv
  <2>2. e \in Nat \ {0}
    <3> HIDE DEF b
    <3> QED  BY <2>1, EndLap
  <2>3. MaxOffset[c] \in Nat  BY LttAssumption
  <2> HIDE DEF d, e
  <2> QED  BY <2>1, <2>2, <2>3
<1>3. Len(d.pending) <= MaxNesting
  <2>1. d.pending = Append(b.pending, [from |-> Begin(b, k), end |-> e])
    <3> DEFINE m == IF Fits(b, k) THEN b ELSE SwitchNewStart(SwitchOldEnd(b), Begin(b, k) - 1)
    <3>1. "pending" \in DOMAIN b
      <4>1. b \in Rings  BY <1>1 DEF RingInv
      <4> HIDE DEF b
      <4> QED  BY <4>1 DEF Rings
    <3>2. m.pending = b.pending /\ "pending" \in DOMAIN m
      <4> HIDE DEF b
      <4> QED  BY <3>1, SwitchPending
    <3> HIDE DEF m
    <3> QED  BY <3>2 DEF Moved, Reserved, m
  <2>2. Len(d.pending) = Len(b.pending) + 1 /\ Len(b.pending) \in Nat
    <3> DEFINE x == [from |-> Begin(b, k), end |-> e]
               s == b.pending
    <3>1. s \in Seq(Record) /\ d.pending = Append(s, x)  BY <1>1, <2>1
    <3> HIDE DEF x, s, d
    <3>2. Len(s) \in Nat /\ Len(Append(s, x)) = Len(s) + 1
      BY <3>1, LenProperties, AppendProperties
    <3> QED  BY <3>1, <3>2 DEF s
  <2> DEFINE n == Len(b.pending)
  <2>3. n \in Nat /\ n < MaxNesting /\ MaxNesting \in Nat  BY <1>1, <2>2, LttAssumption
  <2> HIDE DEF n
  <2>4. n + 1 <= MaxNesting  BY <2>3
  <2> QED  BY <2>2, <2>4 DEF n
<1> HIDE DEF d
<1>4. ASSUME NEW i \in CPUs
      PROVE  buf'[i].offset \in 1..MaxOffset[i] /\ Len(buf'[i].pending) <= MaxNesting
  <2>1. CASE i = c
    <3>1. buf'[c] = d  BY <1>1 DEF d
    <3> QED  BY <2>1, <3>1, <1>2, <1>3
  <2>2. CASE i # c  BY <2>2, <1>1 DEF ListInv
  <2> QED  BY <2>1, <2>2
<1> QED  BY <1>1, <1>4 DEF ListInv

LEMMA CommitList ==
  ASSUME DumpInv, ListInv, NEW c \in CPUs, commit(c) PROVE ListInv'
<1> DEFINE b == buf[c]
           n == Len(b.pending)
           r == b.pending[n]
           w == Written(b, r, Over(b))
           d == Commit(w, r.from, r.end)
<1>1. /\ pc = "tracing" /\ b.pending # <<>>
      /\ UNCHANGED <<kernel, online, torn, pc, cpus, cidx, files, metadata>>
      /\ buf' = [buf EXCEPT ![c] = d]
  BY DEF commit, Written, Over
<1>2. b.pending \in Seq(Record) /\ b \in Rings /\ buf \in [CPUs -> Rings]
  BY DEF DumpInv, Rings
<1>3. d.offset = b.offset /\ d.pending = SubSeq(b.pending, 1, n - 1)
  <2>1. w.offset = b.offset /\ w.pending = SubSeq(b.pending, 1, n - 1)
    <3> HIDE DEF r, b
    <3> QED  BY <1>2 DEF Written, Rings
  <2> HIDE DEF w
  <2> QED  BY <2>1 DEF Commit, Deliver
<1>4. Len(d.pending) <= MaxNesting
  <2>1. n \in Nat /\ n # 0  BY <1>1, <1>2, LenProperties, EmptySeq
  <2>2. n <= MaxNesting /\ MaxNesting \in Nat  BY LttAssumption DEF ListInv
  <2>3. Len(SubSeq(b.pending, 1, n - 1)) = n - 1
    <3> DEFINE s == b.pending
    <3>1. n - 1 \in Nat /\ n - 1 <= Len(s) /\ s \in Seq(Record)
      <4>1. Len(s) = n  OBVIOUS
      <4> HIDE DEF n
      <4> QED  BY <4>1, <2>1, <1>2
    <3> HIDE DEF s, n
    <3>2. Len(SubSeq(s, 1, n - 1)) = n - 1  BY <3>1
    <3> QED  BY <3>2 DEF s
  <2> HIDE DEF n, d, b
  <2>4. n - 1 <= MaxNesting  BY <2>1, <2>2
  <2> QED  BY <2>3, <2>4, <1>3
<1> HIDE DEF d
<1>5. ASSUME NEW i \in CPUs
      PROVE  buf'[i].offset \in 1..MaxOffset[i] /\ Len(buf'[i].pending) <= MaxNesting
  <2>1. CASE i = c
    <3>1. buf'[c] = d  BY <1>1, <1>2
    <3> QED  BY <2>1, <3>1, <1>3, <1>4 DEF ListInv
  <2>2. CASE i # c
    <3>1. buf'[i] = buf[i]  BY <2>2, <1>1, <1>2
    <3> QED  BY <3>1 DEF ListInv
  <2> QED  BY <2>1, <2>2
<1> QED  BY <1>1, <1>5 DEF ListInv

LEMMA SwitchList ==
  ASSUME DumpInv, ListInv, NEW c \in CPUs, crash_in_switch(c) PROVE ListInv'
<1> DEFINE b == buf[c]
<1>1. PICK k \in RecordSizes, t \in {"unpushed", "unstarted"} :
        LET e == Begin(b, k) + k
            q == IF t = "unpushed" THEN b.consumed ELSE Pushed(b, e)
        IN  /\ RingInv(b, b.offset) /\ e <= MaxOffset[c]
            /\ buf'[c] = Torn(b, e, q) /\ \A i \in CPUs \ {c} : buf'[i] = buf[i]
            /\ pc = "tracing" /\ pc' = "gdb"
            /\ UNCHANGED <<kernel, online, cpus, cidx, files, metadata>>
  BY SwitchIs
<1> DEFINE e == Begin(b, k) + k
           q == IF t = "unpushed" THEN b.consumed ELSE Pushed(b, e)
           d == Torn(b, e, q)
<1>2. d.offset = e /\ d.pending = b.pending
  <2>1. b \in Rings  BY <1>1 DEF RingInv
  <2> HIDE DEF b, e, q
  <2> QED  BY <2>1 DEF Torn, Rings
<1>3. e \in 1..MaxOffset[c]
  <2>1. b.offset \in Nat \ {0} /\ e <= MaxOffset[c]  BY <1>1 DEF RingInv
  <2>2. e \in Nat \ {0}
    <3> HIDE DEF b
    <3> QED  BY <2>1, EndLap
  <2>3. MaxOffset[c] \in Nat  BY LttAssumption
  <2> HIDE DEF e
  <2> QED  BY <2>1, <2>2, <2>3
<1>4. buf'[c] = d  BY <1>1
<1> HIDE DEF d
<1>5. ASSUME NEW i \in CPUs
      PROVE  buf'[i].offset \in 1..MaxOffset[i] /\ Len(buf'[i].pending) <= MaxNesting
  <2>1. CASE i = c  BY <2>1, <1>2, <1>3, <1>4 DEF ListInv
  <2>2. CASE i # c  BY <2>2, <1>1 DEF ListInv
  <2> QED  BY <2>1, <2>2
<1> QED  BY <1>1, <1>5 DEF ListInv

\* The CPU whose ring is walked.
LEMMA HeadOnline ==
  ASSUME ListInv, cpus # <<>>
  PROVE  LET s == Tail(cpus) IN
         /\ Head(cpus) = cpus[1] /\ Head(cpus) \in online /\ Head(cpus) \in CPUs
         /\ Len(cpus) \in Nat /\ 1 \in 1..Len(cpus)
         /\ s \in Seq(online) /\ Len(s) = Len(cpus) - 1
         /\ \A j \in 1..Len(s) : s[j] = cpus[j + 1] /\ j + 1 \in 2..Len(cpus)
         /\ \A j \in 2..Len(cpus) : j - 1 \in 1..Len(s) /\ s[j - 1] = cpus[j]
         /\ \A j \in 1..Len(cpus) : cpus[j] \in online /\ cpus[j] \in CPUs
<1>1. cpus \in Seq(online) /\ online \subseteq CPUs  BY DEF ListInv
<1>2. Len(cpus) \in Nat /\ Len(cpus) # 0  BY <1>1, EmptySeq, LenProperties
<1>3. \A j \in 1..Len(cpus) : cpus[j] \in online  BY <1>1, LenProperties
<1> QED  BY <1>1, <1>2, <1>3

LEMMA NextList ==
  ASSUME MaxNesting <= 2, DumpInv, ListInv, [Next]_vars PROVE ListInv'
<1>1. CASE crash  BY <1>1 DEF crash, ListInv
<1>2. ASSUME NEW c \in CPUs, reserve(c) PROVE ListInv'
  BY <1>2, ReserveList
<1>3. ASSUME NEW c \in CPUs, commit(c) PROVE ListInv'
  BY <1>3, CommitList
<1>4. ASSUME NEW c \in CPUs, cpu_down(c) PROVE ListInv'
  <2>1. /\ pc = "tracing" /\ online' = online \ {c}
        /\ UNCHANGED <<kernel, buf, torn, pc, cpus, cidx, files, metadata>>
    BY <1>4 DEF cpu_down
  <2>2. cpus = <<>>  BY <2>1 DEF ListInv
  <2>3. cpus' \in Seq(online')  BY <2>1, <2>2
  <2> QED  BY <2>1, <2>3 DEF ListInv
<1>5. ASSUME NEW c \in CPUs, crash_in_switch(c) PROVE ListInv'
  BY <1>5, SwitchList
<1>6. CASE invoke
  <2>1. /\ pc \in {"gdb", "done", "error"} /\ pc' \in {"session", "error"}
        /\ UNCHANGED <<kernel, online, buf, torn, cpus, cidx, metadata>>
    BY <1>6 DEF invoke
  <2> QED  BY <2>1 DEF ListInv
<1>7. CASE find_session_channel
  <2>1. /\ pc = "session" /\ UNCHANGED <<kernel, online, buf, torn, cidx, files>>
        /\ \/ pc' = "error" /\ UNCHANGED <<cpus, metadata>>
           \/ /\ Found # {} /\ metadata' = CHOOSE s \in Found : \A t \in Found : s <= t
              /\ cpus' = get_cpu_list /\ pc' = "cpu"
    BY <1>7 DEF find_session_channel
  <2>2. CASE pc' = "error" /\ UNCHANGED <<cpus, metadata>>
    BY <2>1, <2>2 DEF ListInv
  <2>3. CASE /\ Found # {} /\ metadata' = CHOOSE s \in Found : \A t \in Found : s <= t
             /\ cpus' = get_cpu_list /\ pc' = "cpu"
    <3>1. metadata' \in Nat  BY <2>3, SessionFound DEF ListInv
    <3>2. cpus' \in Seq(online)  BY <2>3, ListedOnce DEF ListInv
    <3>3. cpus' \in Seq(online')  BY <3>2, <2>1
    <3> QED  BY <2>1, <2>3, <3>1, <3>3 DEF ListInv
  <2> QED  BY <2>1, <2>2, <2>3
<1>8. CASE handle_buffer
  <2>1. /\ pc = "cpu" /\ UNCHANGED <<kernel, online, buf, torn, cpus, files, metadata>>
        /\ \/ cpus = <<>> /\ pc' = "done" /\ UNCHANGED cidx
           \/ cpus # <<>> /\ pc' = "walk" /\ cidx' = Index(buf[Head(cpus)].consumed)
    BY <1>8 DEF handle_buffer
  <2>2. cpus # <<>> => Index(buf[Head(cpus)].consumed) \in Subbufs
    <3> SUFFICES ASSUME cpus # <<>> PROVE Index(buf[Head(cpus)].consumed) \in Subbufs
      OBVIOUS
    <3>1. Head(cpus) \in CPUs  BY HeadOnline
    <3>2. buf[Head(cpus)].consumed \in Nat  BY <3>1 DEF DumpInv, Rings
    <3> QED  BY <3>2, IndexTyped
  <2> QED  BY <2>1, <2>2 DEF ListInv
<1>9. CASE walk
  <2>1. /\ pc = "walk" /\ UNCHANGED <<kernel, online, buf, torn, metadata>>
        /\ \/ pc' = "cpu" /\ cpus' = Tail(cpus) /\ UNCHANGED cidx
           \/ cidx' = (cidx + 1) % num_subbuf /\ UNCHANGED <<pc, cpus>>
    BY <1>9 DEF walk
  <2>2. cpus # <<>> /\ Tail(cpus) \in Seq(online)
    <3>1. cpus # <<>>  BY <2>1 DEF ListInv
    <3> QED  BY <3>1, HeadOnline
  <2>3. (cidx + 1) % num_subbuf \in Subbufs
    <3>1. cidx + 1 \in Int  BY DEF ListInv, Subbufs
    <3> QED  BY <3>1, Sizes, DivMod DEF Subbufs
  <2>4. Tail(cpus) \in Seq(online')  BY <2>1, <2>2
  <2> QED  BY <2>1, <2>2, <2>3, <2>4 DEF ListInv
<1>10. CASE UNCHANGED vars
  BY <1>10 DEF vars, ListInv
<1> QED
  BY <1>1, <1>2, <1>3, <1>4, <1>5, <1>6, <1>7, <1>8, <1>9, <1>10
  DEF Next, kernel_step, dumpltt

LEMMA Typed == ASSUME DumpInv, LapsInv, ListInv PROVE TypeOK
<1>1. ASSUME NEW c \in CPUs
      PROVE  LET b == buf[c] IN
             /\ b.offset \in 1..MaxOffset[c]
             /\ b.consumed \in 0..b.offset
             /\ b.consumed % subbuf_size = 0
             /\ b.cc \in [Subbufs -> 0..(subbuf_size - 1)]
             /\ b.seq \in [Subbufs -> 0..(subbuf_size - 1)]
             /\ b.data_size \in [Subbufs -> 0..subbuf_size]
             /\ b.cell \in [Ring -> Unit]
             /\ Len(b.pending) <= MaxNesting
             /\ files[c] \in Seq(Unit)
  <2> DEFINE b == buf[c]
  <2>1. b \in Rings /\ files[c] \in Seq(Unit) /\ b.consumed % subbuf_size = 0  BY DEF DumpInv
  <2>2. b.consumed <= b.offset
    <3>1. CASE pc = "tracing"
      <4>1. Lapped(b) /\ RingInv(b, b.offset)  BY <3>1 DEF LapsInv, DumpInv
      <4>2. Shaped(b, "no")
        <5> HIDE DEF b
        <5> QED  BY <4>1, <2>1, CrashShape
      <4> QED  BY <4>2 DEF Shaped
    <3>2. CASE pc # "tracing"  BY <3>2 DEF LapsInv, Shaped
    <3> QED  BY <3>1, <3>2
  <2>3. b.consumed \in 0..b.offset
    <3>1. b.consumed \in Nat /\ b.offset \in Nat  BY <2>1 DEF Rings
    <3> HIDE DEF b
    <3> QED  BY <3>1, <2>2
  <2> QED  BY <2>1, <2>3 DEF ListInv, Rings
<1> QED  BY <1>1 DEF TypeOK, LapsInv, ListInv

-----------------------------------------------------------------------------
(* The walk.                                                               *)

\* The file of CPU c has all that is kept of its ring.
Dumped(c) ==
  torn # "unpushed" /\ ~ FullRing(buf[c]) =>
    \A p \in KeptIn(buf[c]) : \E j \in 1..Len(files[c]) : files[c][j].pos = p

\* Turn k of the walk of c's ring is to come.
AtTurn(c, k) ==
  /\ cidx = (Lap(buf[c].consumed) + k) % num_subbuf
  /\ Between(files[c], buf[c].consumed, Bound(buf[c], k))
  /\ KeptTo(files[c], buf[c], k, torn)

WalkInv ==
  /\ \A c \in CPUs : Sorted(files[c], buf[c], torn)
  /\ pc = "session" => \A c \in CPUs : files[c] = <<>>
  /\ pc \in {"cpu", "walk"} => \A i, j \in 1..Len(cpus) : i # j => cpus[i] # cpus[j]
  /\ pc = "cpu" => \A j \in 1..Len(cpus) : files[cpus[j]] = <<>>
  /\ pc = "walk" =>
       /\ \A j \in 2..Len(cpus) : files[cpus[j]] = <<>>
       /\ \E k \in 0..LastTurn(buf[Head(cpus)]) : AtTurn(Head(cpus), k)
  /\ pc \in {"cpu", "walk", "done"} =>
       \A c \in online : (\E j \in 1..Len(cpus) : cpus[j] = c) \/ Dumped(c)

LEMMA EmptySorted ==
  ASSUME NEW b, NEW t, NEW lo, NEW hi PROVE Sorted(<<>>, b, t) /\ Between(<<>>, lo, hi)
<1>1. Len(<<>>) = 0 /\ 1..0 = {}  OBVIOUS
<1> QED  BY <1>1 DEF Sorted, Between

LEMMA InitWalk == Init => WalkInv
<1>1. Init => pc = "tracing" /\ \A c \in CPUs : files[c] = <<>>  BY DEF Init
<1> QED  BY <1>1, EmptySorted DEF WalkInv

LEMMA KernelWalk ==
  ASSUME DumpInv, kernel_step PROVE WalkInv'
<1>1. pc = "tracing" /\ pc' \in {"tracing", "gdb"} /\ files' = files
  <2>1. CASE crash  BY <2>1 DEF crash
  <2>2. ASSUME NEW c \in CPUs, reserve(c) \/ commit(c) \/ cpu_down(c) \/ crash_in_switch(c)
        PROVE  pc = "tracing" /\ pc' \in {"tracing", "gdb"} /\ files' = files
    <3>1. CASE reserve(c)  BY <3>1 DEF reserve, CanReserve
    <3>2. CASE commit(c)  BY <3>2 DEF commit
    <3>3. CASE cpu_down(c)  BY <3>3 DEF cpu_down
    <3>4. CASE crash_in_switch(c)  BY <3>4 DEF crash_in_switch, CanReserve
    <3> QED  BY <2>2, <3>1, <3>2, <3>3, <3>4
  <2> QED  BY <2>1, <2>2 DEF kernel_step
<1>2. \A c \in CPUs : files'[c] = <<>>  BY <1>1 DEF DumpInv
<1>3. \A c \in CPUs : Sorted(files'[c], buf'[c], torn')  BY <1>2, EmptySorted
<1> QED  BY <1>1, <1>3 DEF WalkInv

LEMMA SessionWalk ==
  ASSUME ListInv, WalkInv, invoke \/ find_session_channel PROVE WalkInv'
<1>1. CASE invoke
  <2>1. pc' \in {"session", "error"} /\ \A c \in CPUs : files'[c] = <<>>
    BY <1>1 DEF invoke
  <2>2. \A c \in CPUs : Sorted(files'[c], buf'[c], torn')  BY <2>1, EmptySorted
  <2> QED  BY <2>1, <2>2 DEF WalkInv
<1>2. CASE find_session_channel
  <2>1. /\ pc = "session" /\ UNCHANGED <<kernel, online, buf, torn, cidx, files>>
        /\ pc' = "error" \/ (pc' = "cpu" /\ cpus' = get_cpu_list)
    BY <1>2 DEF find_session_channel
  <2>2. \A c \in CPUs : files'[c] = <<>>  BY <2>1 DEF WalkInv
  <2>3. \A c \in CPUs : Sorted(files'[c], buf'[c], torn')  BY <2>2, EmptySorted
  <2>4. CASE pc' = "error"  BY <2>3, <2>4 DEF WalkInv
  <2>5. CASE pc' = "cpu" /\ cpus' = get_cpu_list
    <3>1. /\ cpus' \in Seq(online)
          /\ \A i, j \in 1..Len(cpus') : i # j => cpus'[i] # cpus'[j]
          /\ \A c \in online : \E j \in 1..Len(cpus') : cpus'[j] = c
      BY <2>5, ListedOnce DEF ListInv
    <3>2. \A j \in 1..Len(cpus') : cpus'[j] \in CPUs
      BY <3>1, LenProperties DEF ListInv
    <3>3. \A c \in online' : \E j \in 1..Len(cpus') : cpus'[j] = c  BY <2>1, <3>1
    <3> QED  BY <2>2, <2>3, <2>5, <3>1, <3>2, <3>3 DEF WalkInv
  <2> QED  BY <2>1, <2>4, <2>5
<1> QED  BY <1>1, <1>2

LEMMA HandleWalk ==
  ASSUME DumpInv, ListInv, WalkInv, handle_buffer PROVE WalkInv'
<1>1. /\ pc = "cpu" /\ UNCHANGED <<kernel, online, buf, torn, cpus, files, metadata>>
      /\ \/ cpus = <<>> /\ pc' = "done"
         \/ cpus # <<>> /\ pc' = "walk" /\ cidx' = Index(buf[Head(cpus)].consumed)
  BY DEF handle_buffer
<1>2. \A c \in CPUs : Sorted(files'[c], buf'[c], torn')  BY <1>1 DEF WalkInv
<1>3. \A c \in online' : (\E j \in 1..Len(cpus') : cpus'[j] = c) \/ Dumped(c)'
  BY <1>1 DEF WalkInv, Dumped
<1>4. CASE pc' = "done"  BY <1>2, <1>3, <1>4 DEF WalkInv
<1>5. CASE cpus # <<>> /\ pc' = "walk" /\ cidx' = Index(buf[Head(cpus)].consumed)
  <2> DEFINE c == Head(cpus)
             b == buf[c]
             C == Lap(b.consumed)
  <2>1. /\ c = cpus[1] /\ c \in CPUs /\ 1 \in 1..Len(cpus) /\ Len(cpus) \in Nat
    BY <1>5, HeadOnline
  <2>2. files[c] = <<>>  BY <1>1, <2>1 DEF WalkInv
  <2>3. \A j \in 2..Len(cpus) : j \in 1..Len(cpus)  BY <2>1
  <2>4. \A j \in 2..Len(cpus) : files[cpus[j]] = <<>>  BY <1>1, <2>3 DEF WalkInv
  <2>5. b.consumed \in Nat /\ b.offset \in Nat  BY <2>1 DEF DumpInv, Rings
  <2>6. C \in Nat /\ Index(b.consumed) = C % num_subbuf /\ C + 0 = C
    <3>1. C \in Nat  BY <2>5, IndexTyped
    <3>2. C + 0 = C
      <4> HIDE DEF C
      <4> QED  BY <3>1
    <3> QED  BY <3>1, <3>2 DEF Lap, Index
  <2>7. Between(files[c], b.consumed, Bound(b, 0))  BY <2>2, EmptySorted
  <2>8. KeptTo(files[c], b, 0, torn)
    <3>1. ASSUME NEW p \in KeptIn(b), Lap(p) < C + 0 PROVE FALSE
      <4>1. p \in b.consumed..(b.offset - 1)  BY DEF KeptIn
      <4> DEFINE z == b.consumed
      <4>2. z \in Nat /\ p \in z..(b.offset - 1) /\ b.offset \in Nat  BY <4>1, <2>5
      <4> HIDE DEF z
      <4>3. p \in Nat /\ z <= p  BY <4>2
      <4>4. C <= Lap(p) /\ Lap(p) \in Nat  BY <4>2, <4>3, LapMonotone, IndexTyped DEF z
      <4> HIDE DEF C
      <4> QED  BY <4>4, <3>1, <2>6
    <3> QED  BY <3>1 DEF KeptTo
  <2>9. 0 \in 0..LastTurn(b)
    <3> DEFINE O == Lap(b.offset)
    <3>1. O \in Nat  BY <2>5, IndexTyped
    <3>2. (O - C) % num_subbuf \in 0..(num_subbuf - 1)
      <4> HIDE DEF O, C
      <4>1. O - C \in Int  BY <3>1, <2>6
      <4> QED  BY <4>1, Sizes, DivMod
    <3> DEFINE L == (O - C) % num_subbuf
    <3>3. L \in Nat
      <4>1. L \in 0..(num_subbuf - 1)  BY <3>2
      <4> HIDE DEF L
      <4> QED  BY <4>1
    <3>4. LastTurn(b) = L  BY DEF LastTurn
    <3> HIDE DEF L
    <3> QED  BY <3>3, <3>4
  <2>10. /\ \A j \in 2..Len(cpus') : files'[cpus'[j]] = <<>>
         /\ \A i, j \in 1..Len(cpus') : i # j => cpus'[i] # cpus'[j]
    BY <1>1, <2>4 DEF WalkInv
  <2>11. cidx' = (C + 0) % num_subbuf  BY <1>5, <2>6
  <2>12. 0 \in 0..LastTurn(buf[Head(cpus)])' /\ AtTurn(Head(cpus), 0)'
    BY <1>1, <2>7, <2>8, <2>9, <2>11 DEF AtTurn
  <2> QED  BY <1>2, <1>3, <1>5, <2>10, <2>12 DEF WalkInv
<1> QED  BY <1>1, <1>4, <1>5

LEMMA TurnWalk ==
  ASSUME DumpInv, LapsInv, ListInv, WalkInv, walk PROVE WalkInv'
<1> DEFINE c == Head(cpus)
           b == buf[c]
           f == files[c]
           L == LastTurn(b)
           C == Lap(b.consumed)
           O == Lap(b.offset)
<1>1. /\ pc = "walk" /\ UNCHANGED <<kernel, online, buf, torn, metadata>>
      /\ LET coffset == Coffset(b, cidx)
             last == cidx = Index(b.offset)
             length == IF last THEN (b.offset % subbuf_size) - coffset ELSE 0
         IN  /\ files' = [files EXCEPT ![c] = @ \o handle_subbuffer(b, cidx, coffset, length)]
             /\ IF last THEN pc' = "cpu" /\ cpus' = Tail(cpus)
                ELSE cidx' = (cidx + 1) % num_subbuf /\ UNCHANGED <<pc, cpus>>
  BY DEF walk
<1>2. cpus # <<>>  BY <1>1 DEF ListInv
<1>3. /\ c = cpus[1] /\ c \in online /\ c \in CPUs /\ 1 \in 1..Len(cpus) /\ Len(cpus) \in Nat
      /\ Len(Tail(cpus)) = Len(cpus) - 1
      /\ \A j \in 1..Len(Tail(cpus)) : Tail(cpus)[j] = cpus[j + 1] /\ j + 1 \in 2..Len(cpus)
      /\ \A j \in 2..Len(cpus) : j - 1 \in 1..Len(Tail(cpus)) /\ Tail(cpus)[j - 1] = cpus[j]
      /\ \A j \in 1..Len(cpus) : cpus[j] \in CPUs
  BY <1>2, HeadOnline
<1>4. /\ b \in Rings /\ Sound(b) /\ b.consumed % subbuf_size = 0 /\ f \in Seq(Unit)
      /\ files \in [CPUs -> Seq(Unit)] /\ Shaped(b, torn)
  BY <1>1, <1>3 DEF DumpInv, LapsInv
<1>5. b.consumed \in Nat /\ b.offset \in Nat /\ C \in Nat /\ O \in Nat
  BY <1>4, IndexTyped DEF Rings
<1>6. PICK k \in 0..L : AtTurn(c, k)  BY <1>1 DEF WalkInv
<1>7. /\ cidx = (C + k) % num_subbuf /\ Between(f, b.consumed, Bound(b, k))
      /\ KeptTo(f, b, k, torn)
  BY <1>6 DEF AtTurn
<1>8. /\ L \in 0..(num_subbuf - 1) /\ k \in Nat /\ k <= L
      /\ cidx = Index(b.offset) <=> k = L
      /\ (cidx + 1) % num_subbuf = (C + (k + 1)) % num_subbuf
  <2>1. L = (O - C) % num_subbuf  BY DEF LastTurn
  <2>2. Index(b.offset) = O % num_subbuf  BY DEF Index, Lap
  <2>3. k \in 0..((O - C) % num_subbuf)  BY <2>1
  <2> HIDE DEF O, C, L
  <2>4. /\ (O - C) % num_subbuf \in 0..(num_subbuf - 1)
        /\ (C + k) % num_subbuf = O % num_subbuf <=> k = (O - C) % num_subbuf
        /\ (((C + k) % num_subbuf) + 1) % num_subbuf = (C + (k + 1)) % num_subbuf
    <3>1. C \in Nat /\ O \in Nat  BY <1>5
    <3> HIDE DEF b
    <3> QED  BY <2>3, <3>1, TurnIsLast
  <2>5. L \in 0..(num_subbuf - 1)  BY <2>1, <2>4
  <2>6. k \in Nat /\ k <= L  BY <2>5, Sizes
  <2> QED  BY <2>1, <2>2, <2>4, <2>5, <2>6, <1>7
<1> DEFINE p == Turn(b, k)
           s == f \o p
<1>9. files' = [files EXCEPT ![c] = s]
  <2>1. Coffset(b, cidx) = 0  BY <1>4 DEF Coffset
  <2> DEFINE m == b.offset % subbuf_size
  <2>2. m - 0 = m
    <3>1. m \in 0..(subbuf_size - 1)  BY <1>5, LapOf
    <3> HIDE DEF m
    <3> QED  BY <3>1
  <2>3. p = handle_subbuffer(b, cidx, 0, IF cidx = Index(b.offset) THEN m - 0 ELSE 0)
    <3> HIDE DEF m, b
    <3> QED  BY <1>7, <1>8, <2>2 DEF Turn, m
  <2> QED  BY <1>1, <2>1, <2>3
<1>10. /\ s \in Seq(Unit) /\ Sorted(s, b, torn)
       /\ k # L => Between(s, b.consumed, Bound(b, k + 1))
       /\ KeptTo(s, b, k + 1, torn)
  <2> HIDE DEF b, f
  <2> QED  BY <1>4, <1>7, TurnOrder, TurnKept
<1> HIDE DEF s
<1>11. files'[c] = s /\ \A e \in CPUs \ {c} : files'[e] = files[e]
  <2> HIDE DEF c
  <2> QED  BY <1>3, <1>4, <1>9
<1>12. ASSUME NEW e \in CPUs PROVE Sorted(files'[e], buf'[e], torn')
  <2>1. CASE e = c  BY <2>1, <1>1, <1>10, <1>11
  <2>2. CASE e # c  BY <2>2, <1>1, <1>11 DEF WalkInv
  <2> QED  BY <2>1, <2>2
<1>13. \A i, j \in 1..Len(cpus) : i # j => cpus[i] # cpus[j]  BY <1>1 DEF WalkInv
<1>14. ASSUME NEW j \in 2..Len(cpus) PROVE j \in 1..Len(cpus) /\ cpus[j] # c /\ files'[cpus[j]] = <<>>
  <2>1. j \in 1..Len(cpus) /\ j # 1
    <3> HIDE DEF c
    <3> QED  BY <1>3
  <2>2. cpus[j] # c /\ cpus[j] \in CPUs  BY <2>1, <1>3, <1>13
  <2>3. files[cpus[j]] = <<>>  BY <1>1 DEF WalkInv
  <2> QED  BY <2>1, <2>2, <2>3, <1>11
<1>15. ASSUME NEW e \in online, e # c, ~ \E j \in 2..Len(cpus) : cpus[j] = e
       PROVE  Dumped(e)'
  <2>1. ~ \E j \in 1..Len(cpus) : cpus[j] = e
    <3>1. \A j \in 1..Len(cpus) : j = 1 \/ j \in 2..Len(cpus)  BY <1>3
    <3> QED  BY <3>1, <1>3, <1>15
  <2>2. Dumped(e)  BY <2>1, <1>1 DEF WalkInv
  <2>3. files'[e] = files[e] /\ e \in CPUs  BY <1>11, <1>15 DEF ListInv
  <2> QED  BY <2>2, <2>3, <1>1 DEF Dumped
<1>16. CASE k = L
  <2>1. pc' = "cpu" /\ cpus' = Tail(cpus)  BY <1>1, <1>8, <1>16
  <2>2. \A j \in 1..Len(cpus') : files'[cpus'[j]] = <<>>  BY <2>1, <1>3, <1>14
  <2>3. ASSUME NEW i \in 1..Len(cpus'), NEW j \in 1..Len(cpus'), i # j PROVE cpus'[i] # cpus'[j]
    <3>1. cpus'[i] = cpus[i + 1] /\ cpus'[j] = cpus[j + 1]  BY <2>1, <1>3
    <3>2. i + 1 \in 1..Len(cpus) /\ j + 1 \in 1..Len(cpus)
      <4>1. i + 1 \in 2..Len(cpus) /\ j + 1 \in 2..Len(cpus)  BY <2>1, <1>3
      <4> QED  BY <4>1, <1>14
    <3>3. i + 1 # j + 1  BY <2>3
    <3> QED  BY <3>1, <3>2, <3>3, <1>13
  <2>4. \A x \in KeptIn(b) : torn # "unpushed" /\ ~ FullRing(b)
          => \E j \in 1..Len(s) : s[j].pos = x
    <3> SUFFICES ASSUME torn # "unpushed", ~ FullRing(b), NEW x \in KeptIn(b)
                 PROVE  \E j \in 1..Len(s) : s[j].pos = x
      OBVIOUS
    <3> DEFINE q == Lap(x)
    <3>1. q - C \in 0..L  BY <1>4 DEF Shaped, Taken
    <3>2. q \in Nat
      <4>1. x \in b.consumed..(b.offset - 1)  BY DEF KeptIn
      <4> DEFINE z == b.consumed
      <4>2. z \in Nat /\ x \in z..(b.offset - 1)  BY <4>1, <1>5
      <4> HIDE DEF z
      <4>3. x \in Nat  BY <4>2, <1>5
      <4> QED  BY <4>3, IndexTyped
    <3>3. q < C + (k + 1)
      <4>1. L \in Nat
        <5> HIDE DEF L
        <5> QED  BY <1>8, Sizes
      <4> HIDE DEF q, C, L
      <4> QED  BY <3>1, <3>2, <4>1, <1>5, <1>8, <1>16
    <3> QED  BY <3>3, <1>10 DEF KeptTo
  <2>5. ASSUME NEW e \in online, e = c PROVE Dumped(e)'
    <3>1. buf'[e] = b /\ files'[e] = s /\ torn' = torn  BY <2>5, <1>1, <1>11
    <3>2. torn' # "unpushed" /\ ~ FullRing(buf'[e]) =>
            \A x \in KeptIn(buf'[e]) : \E j \in 1..Len(files'[e]) : files'[e][j].pos = x
      <4> HIDE DEF b, c
      <4> QED  BY <3>1, <2>4
    <3> QED  BY <3>2 DEF Dumped
  <2>6. ASSUME NEW e \in online' PROVE (\E j \in 1..Len(cpus') : cpus'[j] = e) \/ Dumped(e)'
    <3>1. e \in online  BY <1>1
    <3>2. CASE e = c  BY <3>1, <3>2, <2>5
    <3>3. CASE \E j \in 2..Len(cpus) : cpus[j] = e
      <4>1. PICK j \in 2..Len(cpus) : cpus[j] = e  BY <3>3
      <4>2. j - 1 \in 1..Len(cpus') /\ cpus'[j - 1] = e  BY <4>1, <2>1, <1>3
      <4> QED  BY <4>2
    <3>4. CASE e # c /\ ~ \E j \in 2..Len(cpus) : cpus[j] = e  BY <3>1, <3>4, <1>15
    <3> QED  BY <3>2, <3>3, <3>4
  <2> QED  BY <2>1, <2>2, <2>3, <2>6, <1>12 DEF WalkInv
<1>17. CASE k # L
  <2>1. pc' = "walk" /\ cpus' = cpus /\ cidx' = (C + (k + 1)) % num_subbuf
    BY <1>1, <1>8, <1>17
  <2>2. k + 1 \in 0..L
    <3> HIDE DEF L
    <3> QED  BY <1>8, <1>17
  <2>3. AtTurn(Head(cpus), k + 1)'  BY <2>1, <1>1, <1>10, <1>11, <1>17 DEF AtTurn
  <2>4. k + 1 \in 0..LastTurn(buf[Head(cpus)])'  BY <2>1, <2>2, <1>1
  <2>5. ASSUME NEW e \in online' PROVE (\E j \in 1..Len(cpus') : cpus'[j] = e) \/ Dumped(e)'
    <3>1. e \in online  BY <1>1
    <3>2. CASE e = c  BY <3>2, <2>1, <1>3
    <3>3. CASE \E j \in 2..Len(cpus) : cpus[j] = e  BY <3>3, <2>1, <1>14
    <3>4. CASE e # c /\ ~ \E j \in 2..Len(cpus) : cpus[j] = e  BY <3>1, <3>4, <1>15
    <3> QED  BY <3>2, <3>3, <3>4
  <2>6. \A j \in 2..Len(cpus') : files'[cpus'[j]] = <<>>  BY <2>1, <1>14
  <2>7. \A i, j \in 1..Len(cpus') : i # j => cpus'[i] # cpus'[j]  BY <2>1, <1>13
  <2> QED  BY <2>1, <2>3, <2>4, <2>5, <2>6, <2>7, <1>12 DEF WalkInv
<1> QED  BY <1>16, <1>17

LEMMA NextWalk ==
  ASSUME DumpInv, LapsInv, ListInv, WalkInv, [Next]_vars PROVE WalkInv'
<1>1. CASE UNCHANGED vars
  <2>1. UNCHANGED <<online, buf, torn, pc, cpus, cidx, files>>  BY <1>1 DEF vars
  <2>2. \A c \in CPUs : Dumped(c)' <=> Dumped(c)  BY <2>1 DEF Dumped
  <2>3. \A k : AtTurn(Head(cpus), k)' <=> AtTurn(Head(cpus), k)  BY <2>1 DEF AtTurn
  <2> QED  BY <2>1, <2>2, <2>3 DEF WalkInv, ListInv
<1> QED
  BY <1>1, KernelWalk, SessionWalk, HandleWalk, TurnWalk DEF Next, dumpltt

LEMMA WalkAlways ==
  ASSUME MaxNesting <= 2 PROVE Spec => [](DumpInv /\ LapsInv /\ ListInv /\ WalkInv)
<1> DEFINE Inv == DumpInv /\ LapsInv /\ ListInv /\ WalkInv
<1>1. Init => Inv  BY InitDump, InitLaps, InitList, InitWalk
<1>2. Inv /\ [Next]_vars => Inv'  BY NextDump, NextLaps, NextList, NextWalk
<1> QED  BY <1>1, <1>2, PTL DEF Spec

-----------------------------------------------------------------------------
(* The theorems.                                                           *)

\* The rings, the files and the lists that invoke works on have their types, and
\* consumed never passes offset (the fields that ltt.py:336-410 reads).
THEOREM TypeCorrect == ASSUME MaxNesting <= 2 PROVE Spec => []TypeOK
<1>1. DumpInv /\ LapsInv /\ ListInv => TypeOK  BY Typed
<1> QED  BY <1>1, WalkAlways, PTL

\* However often the ring was overwritten, wherever the crash came and however
\* often dumpltt is run, the file of a CPU is in the order in which it was
\* written: the loop of handle_buffer (ltt.py:389-410) takes nothing stale and
\* nothing twice, but for the last packet of a crash inside a switch.
THEOREM FilesInOrder == ASSUME MaxNesting <= 2 PROVE Spec => []InOrder
<1>1. ASSUME DumpInv, WalkInv PROVE InOrder
  <2> SUFFICES ASSUME NEW c \in CPUs, NEW j \in Trusted(files[c]), files[c][j].pos # -1
               PROVE  /\ files[c][j].pos \in buf[c].consumed..(buf[c].offset - 1)
                      /\ \A i \in 1..(j - 1) : files[c][i].pos < files[c][j].pos
    BY DEF InOrder
  <2>1. files[c] \in Seq(Unit)  BY <1>1 DEF DumpInv
  <2>2. DOMAIN files[c] = 1..Len(files[c])  BY <2>1, LenProperties
  <2>3. j \in 1..Len(files[c]) /\ (torn = "no" \/ \E h \in Headers(files[c]) : j < h)
    BY <2>2 DEF Trusted
  <2>4. Sorted(files[c], buf[c], torn)  BY <1>1 DEF WalkInv
  <2> QED  BY <2>3, <2>4 DEF Sorted
<1> QED  BY <1>1, WalkAlways, PTL

\* A finished dump leaves out nothing that the kernel kept of an online CPU's
\* ring, but for laps with a commit out of order: neither the start of the loop at
\* consumed nor its end at offset (ltt.py:389-410) loses a subbuffer.
THEOREM DumpsComplete == ASSUME MaxNesting <= 2 PROVE Spec => []DumpComplete
<1>1. ASSUME DumpInv, ListInv, WalkInv PROVE DumpComplete
  <2> SUFFICES ASSUME pc = "done", torn # "unpushed", NEW c \in online, ~ FullRing(buf[c]),
                      NEW p \in Kept(c)
               PROVE  p \in Positions(c)
    BY DEF DumpComplete
  <2>1. cpus = <<>> /\ c \in CPUs  BY <1>1 DEF ListInv
  <2>2. Dumped(c)
    <3>1. 1..Len(cpus) = {}  BY <2>1
    <3> QED  BY <3>1, <1>1 DEF WalkInv
  <2>3. p \in KeptIn(buf[c])  BY DEF Kept, KeptIn
  <2>4. PICK j \in 1..Len(files[c]) : files[c][j].pos = p  BY <2>2, <2>3 DEF Dumped
  <2>5. files[c] \in Seq(Unit) /\ buf[c] \in Rings  BY <1>1, <2>1 DEF DumpInv
  <2>6. j \in DOMAIN files[c]  BY <2>4, <2>5, LenProperties
  <2>7. p # -1
    <3> DEFINE z == buf[c].consumed
               y == buf[c].offset
    <3>1. p \in z..(y - 1) /\ z \in Nat /\ y \in Nat  BY <2>3, <2>5 DEF KeptIn, Rings
    <3> HIDE DEF z, y
    <3> QED  BY <3>1
  <2> QED  BY <2>4, <2>6, <2>7 DEF Positions
<1> QED  BY <1>1, WalkAlways, PTL

===============================================================================
