------------------------------- MODULE LttProofs -------------------------------
(* What the trace that dumpltt takes out of a dump can be relied on for,   *)
(* for rings of any size, as long as no more than two records of a CPU are *)
(* open at a time.                                                         *)
EXTENDS LttDump, SequenceTheorems, TLAPS

-----------------------------------------------------------------------------
(* Division.                                                               *)

LEMMA DivMod ==
  ASSUME NEW d \in Nat \ {0}, NEW a \in Int
  PROVE  a \div d \in Int /\ a % d \in 0..(d - 1) /\ a = d * (a \div d) + (a % d)
OBVIOUS

LEMMA Multiple ==
  ASSUME NEW d \in Nat \ {0}, NEW x \in Int, x > 0 PROVE d * x >= d
OBVIOUS

LEMMA DivUnique ==
  ASSUME NEW d \in Nat \ {0}, NEW k \in Int, NEW r \in 0..(d - 1)
  PROVE  (d * k + r) \div d = k /\ (d * k + r) % d = r
<1> DEFINE a == d * k + r
           e == a \div d
           m == a % d
<1>1. a \in Int /\ e \in Int /\ m \in 0..(d - 1) /\ a = d * e + m
  BY DivMod
<1>2. d * (e - k) = d * e - d * k /\ d * (k - e) = d * k - d * e  BY <1>1
<1>3. d * (e - k) = r - m /\ d * (k - e) = m - r
  <2> HIDE DEF e, m
  <2> QED  BY <1>1, <1>2
<1> HIDE DEF a, e, m
<1>4. e <= k
  <2> SUFFICES ASSUME e > k PROVE FALSE  BY <1>1
  <2>1. d * (e - k) >= d  BY <1>1, Multiple
  <2> QED  BY <2>1, <1>1, <1>3
<1>5. k <= e
  <2> SUFFICES ASSUME k > e PROVE FALSE  BY <1>1
  <2>1. d * (k - e) >= d  BY <1>1, Multiple
  <2> QED  BY <2>1, <1>1, <1>3
<1>6. e = k  BY <1>1, <1>4, <1>5
<1>7. m = r
  <2>1. d * (e - k) = 0  BY <1>6
  <2> QED  BY <2>1, <1>1, <1>3
<1> QED  BY <1>6, <1>7 DEF a, e, m

\* A remainder is what is left when multiples are taken away.
LEMMA ModOf ==
  ASSUME NEW d \in Nat \ {0}, NEW a \in Int, NEW k \in Int, a - d * k \in 0..(d - 1)
  PROVE  a % d = a - d * k /\ a \div d = k
<1> DEFINE r == a - d * k
<1>1. d * k \in Int  OBVIOUS
<1>2. a = d * k + r  BY <1>1
<1> HIDE DEF r
<1>3. (d * k + r) \div d = k /\ (d * k + r) % d = r  BY DivUnique DEF r
<1> QED  BY <1>2, <1>3 DEF r

LEMMA ModSum ==
  ASSUME NEW d \in Nat \ {0}, NEW a \in Int, NEW b \in Int
  PROVE  ((a % d) + b) % d = (a + b) % d
<1> DEFINE k == a \div d
           c == (a % d) + b
           e == c \div d
<1>1. k \in Int /\ a = d * k + (a % d) /\ a % d \in Int  BY DivMod
<1>2. c \in Int  BY <1>1
<1>3. e \in Int /\ c % d \in 0..(d - 1) /\ c = d * e + (c % d)
  <2> HIDE DEF c
  <2> QED  BY <1>2, DivMod
<1>4. d * (k + e) = d * k + d * e  BY <1>1, <1>3
<1>5. (a + b) - d * (k + e) = c % d
  <2>1. d * k \in Int /\ d * e \in Int  BY <1>1, <1>3
  <2>2. a + b = d * k + c  BY <1>1, <2>1
  <2> DEFINE x == d * k
             y == d * e
             z == d * (k + e)
             w == c % d
  <2>3. x \in Int /\ y \in Int /\ z = x + y /\ c = y + w /\ w \in Int
    BY <1>3, <1>4, <2>1
  <2>4. a + b = x + c  BY <2>2
  <2> HIDE DEF k, c, e, x, y, z, w
  <2>5. (a + b) - z = w  BY <1>2, <2>3, <2>4
  <2> QED  BY <2>5 DEF z, w
<1>6. k + e \in Int /\ a + b \in Int  BY <1>1, <1>3
<1> HIDE DEF k, c, e
<1>7. (a + b) % d = (a + b) - d * (k + e)  BY <1>3, <1>5, <1>6, ModOf
<1> QED  BY <1>5, <1>7 DEF c

\* Numbers whose difference is less than d are equal if it is a multiple of d.
LEMMA ModZero ==
  ASSUME NEW d \in Nat \ {0}, NEW a \in Int, -d < a, a < d, a % d = 0
  PROVE  a = 0
<1>1. CASE a < 0
  <2>1. a - d * (-1) = a + d /\ a + d \in 0..(d - 1)  BY <1>1
  <2>2. a % d = a + d  BY <2>1, ModOf
  <2> QED  BY <2>2
<1>2. CASE a >= 0
  <2>1. a - d * 0 = a /\ a \in 0..(d - 1)  BY <1>2
  <2>2. a % d = a  BY <2>1, ModOf
  <2> QED  BY <2>2
<1> QED  BY <1>1, <1>2

LEMMA ModSmall ==
  ASSUME NEW d \in Nat \ {0}, NEW a \in 0..(d - 1) PROVE a % d = a /\ a \div d = 0
<1>1. a - d * 0 = a  OBVIOUS
<1> QED  BY <1>1, ModOf

LEMMA ModEqual ==
  ASSUME NEW d \in Nat \ {0}, NEW a \in Int, NEW c \in 0..(d - 1)
  PROVE  (a - c) % d = 0 <=> a % d = c
<1> DEFINE m == a % d
<1>1. m \in 0..(d - 1)  BY DivMod
<1>2. (m + (-c)) % d = (a + (-c)) % d
  <2>1. -c \in Int  OBVIOUS
  <2>2. ((a % d) + (-c)) % d = (a + (-c)) % d  BY <2>1, ModSum
  <2> QED  BY <2>2
<1>3. a + (-c) = a - c  OBVIOUS
<1> HIDE DEF m
<1>4. m + (-c) \in Int /\ -d < m + (-c) /\ m + (-c) < d  BY <1>1
<1>5. (m + (-c)) % d = 0 => m + (-c) = 0  BY <1>4, ModZero
<1>6. m = c => (m + (-c)) % d = 0
  <2>1. 0 % d = 0  BY ModSmall
  <2> QED  BY <2>1, <1>1
<1> QED  BY <1>1, <1>2, <1>3, <1>5, <1>6 DEF m

-----------------------------------------------------------------------------
(* Positions and their places in the ring.                                 *)

LEMMA Sizes ==
  /\ subbuf_size \in Nat \ {0} /\ subbuf_size >= 2
  /\ num_subbuf \in Nat \ {0} /\ num_subbuf >= 2
  /\ num_subbuf * subbuf_size \in Nat \ {0}
<1>1. subbuf_size \in Nat \ {0, 1} /\ num_subbuf \in Nat \ {0, 1}  BY LttAssumption
<1>2. num_subbuf * subbuf_size >= num_subbuf
  <2>1. subbuf_size > 0  BY <1>1
  <2> QED  BY <2>1, <1>1, Multiple
<1> QED  BY <1>1, <1>2

LEMMA IndexTyped ==
  ASSUME NEW p \in Nat PROVE Lap(p) \in Nat /\ Index(p) \in Subbufs
<1>1. p \div subbuf_size \in Nat  BY Sizes
<1>2. (p \div subbuf_size) % num_subbuf \in 0..(num_subbuf - 1)  BY <1>1, Sizes, DivMod
<1> QED  BY <1>1, <1>2 DEF Lap, Index, Subbufs

\* A position is in the subbuffer that starts at h if it is less than its size above h.
LEMMA InSubbuffer ==
  ASSUME NEW h \in Nat, h % subbuf_size = 0, NEW q \in 0..(subbuf_size - 1)
  PROVE  /\ (h + q) % subbuf_size = q
         /\ Lap(h + q) = Lap(h) /\ Index(h + q) = Index(h)
<1> DEFINE k == h \div subbuf_size
           m == subbuf_size * k
<1>1. k \in Int /\ h = m
  <2>1. h = subbuf_size * k + (h % subbuf_size) /\ k \in Int  BY Sizes, DivMod
  <2>2. subbuf_size * k \in Int  BY <2>1, Sizes
  <2> QED  BY <2>1, <2>2
<1>2. (h + q) - m = q
  <2> HIDE DEF m
  <2> QED  BY <1>1
<1>3. (h + q) % subbuf_size = q /\ (h + q) \div subbuf_size = k
  <2>1. h + q \in Int /\ (h + q) - subbuf_size * k \in 0..(subbuf_size - 1)
    BY <1>2, Sizes
  <2>2. (h + q) % subbuf_size = (h + q) - m /\ (h + q) \div subbuf_size = k
    <3> HIDE DEF k
    <3> QED  BY <2>1, <1>1, Sizes, ModOf
  <2> QED  BY <2>2, <1>2
<1> QED  BY <1>3 DEF Lap, Index

LEMMA NextIndex ==
  ASSUME NEW a \in Nat PROVE (a + 1) % num_subbuf # a % num_subbuf
<1> SUFFICES ASSUME (a + 1) % num_subbuf = a % num_subbuf PROVE FALSE
  OBVIOUS
<1> DEFINE k == a \div num_subbuf
           e == (a + 1) \div num_subbuf
           m == a % num_subbuf
<1>1. k \in Int /\ m \in Int /\ a = num_subbuf * k + m  BY Sizes, DivMod
<1>2. e \in Int /\ a + 1 = num_subbuf * e + m
  <2>1. a + 1 = num_subbuf * e + ((a + 1) % num_subbuf) /\ e \in Int  BY Sizes, DivMod
  <2> QED  BY <2>1
<1>3. num_subbuf * (e - k) = num_subbuf * e - num_subbuf * k  BY <1>1, <1>2, Sizes
<1> DEFINE x == num_subbuf * k
           y == num_subbuf * e
           z == num_subbuf * (e - k)
<1>4. z = 1
  <2>1. x \in Int /\ y \in Int /\ z = y - x /\ a = x + m /\ a + 1 = y + m
    BY <1>1, <1>2, <1>3, Sizes
  <2> HIDE DEF x, y, z, m
  <2> QED  BY <2>1, <1>1
<1> HIDE DEF k, e, m
<1>5. CASE e - k > 0
  <2>1. z >= num_subbuf  BY <1>1, <1>2, <1>5, Sizes, Multiple
  <2> QED  BY <2>1, <1>4, Sizes
<1>6. CASE e - k = 0
  <2>1. z = 0  BY <1>6, Sizes
  <2> QED  BY <2>1, <1>4
<1>7. CASE k - e > 0
  <2>1. num_subbuf * (k - e) >= num_subbuf  BY <1>1, <1>2, <1>7, Sizes, Multiple
  <2>2. num_subbuf * (k - e) = - z  BY <1>1, <1>2, Sizes
  <2> HIDE DEF z
  <2> QED  BY <2>1, <2>2, <1>4, Sizes
<1> QED  BY <1>1, <1>2, <1>5, <1>6, <1>7

LEMMA NextSubbuffer ==
  ASSUME NEW h \in Nat, h % subbuf_size = 0
  PROVE  /\ (h + subbuf_size) % subbuf_size = 0
         /\ Lap(h + subbuf_size) = Lap(h) + 1 /\ Index(h + subbuf_size) # Index(h)
<1> DEFINE k == h \div subbuf_size
           n == h + subbuf_size
<1>1. k \in Nat /\ h = subbuf_size * k
  <2>1. h = subbuf_size * k + (h % subbuf_size) /\ k \in Nat  BY Sizes, DivMod
  <2>2. subbuf_size * k \in Int  BY <2>1, Sizes
  <2> QED  BY <2>1, <2>2
<1>2. subbuf_size * (k + 1) = subbuf_size * k + subbuf_size  BY <1>1, Sizes
<1>3. n - subbuf_size * (k + 1) = 0
  <2> DEFINE x == subbuf_size * k
             y == subbuf_size * (k + 1)
  <2>1. x \in Int /\ y = x + subbuf_size /\ h = x  BY <1>1, <1>2, Sizes
  <2> HIDE DEF x, y
  <2>2. n - y = 0  BY <2>1, Sizes
  <2> QED  BY <2>2 DEF y
<1>4. n \in Int /\ k + 1 \in Int /\ 0 \in 0..(subbuf_size - 1)  BY <1>1, Sizes
<1>5. n % subbuf_size = 0 /\ n \div subbuf_size = k + 1
  <2> HIDE DEF k, n
  <2>1. n - subbuf_size * (k + 1) \in 0..(subbuf_size - 1)  BY <1>3, <1>4
  <2> QED  BY <2>1, <1>3, <1>4, Sizes, ModOf
<1>6. (k + 1) % num_subbuf # k % num_subbuf  BY <1>1, NextIndex
<1> QED  BY <1>5, <1>6 DEF Lap, Index

\* Where a position is in the ring.
LEMMA PlaceOf ==
  ASSUME NEW p \in Nat
  PROVE  p % (num_subbuf * subbuf_size) = (Index(p) * subbuf_size) + (p % subbuf_size)
<1> DEFINE l == p \div subbuf_size
           m == p % subbuf_size
           e == l \div num_subbuf
           i == l % num_subbuf
           M == num_subbuf * subbuf_size
<1>1. l \in Nat /\ m \in 0..(subbuf_size - 1) /\ p = subbuf_size * l + m
  <2>1. l \in Nat  BY Sizes
  <2> QED  BY <2>1, Sizes, DivMod
<1>2. e \in Int /\ i \in 0..(num_subbuf - 1) /\ l = num_subbuf * e + i
  <2> HIDE DEF l
  <2>1. l \in Int /\ num_subbuf \in Nat \ {0}  BY <1>1, Sizes
  <2> QED  BY <2>1, DivMod
<1> HIDE DEF l, m, e, i
<1>3. subbuf_size * l = M * e + i * subbuf_size
  <2>1. subbuf_size * (num_subbuf * e + i) = (num_subbuf * subbuf_size) * e + i * subbuf_size
    BY <1>2, Sizes
  <2> QED  BY <2>1, <1>2
<1>4. i * subbuf_size \in Nat /\ i * subbuf_size <= M - subbuf_size
  <2>1. num_subbuf - 1 - i >= 0  BY <1>2, Sizes
  <2>2. (num_subbuf - 1 - i) * subbuf_size >= 0  BY <2>1, <1>2, Sizes
  <2>3. (num_subbuf - 1 - i) * subbuf_size = M - subbuf_size - i * subbuf_size
    BY <1>2, Sizes
  <2> QED  BY <2>2, <2>3, <1>2, Sizes
<1> DEFINE u == i * subbuf_size
           v == M * e
           w == subbuf_size * l
<1>5. p - M * e = u + m /\ u + m \in 0..(M - 1)
  <2>1. u \in Nat /\ u <= M - subbuf_size /\ v \in Int /\ w = v + u /\ p = w + m
        /\ M \in Nat
    BY <1>1, <1>2, <1>3, <1>4, Sizes
  <2> HIDE DEF u, v, w, M
  <2>2. p - v = u + m /\ u + m \in 0..(M - 1)  BY <2>1, <1>1, Sizes
  <2> QED  BY <2>2 DEF v
<1>6. p % M = u + m
  <2>1. M \in Nat \ {0}  BY Sizes
  <2>2. p - M * e \in 0..(M - 1) /\ p \in Int /\ e \in Int  BY <1>2, <1>5
  <2> HIDE DEF M, u
  <2>3. p % M = p - M * e  BY <2>1, <2>2, ModOf
  <2> QED  BY <2>3, <1>5
<1> QED  BY <1>6 DEF Index, i, l, m

LEMMA SlotInRing ==
  ASSUME NEW i \in Subbufs, NEW q \in 0..(subbuf_size - 1)
  PROVE  (i * subbuf_size) + q \in Ring /\ i * subbuf_size \in Ring
<1> DEFINE M == num_subbuf * subbuf_size
           u == i * subbuf_size
<1>1. u \in Nat /\ u <= M - subbuf_size /\ M \in Nat
  <2>1. num_subbuf - 1 - i >= 0 /\ i \in Nat  BY Sizes DEF Subbufs
  <2>2. (num_subbuf - 1 - i) * subbuf_size >= 0  BY <2>1, Sizes
  <2>3. (num_subbuf - 1 - i) * subbuf_size = M - subbuf_size - u
    BY <2>1, Sizes
  <2> QED  BY <2>1, <2>2, <2>3, Sizes
<1> HIDE DEF M, u
<1>2. u + q \in 0..(M - 1) /\ u \in 0..(M - 1)  BY <1>1, Sizes
<1> QED  BY <1>2 DEF M, u, Ring

LEMMA SlotUnique ==
  ASSUME NEW i \in Subbufs, NEW j \in Subbufs,
         NEW q \in 0..(subbuf_size - 1), NEW r \in 0..(subbuf_size - 1),
         (i * subbuf_size) + q = (j * subbuf_size) + r
  PROVE  i = j /\ q = r
<1>1. (subbuf_size * i) + q = (subbuf_size * j) + r  BY Sizes DEF Subbufs
<1>2. i \in Int /\ j \in Int  BY DEF Subbufs
<1>3. ((subbuf_size * i) + q) \div subbuf_size = i /\ ((subbuf_size * i) + q) % subbuf_size = q
  BY <1>2, Sizes, DivUnique
<1>4. ((subbuf_size * j) + r) \div subbuf_size = j /\ ((subbuf_size * j) + r) % subbuf_size = r
  BY <1>2, Sizes, DivUnique
<1> QED  BY <1>1, <1>3, <1>4

LEMMA HeaderUnique ==
  ASSUME NEW i \in Subbufs, NEW j \in Subbufs, i * subbuf_size = j * subbuf_size
  PROVE  i = j
<1>1. 0 \in 0..(subbuf_size - 1)  BY Sizes
<1>2. (i * subbuf_size) + 0 = (j * subbuf_size) + 0  OBVIOUS
<1> QED  BY <1>1, <1>2, SlotUnique

LEMMA RingIsSlots ==
  ASSUME NEW x \in Ring
  PROVE  \E i \in Subbufs, q \in 0..(subbuf_size - 1) : x = (i * subbuf_size) + q
<1>1. x \in Nat /\ x < num_subbuf * subbuf_size  BY Sizes DEF Ring
<1>2. x % (num_subbuf * subbuf_size) = x
  <2> DEFINE M == num_subbuf * subbuf_size
  <2>1. M \in Nat \ {0}  BY Sizes
  <2>2. x \in 0..(M - 1)  BY DEF Ring
  <2> HIDE DEF M
  <2>3. x % M = x  BY <2>1, <2>2, ModSmall
  <2> QED  BY <2>3 DEF M
<1>3. Index(x) \in Subbufs /\ x % subbuf_size \in 0..(subbuf_size - 1)
  BY <1>1, IndexTyped, DivMod, Sizes
<1> QED  BY <1>1, <1>2, <1>3, PlaceOf

\* Rounding up.
LEMMA AlignUp ==
  ASSUME NEW v \in Nat, NEW a \in Nat \ {0}
  PROVE  /\ align(v, a) \in Nat /\ align(v, a) % a = 0
         /\ align(v, a) >= v /\ align(v, a) < v + a
<1> DEFINE c == v + a - 1
           k == c \div a
           m == c % a
           w == k * a
<1>1. c \in Nat /\ k \in Nat /\ m \in 0..(a - 1) /\ c = a * k + m
  <2>1. c \in Nat  OBVIOUS
  <2> HIDE DEF c
  <2>2. k \in Nat  BY <2>1
  <2> QED  BY <2>1, <2>2, DivMod
<1>2. w = a * k /\ w \in Nat
  <2> HIDE DEF k
  <2> QED  BY <1>1
<1>3. w >= v /\ w < v + a
  <2>1. c = w + m  BY <1>1, <1>2
  <2>2. c = v + a - 1  OBVIOUS
  <2> HIDE DEF c, w, m
  <2> QED  BY <2>1, <2>2, <1>1, <1>2
<1>4. w % a = 0
  <2>1. w = a * k + 0  BY <1>2
  <2> HIDE DEF w, k
  <2>2. k \in Int /\ 0 \in 0..(a - 1)  BY <1>1
  <2>3. (a * k + 0) % a = 0  BY <2>2, DivUnique
  <2> QED  BY <2>1, <2>3
<1> HIDE DEF w, k, c, m
<1> QED  BY <1>2, <1>3, <1>4 DEF align, w, k, c

\* The start of the subbuffer of a position.
Start(p) == p - (p % subbuf_size)

LEMMA StartOf ==
  ASSUME NEW p \in Nat
  PROVE  /\ Start(p) \in Nat /\ Start(p) % subbuf_size = 0
         /\ p - Start(p) \in 0..(subbuf_size - 1) /\ p - Start(p) = p % subbuf_size
         /\ Start(p) <= p /\ Index(Start(p)) = Index(p) /\ Lap(Start(p)) = Lap(p)
         /\ Start(p) = Lap(p) * subbuf_size
<1> DEFINE k == p \div subbuf_size
           m == p % subbuf_size
           w == subbuf_size * k
<1>1. k \in Nat /\ m \in 0..(subbuf_size - 1) /\ p = w + m /\ w \in Nat
  <2>1. k \in Nat  BY Sizes
  <2>2. p = subbuf_size * k + m /\ m \in 0..(subbuf_size - 1)  BY Sizes, DivMod
  <2>3. w \in Nat  BY <2>1, Sizes
  <2> QED  BY <2>1, <2>2, <2>3
<1>2. Start(p) = w
  <2> HIDE DEF w
  <2> QED  BY <1>1 DEF Start
<1>3. w % subbuf_size = 0 /\ w \div subbuf_size = k
  <2>1. k \in Int /\ 0 \in 0..(subbuf_size - 1)  BY <1>1, Sizes
  <2> HIDE DEF k
  <2>2. ((subbuf_size * k) + 0) % subbuf_size = 0 /\ ((subbuf_size * k) + 0) \div subbuf_size = k
    BY <2>1, Sizes, DivUnique
  <2>3. (subbuf_size * k) + 0 = w  BY <2>1, Sizes
  <2> QED  BY <2>2, <2>3
<1>4. Lap(p) = k /\ Lap(w) = k  BY <1>3 DEF Lap
<1>5. Index(w) = Index(p)  BY <1>3 DEF Index
<1>6. w = k * subbuf_size
  <2> HIDE DEF k
  <2> QED  BY <1>1, Sizes
<1> HIDE DEF w, m
<1>7. p - w = m /\ w <= p  BY <1>1
<1> QED  BY <1>1, <1>2, <1>3, <1>4, <1>5, <1>6, <1>7 DEF m

LEMMA StartIs ==
  ASSUME NEW h \in Nat, h % subbuf_size = 0, NEW q \in 0..(subbuf_size - 1)
  PROVE  Start(h + q) = h
<1>1. (h + q) % subbuf_size = q  BY InSubbuffer
<1> QED  BY <1>1, Sizes DEF Start

\* A subbuffer is one step of subbuf_size above another or at least that.
LEMMA StartsApart ==
  ASSUME NEW h \in Nat, NEW g \in Nat, h % subbuf_size = 0, g % subbuf_size = 0, g < h
  PROVE  g + subbuf_size <= h
<1> SUFFICES ASSUME h < g + subbuf_size PROVE FALSE
  BY Sizes
<1> DEFINE q == h - g
<1>1. q \in 1..(subbuf_size - 1) /\ q \in 0..(subbuf_size - 1) /\ g + q = h  BY Sizes
<1> HIDE DEF q
<1>2. (g + q) % subbuf_size = q  BY <1>1, InSubbuffer
<1> QED  BY <1>1, <1>2

LEMMA NextStart ==
  ASSUME NEW h \in Nat, h % subbuf_size = 0, NEW q \in 1..subbuf_size
  PROVE  align(h + q, subbuf_size) = h + subbuf_size
<1> DEFINE x == align(h + q, subbuf_size)
           n == h + subbuf_size
<1>1. x \in Nat /\ x % subbuf_size = 0 /\ x >= h + q /\ x < h + q + subbuf_size
  <2>1. h + q \in Nat  BY Sizes
  <2> QED  BY <2>1, Sizes, AlignUp
<1> HIDE DEF x
<1>2. n \in Nat /\ n % subbuf_size = 0
  <2>1. (h + subbuf_size) % subbuf_size = 0  BY NextSubbuffer
  <2> QED  BY <2>1, Sizes
<1>3. x >= n
  <2>1. h < x  BY <1>1
  <2>2. h + subbuf_size <= x  BY <1>1, <2>1, StartsApart
  <2> QED  BY <2>2
<1>4. x <= n
  <2> SUFFICES ASSUME n < x PROVE FALSE
    BY <1>1, <1>2
  <2> HIDE DEF n
  <2>1. n + subbuf_size <= x  BY <1>1, <1>2, StartsApart
  <2>2. n = h + subbuf_size  BY DEF n
  <2> QED  BY <2>1, <2>2, <1>1, <1>2, Sizes
<1>5. x = n
  <2> HIDE DEF n
  <2> QED  BY <1>1, <1>2, <1>3, <1>4
<1> QED  BY <1>5 DEF x

\* The place in the ring of a position in the subbuffer at h.
LEMMA PlaceIs ==
  ASSUME NEW h \in Nat, h % subbuf_size = 0, NEW q \in 0..(subbuf_size - 1)
  PROVE  (h + q) % (num_subbuf * subbuf_size) = (Index(h) * subbuf_size) + q
<1>1. h + q \in Nat  BY Sizes
<1> QED  BY <1>1, InSubbuffer, PlaceOf

-----------------------------------------------------------------------------
(* A ring of which all before position o is reserved.                      *)

Record == [from : Nat, end : Nat]

Rings ==
  [offset : Nat, consumed : Nat, cc : [Subbufs -> 0..(subbuf_size - 1)],
   seq : [Subbufs -> 0..(subbuf_size - 1)], data_size : [Subbufs -> 0..subbuf_size],
   cell : [Ring -> Unit], pending : Seq(Record), overtaken : SUBSET Nat]

\* Where subbuffer i starts: the position of its header.
First(b, i) == b.cell[i * subbuf_size].pos

\* Subbuffer i is being filled.
Current(o, i) == o % subbuf_size # 0 /\ i = Index(o)

\* How much of it is reserved, padding included, and how much of it is data.
Used(b, o, i) ==
  IF Current(o, i) THEN o % subbuf_size
  ELSE IF First(b, i) = -1 THEN 0 ELSE subbuf_size
Data(b, o, i) == IF Current(o, i) THEN o % subbuf_size ELSE b.data_size[i]

\* What the k-th open record, and all of them, have in subbuffer i.
Size(b, k, i) ==
  IF k <= Len(b.pending) /\ Index(b.pending[k].from) = i
  THEN b.pending[k].end - b.pending[k].from ELSE 0
Open(b, i) == Size(b, 1, i) + Size(b, 2, i)

Held(b, p) ==
  \E k \in 1..Len(b.pending) : p \in b.pending[k].from..(b.pending[k].end - 1)

\* cc has what is reserved and not open.
Counted(b, o, i) == b.cc[i] = (Used(b, o, i) - Open(b, i)) % subbuf_size

Started(b, o, i) ==
  LET f == First(b, i) IN
  /\ Current(o, i) => f = Start(o)
  /\ f = -1 => b.seq[i] = 0 /\ b.data_size[i] = 0
  /\ f # -1 => /\ f \in Nat /\ f % subbuf_size = 0 /\ Index(f) = i
               /\ f + Data(b, o, i) <= o

\* What ltt.py takes is data, and all data that is not open was written.
Readable(b, o, i) ==
  LET f == First(b, i) IN
  f # -1 =>
    /\ Committed(b, i) \in 1..Data(b, o, i)
    /\ Current(o, i) => b.seq[i] # 0
    /\ \A q \in 0..(Data(b, o, i) - 1) :
         b.cell[(i * subbuf_size) + q].pos = f + q \/ Held(b, f + q)

\* The header has its end when all of the subbuffer is committed.
Ended(b, o, i) ==
  LET e == b.cell[i * subbuf_size].end IN
  e # 0 => /\ ~ Current(o, i) /\ First(b, i) # -1
           /\ e = First(b, i) + b.data_size[i]

Slot(b, o, i) ==
  Counted(b, o, i) /\ Started(b, o, i) /\ Readable(b, o, i) /\ Ended(b, o, i)

\* An open record is inside a subbuffer, and behind what ltt.py takes of it.
Pending(b, o, k) ==
  LET r == b.pending[k]  i == Index(r.from) IN
  /\ r.from < r.end /\ r.end <= o
  /\ Start(r.from) < r.from /\ r.end <= Start(r.from) + subbuf_size
  /\ First(b, i) = Start(r.from)
  /\ Start(r.from) + Committed(b, i) <= r.from

\* The record of an interrupt is behind the one it interrupted, and the last.
Nested(b, o) ==
  /\ Len(b.pending) <= 2
  /\ Len(b.pending) = 2 => b.pending[1].end <= b.pending[2].from /\ b.pending[2].end = o

\* A position is only in its own place.
Placed(b) ==
  \A x \in Ring : b.cell[x].pos = -1 \/
    (b.cell[x].pos \in Nat /\ b.cell[x].pos % (num_subbuf * subbuf_size) = x)

RingInv(b, o) ==
  /\ b \in Rings /\ o \in Nat \ {0}
  /\ \A i \in Subbufs : Slot(b, o, i)
  /\ \A k \in 1..Len(b.pending) : Pending(b, o, k)
  /\ Nested(b, o) /\ Placed(b)

LEMMA HeaderInRing ==
  ASSUME NEW i \in Subbufs PROVE i * subbuf_size \in Ring
<1>1. 0 \in 0..(subbuf_size - 1)  BY Sizes
<1> QED  BY <1>1, SlotInRing

LEMMA UsedTyped ==
  ASSUME NEW b, NEW o, RingInv(b, o), NEW i \in Subbufs
  PROVE  /\ Used(b, o, i) \in 0..subbuf_size /\ Data(b, o, i) \in 0..subbuf_size
         /\ First(b, i) # -1 => Used(b, o, i) > 0
         /\ Current(o, i) => o = Start(o) + (o % subbuf_size) /\ o % subbuf_size \in 1..(subbuf_size - 1)
<1>1. o \in Nat /\ b \in Rings  BY DEF RingInv
<1>2. o % subbuf_size \in 0..(subbuf_size - 1)  BY <1>1, Sizes, DivMod
<1>3. b.data_size[i] \in 0..subbuf_size  BY <1>1 DEF Rings
<1>4. o = Start(o) + (o % subbuf_size)  BY <1>1, <1>2, Sizes DEF Start
<1> QED  BY <1>2, <1>3, <1>4, Sizes DEF Used, Data, Current

\* Where open record k is.
LEMMA RecordIn ==
  ASSUME NEW b, NEW o, RingInv(b, o), NEW k \in 1..Len(b.pending)
  PROVE  LET r == b.pending[k]  i == Index(r.from)  f == Start(r.from) IN
         /\ r \in Record /\ i \in Subbufs /\ f \in Nat /\ f % subbuf_size = 0
         /\ First(b, i) = f /\ Index(f) = i
         /\ f < r.from /\ r.from < r.end /\ r.end <= f + Used(b, o, i)
         /\ r.end <= f + subbuf_size /\ f + Committed(b, i) <= r.from
<1> DEFINE r == b.pending[k]
           i == Index(r.from)
           f == Start(r.from)
<1>1. b \in Rings /\ o \in Nat /\ Pending(b, o, k)  BY DEF RingInv
<1>2. r \in Record /\ r.from \in Nat /\ r.end \in Nat
  <2>1. b.pending \in Seq(Record)  BY <1>1 DEF Rings
  <2>2. r \in Record  BY <2>1, ElementOfSeq
  <2> QED  BY <2>2 DEF Record
<1>3. i \in Subbufs  BY <1>2, IndexTyped
<1>4. f \in Nat /\ f % subbuf_size = 0 /\ Index(f) = i  BY <1>2, StartOf
<1>5. /\ First(b, i) = f /\ f < r.from /\ r.from < r.end /\ r.end <= o
      /\ r.end <= f + subbuf_size /\ f + Committed(b, i) <= r.from
  BY <1>1 DEF Pending
<1>6. r.end <= f + Used(b, o, i)
  <2>1. CASE Current(o, i)
    <3>1. Slot(b, o, i)  BY <1>3 DEF RingInv
    <3>2. f = Start(o)  BY <2>1, <3>1, <1>5 DEF Slot, Started
    <3>3. o = Start(o) + (o % subbuf_size)  BY <1>3, <2>1, UsedTyped
    <3> QED  BY <2>1, <3>2, <3>3, <1>5 DEF Used
  <2>2. CASE ~ Current(o, i)
    <3>1. f # -1  BY <1>4
    <3> QED  BY <2>2, <3>1, <1>5 DEF Used
  <2> QED  BY <2>1, <2>2
<1> QED  BY <1>2, <1>3, <1>4, <1>5, <1>6

\* Open records are less than what is reserved: the header is never open.
LEMMA OpenBound ==
  ASSUME NEW b, NEW o, RingInv(b, o), NEW i \in Subbufs
  PROVE  /\ Open(b, i) \in Nat
         /\ Open(b, i) # 0 => Open(b, i) < Used(b, o, i)
         /\ Open(b, i) = 0 => \A k \in 1..Len(b.pending) : Index(b.pending[k].from) # i
<1>1. b \in Rings /\ Len(b.pending) \in Nat /\ Len(b.pending) <= 2 /\ Used(b, o, i) \in Nat
  <2>1. Used(b, o, i) \in 0..subbuf_size  BY UsedTyped
  <2>2. b \in Rings /\ Len(b.pending) <= 2  BY DEF RingInv, Nested
  <2>3. Len(b.pending) \in Nat  BY <2>2, LenProperties DEF Rings
  <2> QED  BY <2>1, <2>2, <2>3, Sizes
<1>2. ASSUME NEW k \in 1..2
      PROVE  /\ Size(b, k, i) \in Nat
             /\ k <= Len(b.pending) /\ Index(b.pending[k].from) = i => Size(b, k, i) > 0
             /\ Size(b, k, i) < Used(b, o, i) \/ Size(b, k, i) = 0
  <2>1. CASE k <= Len(b.pending) /\ Index(b.pending[k].from) = i
    <3> DEFINE r == b.pending[k]
    <3>1. k \in 1..Len(b.pending)  BY <2>1, <1>1
    <3>2. /\ r \in Record /\ Start(r.from) \in Nat
          /\ Start(r.from) < r.from /\ r.from < r.end
          /\ r.end <= Start(r.from) + Used(b, o, i)
      BY <3>1, <2>1, RecordIn
    <3>3. r.from \in Nat /\ r.end \in Nat  BY <3>2 DEF Record
    <3>4. Size(b, k, i) = r.end - r.from  BY <2>1 DEF Size
    <3> DEFINE x == r.from
               y == r.end
               h == Start(r.from)
               u == Used(b, o, i)
    <3>5. x \in Nat /\ y \in Nat /\ h \in Nat /\ u \in Nat /\ h < x /\ x < y /\ y <= h + u
          /\ Size(b, k, i) = y - x
      BY <3>2, <3>3, <3>4, <1>1
    <3> HIDE DEF r, x, y, h, u
    <3>6. y - x \in Nat /\ y - x > 0 /\ y - x < u  BY <3>5
    <3> QED  BY <3>5, <3>6 DEF u
  <2>2. CASE ~ (k <= Len(b.pending) /\ Index(b.pending[k].from) = i)
    BY <2>2 DEF Size
  <2> QED  BY <2>1, <2>2
<1>3. Open(b, i) = Size(b, 1, i) + Size(b, 2, i)  BY DEF Open
<1>4. ASSUME Size(b, 1, i) # 0, Size(b, 2, i) # 0
      PROVE  Size(b, 1, i) + Size(b, 2, i) < Used(b, o, i)
  <2> DEFINE r == b.pending[1]
             s == b.pending[2]
  <2>1. /\ Len(b.pending) = 2 /\ Index(r.from) = i /\ Index(s.from) = i
        /\ Size(b, 1, i) = r.end - r.from /\ Size(b, 2, i) = s.end - s.from
    <3>1. Index(r.from) = i /\ Size(b, 1, i) = r.end - r.from  BY <1>4 DEF Size
    <3>2. /\ 2 <= Len(b.pending) /\ Index(s.from) = i
          /\ Size(b, 2, i) = s.end - s.from
      BY <1>4 DEF Size
    <3>3. Len(b.pending) = 2
      <4> DEFINE N == Len(b.pending)
      <4>1. N \in Nat /\ N <= 2 /\ 2 <= N  BY <3>2, <1>1
      <4> HIDE DEF N
      <4>2. N = 2  BY <4>1
      <4> QED  BY <4>2 DEF N
    <3> QED  BY <3>1, <3>2, <3>3
  <2>2. /\ r \in Record /\ Start(r.from) \in Nat /\ Start(r.from) = First(b, i)
        /\ Start(r.from) < r.from /\ r.from < r.end
    BY <2>1, RecordIn
  <2>3. /\ s \in Record /\ Start(s.from) = First(b, i)
        /\ s.end <= Start(s.from) + Used(b, o, i) /\ s.from < s.end
    BY <2>1, RecordIn
  <2>4. r.end <= s.from  BY <2>1 DEF RingInv, Nested
  <2>5. r.from \in Nat /\ r.end \in Nat /\ s.from \in Nat /\ s.end \in Nat
    BY <2>2, <2>3 DEF Record
  <2> HIDE DEF r, s
  <2> QED  BY <2>1, <2>2, <2>3, <2>4, <2>5, <1>1
<1>5. Open(b, i) \in Nat /\ (Open(b, i) # 0 => Open(b, i) < Used(b, o, i))
  BY <1>1, <1>2, <1>3, <1>4
<1>6. ASSUME Open(b, i) = 0, NEW k \in 1..Len(b.pending)
      PROVE  Index(b.pending[k].from) # i
  <2>1. k \in 1..2  BY <1>1
  <2>2. Size(b, 1, i) = 0 /\ Size(b, 2, i) = 0  BY <1>2, <1>3, <1>6
  <2>3. Size(b, k, i) = 0  BY <2>1, <2>2
  <2> QED  BY <2>1, <2>3, <1>2
<1> QED  BY <1>5, <1>6

\* What a commit changes: cc and perhaps seq, and the header when cc is round.
AfterCommit(b, from, end, c) ==
  LET i == Index(from)
      cc == (b.cc[i] + end - from) % subbuf_size
  IN  /\ i \in Subbufs /\ cc \in 0..(subbuf_size - 1) /\ c \in Rings
      /\ c.offset = b.offset /\ c.consumed = b.consumed
      /\ c.data_size = b.data_size /\ c.pending = b.pending
      /\ c.cc = [b.cc EXCEPT ![i] = cc]
      /\ c.seq = [b.seq EXCEPT ![i] = IF end % subbuf_size = cc THEN cc ELSE @]
      /\ \A x \in Ring : c.cell[x].pos = b.cell[x].pos
      /\ \A x \in Ring : c.cell[x].end =
           IF x = i * subbuf_size /\ cc = 0
           THEN (Lap(from) * subbuf_size) + b.data_size[i] ELSE b.cell[x].end

LEMMA CommitEffect ==
  ASSUME NEW b \in Rings, NEW from \in Nat, NEW end \in Nat, from <= end
  PROVE  AfterCommit(b, from, end, Commit(b, from, end))
<1> DEFINE i == Index(from)
           cc == (b.cc[i] + end - from) % subbuf_size
           sq == IF end % subbuf_size = cc THEN cc ELSE b.seq[i]
           d == [b EXCEPT !.cc[i] = cc, !.seq[i] = sq]
           c == Commit(b, from, end)
           lap == Lap(from)
           e == (lap * subbuf_size) + b.data_size[i]
           s == b.data_size[i]
           x0 == i * subbuf_size
<1>1. i \in Subbufs /\ lap \in Nat /\ x0 \in Ring  BY IndexTyped, HeaderInRing
<1>2. b.cc[i] \in 0..(subbuf_size - 1) /\ b.seq[i] \in 0..(subbuf_size - 1)
  BY <1>1 DEF Rings
<1>3. cc \in 0..(subbuf_size - 1)
  <2>1. b.cc[i] + end - from \in Int  BY <1>2, Sizes
  <2> QED  BY <2>1, Sizes, DivMod
<1>4. c = Deliver(d, lap)
  <2>1. (end - cc) % subbuf_size = 0 <=> end % subbuf_size = cc
    <3>1. end \in Int /\ subbuf_size \in Nat \ {0}  BY Sizes
    <3> HIDE DEF cc
    <3> QED  BY <1>3, <3>1, ModEqual
  <2> QED  BY <2>1 DEF Commit
<1>5. Index(from) = lap % num_subbuf  BY DEF Index, Lap
<1>6. s \in 0..subbuf_size /\ e \in Nat
  <2>1. s \in 0..subbuf_size  BY <1>1 DEF Rings
  <2>2. lap * subbuf_size \in Nat  BY <1>1, Sizes
  <2> QED  BY <2>1, <2>2, Sizes
<1>7. sq \in 0..(subbuf_size - 1)  BY <1>2, <1>3
<1> HIDE DEF i, cc, sq, c, lap, e, x0
<1>8. /\ d \in Rings /\ d.offset = b.offset /\ d.consumed = b.consumed
      /\ d.data_size = b.data_size /\ d.pending = b.pending /\ d.cell = b.cell
      /\ d.cc = [b.cc EXCEPT ![i] = cc] /\ d.seq = [b.seq EXCEPT ![i] = sq]
      /\ d.cc[i] = cc
  BY <1>1, <1>3, <1>7 DEF Rings
<1> HIDE DEF d
<1>9. CASE cc # 0
  <2>1. c = d  BY <1>4, <1>5, <1>8, <1>9 DEF Deliver, i
  <2> QED  BY <2>1, <1>1, <1>3, <1>8, <1>9 DEF AfterCommit, i, cc, sq, c, lap, x0
<1>10. CASE cc = 0
  <2> DEFINE u == [d.cell[x0] EXCEPT !.end = e, !.content = s, !.packet = subbuf_size]
             g == [d.cell EXCEPT ![x0] = u]
  <2>1. d.cell \in [Ring -> Unit] /\ d.cell[x0] \in Unit
    BY <1>1, <1>8 DEF Rings
  <2>2. u \in Unit /\ u.pos = b.cell[x0].pos /\ u.end = e
    <3> DEFINE y == d.cell[x0]
    <3>1. y \in Unit /\ y.pos = b.cell[x0].pos  BY <2>1, <1>8
    <3>2. e \in Nat /\ s \in Nat /\ subbuf_size \in Nat  BY <1>6, Sizes
    <3> HIDE DEF y, s
    <3> DEFINE w == [y EXCEPT !.end = e, !.content = s, !.packet = subbuf_size]
    <3>3. w.pos = y.pos /\ w.end = e  BY <3>1 DEF Unit
    <3>4. w \in Unit  BY <3>1, <3>2 DEF Unit
    <3> QED  BY <3>1, <3>3, <3>4 DEF y
  <2>3. c = [d EXCEPT !.cell = g]
    <3>1. c = [d EXCEPT !.cell[x0].end = e, !.cell[x0].content = s,
                        !.cell[x0].packet = subbuf_size]
      BY <1>4, <1>5, <1>8, <1>10 DEF Deliver, i, e, x0
    <3> QED  BY <3>1, <2>1, <1>1 DEF Unit
  <2> HIDE DEF u
  <2>4. g \in [Ring -> Unit] /\ g[x0] = u /\ \A x \in Ring : x # x0 => g[x] = b.cell[x]
    BY <2>1, <2>2, <1>1, <1>8
  <2> HIDE DEF g
  <2>5. /\ c \in Rings /\ c.offset = d.offset /\ c.consumed = d.consumed
        /\ c.data_size = d.data_size /\ c.pending = d.pending /\ c.cell = g
        /\ c.cc = d.cc /\ c.seq = d.seq
    BY <2>3, <2>4, <1>8 DEF Rings
  <2>6. \A x \in Ring : c.cell[x].pos = b.cell[x].pos  BY <2>2, <2>4, <2>5
  <2>7. \A x \in Ring : c.cell[x].end = IF x = x0 THEN e ELSE b.cell[x].end
    BY <2>2, <2>4, <2>5
  <2> QED  BY <2>5, <2>6, <2>7, <1>1, <1>3, <1>8, <1>10 DEF AfterCommit, i, cc, sq, c, lap, e, x0
<1> QED  BY <1>9, <1>10

\* What nothing was done to is as it was.
LEMMA SlotFrame ==
  ASSUME NEW b \in Rings, NEW c \in Rings, NEW o \in Nat, NEW p \in Nat, o <= p,
         NEW i \in Subbufs, Slot(b, o, i),
         Current(o, i) \/ Current(p, i) => o = p,
         c.cc[i] = b.cc[i], c.seq[i] = b.seq[i], c.data_size[i] = b.data_size[i],
         \A q \in 0..(subbuf_size - 1) :
           c.cell[(i * subbuf_size) + q].pos = b.cell[(i * subbuf_size) + q].pos,
         c.cell[i * subbuf_size].end = b.cell[i * subbuf_size].end,
         Open(c, i) = Open(b, i),
         \A q \in 0..(subbuf_size - 1) : Held(b, First(b, i) + q) => Held(c, First(b, i) + q)
  PROVE  Slot(c, p, i) /\ First(c, i) = First(b, i) /\ Committed(c, i) = Committed(b, i)
<1>1. First(c, i) = First(b, i)
  <2>1. 0 \in 0..(subbuf_size - 1) /\ (i * subbuf_size) + 0 = i * subbuf_size
    BY Sizes DEF Subbufs
  <2> QED  BY <2>1 DEF First
<1>2. Current(p, i) <=> Current(o, i)  OBVIOUS
<1>3. Used(c, p, i) = Used(b, o, i) /\ Data(c, p, i) = Data(b, o, i)
  BY <1>1, <1>2 DEF Used, Data
<1>4. Committed(c, i) = Committed(b, i)  BY DEF Committed
<1>5. Data(b, o, i) \in 0..subbuf_size
  <2>1. o % subbuf_size \in 0..(subbuf_size - 1)  BY Sizes, DivMod
  <2>2. b.data_size[i] \in 0..subbuf_size  BY DEF Rings
  <2> QED  BY <2>1, <2>2, Sizes DEF Data
<1>6. Counted(c, p, i)  BY <1>3 DEF Slot, Counted
<1>7. Started(c, p, i)
  <2>1. First(b, i) # -1 => First(b, i) + Data(b, o, i) <= p
    BY <1>5, Sizes DEF Slot, Started
  <2> QED  BY <2>1, <1>1, <1>2, <1>3 DEF Slot, Started
<1>8. Readable(c, p, i)
  <2>1. \A q \in 0..(Data(b, o, i) - 1) : q \in 0..(subbuf_size - 1)
    BY <1>5, Sizes
  <2> QED  BY <2>1, <1>1, <1>2, <1>3, <1>4 DEF Slot, Readable
<1>9. Ended(c, p, i)  BY <1>1, <1>2 DEF Slot, Ended
<1> QED  BY <1>1, <1>4, <1>6, <1>7, <1>8, <1>9 DEF Slot

\* Padding the subbuffer that is left.
LEMMA OldEndStep ==
  ASSUME NEW b, NEW o, RingInv(b, o), b.offset = o, o % subbuf_size # 0,
         Len(b.pending) <= 1
  PROVE  LET c == SwitchOldEnd(b)
             a == Start(o) + subbuf_size
         IN /\ align(o, subbuf_size) = a /\ RingInv(c, a) /\ a % subbuf_size = 0
            /\ c.pending = b.pending /\ c.consumed = b.consumed /\ c.offset = b.offset
            /\ \A i \in Subbufs \ {Index(o)} : c.cc[i] = b.cc[i]
            /\ Index(a) # Index(o) /\ o < a
<1> DEFINE i == Index(o)
           f == Start(o)
           a == f + subbuf_size
           n == o % subbuf_size
           x0 == i * subbuf_size
           b1 == [b EXCEPT !.data_size[i] = n]
           c == Commit(b1, o, a)
           cc == (b1.cc[i] + a - o) % subbuf_size
           e == Open(b, i)
<1>1. b \in Rings /\ o \in Nat  BY DEF RingInv
<1>2. /\ f \in Nat /\ f % subbuf_size = 0 /\ Index(f) = i
      /\ n \in 1..(subbuf_size - 1) /\ o = f + n /\ i \in Subbufs
  <2>1. n \in 0..(subbuf_size - 1) /\ o - f = n  BY <1>1, StartOf, Sizes
  <2>2. f \in Nat /\ f % subbuf_size = 0 /\ Index(f) = i  BY <1>1, StartOf
  <2>3. n \in 1..(subbuf_size - 1) /\ o = f + n
    <3>1. n # 0  OBVIOUS
    <3> HIDE DEF n, f
    <3> QED  BY <2>1, <2>2, <3>1, <1>1, Sizes
  <2>4. i \in Subbufs  BY <1>1, IndexTyped
  <2> QED  BY <2>2, <2>3, <2>4
<1>3. align(o, subbuf_size) = a
  <2> HIDE DEF n, f
  <2>1. n \in 1..subbuf_size  BY <1>2, Sizes
  <2>2. align(f + n, subbuf_size) = f + subbuf_size  BY <1>2, <2>1, NextStart
  <2> QED  BY <2>2, <1>2
<1>4. /\ a \in Nat /\ a % subbuf_size = 0 /\ Index(a) # i /\ o < a /\ a - o = subbuf_size - n
  <2> HIDE DEF n, f, i
  <2>1. (f + subbuf_size) % subbuf_size = 0 /\ Index(f + subbuf_size) # Index(f)
    BY <1>2, NextSubbuffer
  <2> QED  BY <2>1, <1>2, Sizes
<1>5. SwitchOldEnd(b) = c  BY <1>3 DEF SwitchOldEnd
<1>6. /\ b1 \in Rings /\ b1.offset = b.offset /\ b1.consumed = b.consumed /\ b1.cc = b.cc
      /\ b1.seq = b.seq /\ b1.cell = b.cell /\ b1.pending = b.pending
      /\ b1.data_size = [b.data_size EXCEPT ![i] = n]
  <2> HIDE DEF n, i
  <2>1. n \in 0..subbuf_size  BY <1>2, Sizes
  <2> QED  BY <1>1, <1>2, <2>1 DEF Rings
<1> HIDE DEF b1
<1>7. /\ cc \in 0..(subbuf_size - 1) /\ c \in Rings
      /\ c.offset = b.offset /\ c.consumed = b.consumed
      /\ c.data_size = [b.data_size EXCEPT ![i] = n] /\ c.pending = b.pending
      /\ c.cc = [b.cc EXCEPT ![i] = cc]
      /\ c.seq = [b.seq EXCEPT ![i] = IF a % subbuf_size = cc THEN cc ELSE @]
      /\ \A x \in Ring : c.cell[x].pos = b.cell[x].pos
      /\ \A x \in Ring : c.cell[x].end =
           IF x = x0 /\ cc = 0 THEN (Lap(o) * subbuf_size) + b1.data_size[i]
           ELSE b.cell[x].end
  <2>1. o <= a /\ a \in Nat /\ o \in Nat /\ b1 \in Rings  BY <1>1, <1>4, <1>6
  <2> HIDE DEF a
  <2>2. /\ cc \in 0..(subbuf_size - 1) /\ c \in Rings
        /\ c.offset = b1.offset /\ c.consumed = b1.consumed
        /\ c.data_size = b1.data_size /\ c.pending = b1.pending
        /\ c.cc = [b1.cc EXCEPT ![i] = cc]
        /\ c.seq = [b1.seq EXCEPT ![i] = IF a % subbuf_size = cc THEN cc ELSE @]
        /\ \A x \in Ring : c.cell[x].pos = b1.cell[x].pos
        /\ \A x \in Ring : c.cell[x].end =
             IF x = x0 /\ cc = 0 THEN (Lap(o) * subbuf_size) + b1.data_size[i]
             ELSE b1.cell[x].end
    <3>1. AfterCommit(b1, o, a, c)  BY <2>1, CommitEffect
    <3> QED  BY <3>1 DEF AfterCommit
  <2> HIDE DEF c, cc, i, x0, n
  <2> QED  BY <2>2, <1>6
<1> HIDE DEF c, cc
<1>8. e \in Nat /\ (e # 0 => e < n) /\ Slot(b, o, i) /\ Current(o, i)
      /\ (e = 0 => \A k \in 1..Len(b.pending) : Index(b.pending[k].from) # i)
  <2>1. Current(o, i) /\ Used(b, o, i) = n  BY DEF Current, Used
  <2> QED  BY <1>2, <2>1, OpenBound DEF RingInv
<1>9. cc = (subbuf_size - e) % subbuf_size
  <2>1. b1.cc[i] = (n - e) % subbuf_size
    BY <1>6, <1>8 DEF Slot, Counted, Used
  <2>2. (((n - e) % subbuf_size) + (a - o)) % subbuf_size = ((n - e) + (a - o)) % subbuf_size
    <3> HIDE DEF n, e, a
    <3>1. n - e \in Int /\ a - o \in Int /\ subbuf_size \in Nat \ {0}
      BY <1>1, <1>2, <1>4, <1>8, Sizes
    <3> QED  BY <3>1, ModSum
  <2>3. (n - e) + (a - o) = subbuf_size - e
    <3> HIDE DEF n, e, a
    <3> QED  BY <1>2, <1>4, <1>8, Sizes
  <2>4. b1.cc[i] + a - o = ((n - e) % subbuf_size) + (a - o)
    <3>1. b1.cc[i] \in Int
      <4>1. b1.cc \in [Subbufs -> 0..(subbuf_size - 1)]  BY <1>6 DEF Rings
      <4>2. i \in Subbufs  BY <1>2
      <4> HIDE DEF i
      <4>3. b1.cc[i] \in 0..(subbuf_size - 1)  BY <4>1, <4>2
      <4> QED  BY <4>3, Sizes
    <3> HIDE DEF a, n, e
    <3> QED  BY <2>1, <3>1, <1>1, <1>4
  <2> QED  BY <2>2, <2>3, <2>4 DEF cc
<1>10. cc = 0 <=> e = 0
  <2>1. CASE e = 0
    <3>1. subbuf_size % subbuf_size = 0
      <4>1. subbuf_size - subbuf_size * 1 = 0  BY Sizes
      <4> QED  BY <4>1, Sizes, ModOf
    <3> QED  BY <2>1, <3>1, <1>9, Sizes
  <2>2. CASE e # 0
    <3>1. subbuf_size - e \in 0..(subbuf_size - 1) /\ subbuf_size - e # 0
      <4> HIDE DEF e, n
      <4> QED  BY <2>2, <1>2, <1>8, Sizes
    <3>2. (subbuf_size - e) % subbuf_size = subbuf_size - e  BY <3>1, Sizes, ModSmall
    <3> QED  BY <2>2, <3>1, <3>2, <1>9
  <2> QED  BY <2>1, <2>2
<1>11. Slot(c, a, i)
  <2>1. First(b, i) = f /\ f # -1 /\ b.seq[i] # 0 /\ Data(b, o, i) = n
    <3>1. First(b, i) = f  BY <1>8 DEF Slot, Started
    <3>2. f # -1  BY <1>2
    <3>3. b.seq[i] # 0  BY <3>1, <3>2, <1>8 DEF Slot, Readable
    <3> QED  BY <3>1, <3>2, <3>3, <1>8 DEF Data
  <2>2. ~ Current(a, i)  BY <1>4 DEF Current
  <2>3. First(c, i) = f
    <3>1. x0 \in Ring  BY <1>2, HeaderInRing
    <3> QED  BY <3>1, <2>1, <1>7 DEF First
  <2>4. Used(c, a, i) = subbuf_size /\ Data(c, a, i) = n /\ c.data_size[i] = n
    <3>1. c.data_size[i] = n
      <4> HIDE DEF i, n
      <4> QED  BY <1>1, <1>2, <1>7 DEF Rings
    <3> QED  BY <3>1, <2>1, <2>2, <2>3 DEF Used, Data
  <2>5. c.cc[i] = cc /\ c.seq[i] = IF cc = 0 THEN 0 ELSE b.seq[i]
    <3>1. a % subbuf_size = 0  BY <1>4
    <3> HIDE DEF i, a
    <3> QED  BY <3>1, <1>1, <1>2, <1>7 DEF Rings
  <2>6. Counted(c, a, i)
    <3>1. Open(c, i) = e  BY <1>7 DEF Open, Size
    <3> QED  BY <3>1, <2>4, <2>5, <1>9 DEF Counted
  <2>7. Started(c, a, i)
    <3> HIDE DEF f, n, i
    <3>1. f + n <= f + subbuf_size  BY <1>2, Sizes
    <3> QED  BY <3>1, <2>2, <2>3, <2>4, <1>2 DEF Started
  <2>8. Committed(c, i) \in 1..n
    <3>1. CASE cc = 0
      <4>1. Committed(c, i) = n  BY <3>1, <2>4, <2>5 DEF Committed
      <4> QED  BY <4>1, <1>2
    <3>2. CASE cc # 0
      <4>1. Committed(c, i) = Committed(b, i)
        BY <3>2, <2>1, <2>5 DEF Committed
      <4> QED  BY <4>1, <2>1, <1>8 DEF Slot, Readable
    <3> QED  BY <3>1, <3>2
  <2>9. Readable(c, a, i)
    <3>1. ASSUME NEW q \in 0..(n - 1)
          PROVE  c.cell[(i * subbuf_size) + q].pos = f + q \/ Held(c, f + q)
      <4>1. q \in 0..(subbuf_size - 1)
        <5> HIDE DEF n
        <5> QED  BY <1>2, Sizes
      <4>2. (i * subbuf_size) + q \in Ring  BY <4>1, <1>2, SlotInRing
      <4>3. b.cell[(i * subbuf_size) + q].pos = f + q \/ Held(b, f + q)
        BY <2>1, <1>8 DEF Slot, Readable
      <4> QED  BY <4>2, <4>3, <1>7 DEF Held
    <3> QED  BY <3>1, <2>2, <2>3, <2>4, <2>8 DEF Readable
  <2>10. Ended(c, a, i)
    <3>1. x0 \in Ring  BY <1>2, HeaderInRing
    <3>2. b.cell[x0].end = 0  BY <1>8 DEF Slot, Ended
    <3>3. b1.data_size[i] = n
      <4> HIDE DEF i, n
      <4> QED  BY <1>1, <1>2, <1>6 DEF Rings
    <3>4. Lap(o) * subbuf_size = f  BY <1>1, StartOf
    <3>5. c.cell[x0].end = IF cc = 0 THEN f + n ELSE 0
      BY <3>1, <3>2, <3>3, <3>4, <1>7
    <3> QED  BY <3>5, <2>1, <2>2, <2>3, <2>4 DEF Ended
  <2> QED  BY <2>6, <2>7, <2>9, <2>10 DEF Slot
<1>12. ASSUME NEW j \in Subbufs, j # i
       PROVE  Slot(c, a, j) /\ First(c, j) = First(b, j) /\ Committed(c, j) = Committed(b, j)
              /\ c.cc[j] = b.cc[j]
  <2>1. ~ Current(o, j) /\ ~ Current(a, j)  BY <1>4, <1>12 DEF Current
  <2>2. c.cc[j] = b.cc[j] /\ c.seq[j] = b.seq[j] /\ c.data_size[j] = b.data_size[j]
    <3> HIDE DEF i, a, n
    <3> QED  BY <1>1, <1>2, <1>7, <1>12 DEF Rings
  <2>3. \A q \in 0..(subbuf_size - 1) :
          c.cell[(j * subbuf_size) + q].pos = b.cell[(j * subbuf_size) + q].pos
    BY <1>7, SlotInRing
  <2>4. c.cell[j * subbuf_size].end = b.cell[j * subbuf_size].end
    <3>1. j * subbuf_size # x0  BY <1>2, <1>12, HeaderUnique
    <3> QED  BY <3>1, <1>7, HeaderInRing
  <2>5. Open(c, j) = Open(b, j) /\ \A x : Held(b, x) => Held(c, x)
    BY <1>7 DEF Open, Size, Held
  <2>6. Slot(b, o, j) /\ o <= a  BY <1>1, <1>4 DEF RingInv
  <2>7. Current(o, j) \/ Current(a, j) => o = a  BY <2>1
  <2>8. \A q \in 0..(subbuf_size - 1) : Held(b, First(b, j) + q) => Held(c, First(b, j) + q)
    BY <2>5
  <2>9. a \in Nat /\ o \in Nat /\ b \in Rings /\ c \in Rings  BY <1>1, <1>4, <1>7
  <2>10. Open(c, j) = Open(b, j)  BY <2>5
  <2> HIDE DEF a
  <2> QED  BY <2>2, <2>3, <2>4, <2>6, <2>7, <2>8, <2>9, <2>10, SlotFrame
<1>13. ASSUME NEW k \in 1..Len(c.pending) PROVE Pending(c, a, k)
  <2> DEFINE r == b.pending[k]
             j == Index(r.from)
  <2>1. c.pending[k] = r /\ k \in 1..Len(b.pending)  BY <1>7
  <2>2. Pending(b, o, k) /\ r \in Record /\ j \in Subbufs
    BY <2>1, RecordIn DEF RingInv
  <2>3. First(c, j) = First(b, j) /\ Committed(c, j) = Committed(b, j)
    <3>1. CASE j = i
      <4>1. e # 0  BY <2>1, <3>1, <1>8
      <4>2. c.seq[i] = b.seq[i] /\ b.seq[i] # 0
        <5>1. cc # 0 /\ a % subbuf_size = 0  BY <4>1, <1>4, <1>10
        <5>2. b.seq[i] # 0
          <6>1. First(b, i) = f /\ f # -1  BY <1>2, <1>8 DEF Slot, Started
          <6> QED  BY <6>1, <1>8 DEF Slot, Readable
        <5> HIDE DEF i, a
        <5>3. c.seq[i] = b.seq[i]  BY <5>1, <1>1, <1>2, <1>7 DEF Rings
        <5> QED  BY <5>2, <5>3
      <4>3. First(c, i) = First(b, i)  BY <1>2, <1>7, HeaderInRing DEF First
      <4> QED  BY <3>1, <4>2, <4>3 DEF Committed
    <3>2. CASE j # i  BY <3>2, <2>2, <1>12
    <3> QED  BY <3>1, <3>2
  <2>4. r.end \in Nat  BY <2>2 DEF Record
  <2>5. r.end <= a
    <3>1. r.end <= o  BY <2>2 DEF Pending
    <3> HIDE DEF a, r
    <3> QED  BY <3>1, <2>4, <1>1, <1>4
  <2> QED
    <3> HIDE DEF a
    <3> QED  BY <2>1, <2>2, <2>3, <2>5 DEF Pending
<1>14. Nested(c, a) /\ Placed(c)
  <2>1. Len(b.pending) \in Nat  BY <1>1, LenProperties DEF Rings
  <2>2. Len(b.pending) <= 2 /\ Len(b.pending) # 2
    <3> DEFINE m == Len(b.pending)
    <3>1. m \in Nat /\ m <= 1  BY <2>1
    <3> HIDE DEF m
    <3>2. m <= 2 /\ m # 2  BY <3>1
    <3> QED  BY <3>2 DEF m
  <2>3. Placed(c)  BY <1>7 DEF RingInv, Placed
  <2> QED  BY <2>2, <2>3, <1>7 DEF Nested
<1>15. RingInv(c, a)
  <2>1. a # 0  BY <1>1, <1>4
  <2> QED  BY <2>1, <1>4, <1>7, <1>11, <1>12, <1>13, <1>14 DEF RingInv
<1> QED  BY <1>3, <1>4, <1>5, <1>7, <1>12, <1>15

\* The header of the subbuffer that starts at position a.
LEMMA NewStartStep ==
  ASSUME NEW b, NEW a, RingInv(b, a), a % subbuf_size = 0, Len(b.pending) <= 1,
         b.cc[Index(a)] = 0
  PROVE  LET c == SwitchNewStart(b, a)
         IN /\ RingInv(c, a + 1) /\ (a + 1) % subbuf_size = 1
            /\ c.pending = b.pending /\ c.consumed = b.consumed /\ c.offset = b.offset
<1> DEFINE i == Index(a)
           x0 == i * subbuf_size
           o == a + 1
           b1 == [b EXCEPT !.cell[x0] = Plain(a)]
           c == Commit(b1, a, o)
           cc == (b1.cc[i] + o - a) % subbuf_size
<1>1. /\ b \in Rings /\ a \in Nat /\ a # 0 /\ o \in Nat /\ a <= o /\ i \in Subbufs
      /\ x0 \in Ring
  <2>1. b \in Rings /\ a \in Nat /\ a # 0  BY DEF RingInv
  <2>2. o \in Nat /\ a <= o  BY <2>1
  <2>3. i \in Subbufs  BY <2>1, IndexTyped
  <2> HIDE DEF i, o
  <2>4. x0 \in Ring  BY <2>3, HeaderInRing
  <2> QED  BY <2>1, <2>2, <2>3, <2>4
<1>2. o % subbuf_size = 1 /\ Index(o) = i /\ Start(o) = a
  <2>1. 1 \in 0..(subbuf_size - 1)  BY Sizes
  <2> QED  BY <2>1, <1>1, InSubbuffer, StartIs
<1>3. SwitchNewStart(b, a) = c  BY DEF SwitchNewStart
<1>4. /\ b1 \in Rings /\ b1.offset = b.offset /\ b1.consumed = b.consumed
      /\ b1.cc = b.cc /\ b1.seq = b.seq /\ b1.data_size = b.data_size
      /\ b1.pending = b.pending
      /\ b1.cell[x0].pos = a /\ b1.cell[x0].end = 0
      /\ \A x \in Ring : x # x0 => b1.cell[x] = b.cell[x]
  <2> DEFINE u == Plain(a)
  <2>1. u \in Unit /\ u.pos = a /\ u.end = 0  BY <1>1 DEF Plain, Unit
  <2> HIDE DEF u, i, x0
  <2>2. b1 = [b EXCEPT !.cell[x0] = u]  BY DEF u
  <2> HIDE DEF b1
  <2> QED  BY <2>1, <2>2, <1>1 DEF Rings
<1> HIDE DEF b1
<1>5. b1.cc[i] = 0 /\ cc = 1
  <2>1. b1.cc[i] = 0  BY <1>4
  <2>2. b1.cc[i] + o - a = 1  BY <2>1, <1>1
  <2>3. 1 % subbuf_size = 1
    <3>1. 1 \in 0..(subbuf_size - 1)  BY Sizes
    <3> QED  BY <3>1, Sizes, ModSmall
  <2> QED  BY <2>1, <2>2, <2>3
<1>6. /\ c \in Rings /\ c.offset = b.offset /\ c.consumed = b.consumed
      /\ c.data_size = b.data_size /\ c.pending = b.pending
      /\ c.cc = [b.cc EXCEPT ![i] = 1] /\ c.seq = [b.seq EXCEPT ![i] = 1]
      /\ \A x \in Ring : c.cell[x].pos = b1.cell[x].pos /\ c.cell[x].end = b1.cell[x].end
  <2>1. AfterCommit(b1, a, o, c)
    <3> HIDE DEF o
    <3> QED  BY <1>1, <1>4, CommitEffect
  <2>2. /\ c \in Rings /\ c.offset = b1.offset /\ c.consumed = b1.consumed
        /\ c.data_size = b1.data_size /\ c.pending = b1.pending
        /\ c.cc = [b1.cc EXCEPT ![i] = cc]
        /\ c.seq = [b1.seq EXCEPT ![i] = IF o % subbuf_size = cc THEN cc ELSE @]
        /\ \A x \in Ring : c.cell[x].pos = b1.cell[x].pos
        /\ \A x \in Ring : c.cell[x].end =
             IF x = x0 /\ cc = 0 THEN (Lap(a) * subbuf_size) + b1.data_size[i]
             ELSE b1.cell[x].end
    BY <2>1 DEF AfterCommit
  <2> HIDE DEF c, cc, i, o, x0
  <2> QED  BY <2>2, <1>2, <1>4, <1>5
<1> HIDE DEF c, cc
<1>7. Open(b, i) = 0 /\ \A k \in 1..Len(b.pending) : Index(b.pending[k].from) # i
  <2> DEFINE e == Open(b, i)
             u == Used(b, a, i)
  <2>1. e \in Nat /\ (e # 0 => e < u) /\ u \in {0, subbuf_size}
    <3>1. ~ Current(a, i)  BY DEF Current
    <3>2. u \in {0, subbuf_size}  BY <3>1 DEF Used
    <3> QED  BY <3>2, <1>1, OpenBound
  <2>2. (u - e) % subbuf_size = 0  BY <1>1 DEF RingInv, Slot, Counted
  <2>3. e = 0
    <3> HIDE DEF e, u
    <3> SUFFICES ASSUME e # 0 PROVE FALSE
      OBVIOUS
    <3>1. u = subbuf_size /\ e < subbuf_size  BY <2>1
    <3>2. u - e \in 0..(subbuf_size - 1) /\ u - e # 0  BY <2>1, <3>1, Sizes
    <3>3. (u - e) % subbuf_size = u - e  BY <3>2, Sizes, ModSmall
    <3> QED  BY <2>2, <3>2, <3>3
  <2> QED  BY <2>3, <1>1, OpenBound
<1>8. Slot(c, o, i)
  <2>1. Current(o, i)  BY <1>2 DEF Current
  <2>2. First(c, i) = a /\ a # -1 /\ c.cell[x0].end = 0
    <3>1. c.cell[x0].pos = a /\ c.cell[x0].end = 0  BY <1>1, <1>4, <1>6
    <3> QED  BY <3>1, <1>1 DEF First
  <2>3. Used(c, o, i) = 1 /\ Data(c, o, i) = 1  BY <2>1, <1>2 DEF Used, Data
  <2>4. c.cc[i] = 1 /\ c.seq[i] = 1
    <3> HIDE DEF i
    <3> QED  BY <1>1, <1>6 DEF Rings
  <2>5. Counted(c, o, i)
    <3>1. Open(c, i) = 0  BY <1>6, <1>7 DEF Open, Size
    <3>2. (1 - 0) % subbuf_size = 1
      <4>1. 1 \in 0..(subbuf_size - 1)  BY Sizes
      <4> QED  BY <4>1, Sizes, ModSmall
    <3> QED  BY <2>3, <2>4, <3>1, <3>2 DEF Counted
  <2>6. Started(c, o, i)
    <3>1. a + 1 <= o  BY <1>1
    <3> QED  BY <3>1, <2>1, <2>2, <2>3, <1>1, <1>2 DEF Started
  <2>7. Readable(c, o, i)
    <3>1. Committed(c, i) = 1  BY <2>4 DEF Committed
    <3>2. c.cell[(i * subbuf_size) + 0].pos = a + 0
      <4>1. (i * subbuf_size) + 0 = x0 /\ a + 0 = a  BY <1>1, Sizes DEF Subbufs
      <4> QED  BY <4>1, <2>2 DEF First
    <3>3. \A q \in 0..(1 - 1) : q = 0  OBVIOUS
    <3> QED  BY <3>1, <3>2, <3>3, <2>2, <2>3, <2>4 DEF Readable
  <2>8. Ended(c, o, i)  BY <2>2 DEF Ended
  <2> QED  BY <2>5, <2>6, <2>7, <2>8 DEF Slot
<1>9. ASSUME NEW j \in Subbufs, j # i
      PROVE  Slot(c, o, j) /\ First(c, j) = First(b, j) /\ Committed(c, j) = Committed(b, j)
  <2>1. Current(a, j) \/ Current(o, j) => a = o  BY <1>2, <1>9 DEF Current
  <2>2. c.cc[j] = b.cc[j] /\ c.seq[j] = b.seq[j] /\ c.data_size[j] = b.data_size[j]
    <3> HIDE DEF i
    <3> QED  BY <1>1, <1>6, <1>9 DEF Rings
  <2>3. ASSUME NEW q \in 0..(subbuf_size - 1)
        PROVE  c.cell[(j * subbuf_size) + q].pos = b.cell[(j * subbuf_size) + q].pos
    <3>1. (j * subbuf_size) + q \in Ring  BY SlotInRing
    <3>2. (j * subbuf_size) + q # x0
      <4>1. 0 \in 0..(subbuf_size - 1) /\ x0 = (i * subbuf_size) + 0
        BY <1>1, Sizes DEF Subbufs
      <4> QED  BY <4>1, <1>1, <1>9, SlotUnique
    <3> QED  BY <3>1, <3>2, <1>4, <1>6
  <2>4. c.cell[j * subbuf_size].end = b.cell[j * subbuf_size].end
    <3>1. j * subbuf_size # x0  BY <1>1, <1>9, HeaderUnique
    <3> QED  BY <3>1, <1>4, <1>6, HeaderInRing
  <2>5. Open(c, j) = Open(b, j)  BY <1>6 DEF Open, Size
  <2>6. \A q \in 0..(subbuf_size - 1) : Held(b, First(b, j) + q) => Held(c, First(b, j) + q)
    BY <1>6 DEF Held
  <2>7. Slot(b, a, j) /\ a <= o  BY <1>1 DEF RingInv
  <2>8. o \in Nat /\ a \in Nat /\ b \in Rings /\ c \in Rings  BY <1>1, <1>6
  <2>9. \A q \in 0..(subbuf_size - 1) :
          c.cell[(j * subbuf_size) + q].pos = b.cell[(j * subbuf_size) + q].pos
    BY <2>3
  <2> HIDE DEF o
  <2> QED  BY <2>1, <2>2, <2>4, <2>5, <2>6, <2>7, <2>8, <2>9, SlotFrame
<1>10. ASSUME NEW k \in 1..Len(c.pending) PROVE Pending(c, o, k)
  <2> DEFINE r == b.pending[k]
             j == Index(r.from)
  <2>1. c.pending[k] = r /\ k \in 1..Len(b.pending)  BY <1>6
  <2>2. Pending(b, a, k) /\ r \in Record /\ j \in Subbufs /\ j # i
    BY <2>1, <1>7, RecordIn DEF RingInv
  <2>3. First(c, j) = First(b, j) /\ Committed(c, j) = Committed(b, j)
    BY <2>2, <1>9
  <2>4. r.end <= o
    <3>1. r.end <= a /\ r.end \in Nat  BY <2>2 DEF Pending, Record
    <3> HIDE DEF r
    <3> QED  BY <3>1, <1>1
  <2> QED
    <3> HIDE DEF o
    <3> QED  BY <2>1, <2>2, <2>3, <2>4 DEF Pending
<1>11. Nested(c, o)
  <2>1. Len(c.pending) <= 1 /\ Len(c.pending) \in Nat
    BY <1>1, <1>6, LenProperties DEF Rings
  <2> DEFINE m == Len(c.pending)
  <2> HIDE DEF m
  <2>2. m <= 1 /\ m \in Nat  BY <2>1 DEF m
  <2>3. m <= 2 /\ m # 2  BY <2>2
  <2> QED  BY <2>3 DEF m, Nested
<1>12. Placed(c)
  <2>1. a % (num_subbuf * subbuf_size) = x0
    <3>1. 0 \in 0..(subbuf_size - 1)  BY Sizes
    <3>2. (a + 0) % (num_subbuf * subbuf_size) = (i * subbuf_size) + 0
      BY <1>1, <3>1, PlaceIs
    <3>3. a + 0 = a /\ (i * subbuf_size) + 0 = x0  BY <1>1, Sizes DEF Subbufs
    <3> QED  BY <3>2, <3>3
  <2>2. Placed(b)  BY DEF RingInv
  <2>3. ASSUME NEW x \in Ring
        PROVE  c.cell[x].pos = -1 \/
               (c.cell[x].pos \in Nat /\ c.cell[x].pos % (num_subbuf * subbuf_size) = x)
    <3>1. CASE x = x0  BY <3>1, <2>1, <1>1, <1>4, <1>6
    <3>2. CASE x # x0  BY <3>2, <2>2, <1>4, <1>6 DEF Placed
    <3> QED  BY <3>1, <3>2
  <2> QED  BY <2>3 DEF Placed
<1>13. RingInv(c, o)
  <2>1. o # 0  BY <1>1
  <2> HIDE DEF o
  <2> QED  BY <2>1, <1>1, <1>6, <1>8, <1>9, <1>10, <1>11, <1>12 DEF RingInv
<1> QED  BY <1>2, <1>3, <1>6, <1>13

\* The ring b after a record of k units is reserved at position g.
Reserved(b, g, k, q) ==
  [b EXCEPT !.offset = g + k, !.consumed = q,
     !.data_size[Index(g)] = IF (g + k) % subbuf_size = 0 THEN subbuf_size ELSE @,
     !.pending = Append(@, [from |-> g, end |-> g + k])]

LEMMA AddStep ==
  ASSUME NEW b, NEW g, RingInv(b, g), g % subbuf_size # 0, Len(b.pending) <= 1,
         NEW k \in Nat \ {0}, (g % subbuf_size) + k <= subbuf_size, NEW q \in Nat
  PROVE  LET c == Reserved(b, g, k, q)
         IN RingInv(c, g + k) /\ c.offset = g + k /\ c.consumed = q
<1> DEFINE i == Index(g)
           f == Start(g)
           o == g + k
           w == g % subbuf_size
           r == [from |-> g, end |-> o]
           x0 == i * subbuf_size
           c == Reserved(b, g, k, q)
           ds == [b.data_size EXCEPT ![i] = IF o % subbuf_size = 0 THEN subbuf_size ELSE @]
           N == Len(b.pending)
<1>1. b \in Rings /\ g \in Nat /\ o \in Nat \ {0} /\ g <= o  BY DEF RingInv
<1>2. /\ f \in Nat /\ f % subbuf_size = 0 /\ Index(f) = i
      /\ w \in 1..(subbuf_size - 1) /\ g = f + w /\ i \in Subbufs
      /\ w + k <= subbuf_size
  <2>1. w \in 0..(subbuf_size - 1) /\ g - f = w  BY <1>1, StartOf, Sizes
  <2>2. f \in Nat /\ f % subbuf_size = 0 /\ Index(f) = i  BY <1>1, StartOf
  <2>3. w \in 1..(subbuf_size - 1) /\ g = f + w
    <3>1. w # 0  OBVIOUS
    <3> HIDE DEF w, f
    <3> QED  BY <2>1, <2>2, <3>1, <1>1, Sizes
  <2>4. i \in Subbufs  BY <1>1, IndexTyped
  <2> QED  BY <2>2, <2>3, <2>4
<1>3. o = f + (w + k) /\ w + k \in 2..subbuf_size
  <2> HIDE DEF f, w
  <2> QED  BY <1>1, <1>2, Sizes
<1>4. \/ w + k < subbuf_size /\ o % subbuf_size = w + k /\ Index(o) = i /\ Start(o) = f
      \/ w + k = subbuf_size /\ o % subbuf_size = 0
  <2> HIDE DEF f, w, o, i
  <2>1. CASE w + k < subbuf_size
    <3>1. w + k \in 0..(subbuf_size - 1)  BY <2>1, <1>2, Sizes
    <3> QED  BY <2>1, <3>1, <1>2, <1>3, InSubbuffer, StartIs
  <2>2. CASE w + k = subbuf_size
    <3>1. (f + subbuf_size) % subbuf_size = 0  BY <1>2, NextSubbuffer
    <3> QED  BY <2>2, <3>1, <1>3
  <2> QED  BY <2>1, <2>2, <1>2, Sizes
<1>5. N \in Nat /\ N \in {0, 1} /\ b.pending \in Seq(Record) /\ r \in Record
  <2>1. b.pending \in Seq(Record)  BY <1>1 DEF Rings
  <2>2. N \in Nat /\ N <= 1  BY <2>1, LenProperties
  <2>3. N \in {0, 1}
    <3> HIDE DEF N
    <3> QED  BY <2>2
  <2>4. r \in Record  BY <1>1 DEF Record
  <2> QED  BY <2>1, <2>2, <2>3, <2>4
<1>6. /\ c \in Rings /\ c.offset = o /\ c.consumed = q /\ c.cc = b.cc /\ c.seq = b.seq
      /\ c.cell = b.cell /\ c.data_size = ds /\ c.pending = Append(b.pending, r)
  <2>1. Append(b.pending, r) \in Seq(Record)  BY <1>5, AppendProperties
  <2>2. ds \in [Subbufs -> 0..subbuf_size]
    <3> HIDE DEF i, o
    <3> QED  BY <1>1, <1>2, Sizes DEF Rings
  <2>3. c = [b EXCEPT !.offset = o, !.consumed = q, !.data_size = ds,
                      !.pending = Append(b.pending, r)]
    BY <1>1 DEF Reserved, Rings
  <2> HIDE DEF c, ds, o, r
  <2> QED  BY <1>1, <2>1, <2>2, <2>3 DEF Rings
<1> HIDE DEF c
<1>7. /\ Len(c.pending) = N + 1 /\ c.pending[N + 1] = r
      /\ \A x \in 1..N : c.pending[x] = b.pending[x]
  BY <1>5, <1>6, AppendProperties
<1>8. /\ Slot(b, g, i) /\ Current(g, i) /\ First(b, i) = f /\ Used(b, g, i) = w
      /\ Data(b, g, i) = w /\ b.seq[i] # 0 /\ b.cell[x0].end = 0
      /\ b.seq[i] \in 1..w /\ Committed(b, i) = b.seq[i]
  <2>1. Slot(b, g, i) /\ Current(g, i)  BY <1>2 DEF RingInv, Current
  <2>2. First(b, i) = f /\ f # -1  BY <1>2, <2>1 DEF Slot, Started
  <2>3. Used(b, g, i) = w /\ Data(b, g, i) = w  BY <2>1 DEF Used, Data
  <2>4. b.seq[i] # 0 /\ Committed(b, i) \in 1..w
    BY <2>1, <2>2, <2>3 DEF Slot, Readable
  <2>5. b.cell[x0].end = 0  BY <2>1 DEF Slot, Ended
  <2> QED  BY <2>1, <2>2, <2>3, <2>4, <2>5 DEF Committed
<1>9. First(c, i) = f /\ Committed(c, i) = b.seq[i]
  BY <1>6, <1>8 DEF First, Committed
<1>10. Used(c, o, i) = w + k /\ Data(c, o, i) = w + k
  <2>1. CASE w + k < subbuf_size /\ o % subbuf_size = w + k /\ Index(o) = i
    <3>1. Current(o, i)  BY <2>1, <1>3 DEF Current
    <3> QED  BY <2>1, <3>1 DEF Used, Data
  <2>2. CASE w + k = subbuf_size /\ o % subbuf_size = 0
    <3>1. ~ Current(o, i)  BY <2>2 DEF Current
    <3>2. f # -1  BY <1>2
    <3>3. c.data_size[i] = subbuf_size
      <4> HIDE DEF i, o
      <4> QED  BY <2>2, <1>1, <1>2, <1>6 DEF Rings
    <3> QED  BY <2>2, <3>1, <3>2, <3>3, <1>9 DEF Used, Data
  <2> QED  BY <1>4, <2>1, <2>2
<1>11. Open(c, i) = Open(b, i) + k
  <2>1. Size(c, N + 1, i) = k
    <3>1. N + 1 <= Len(c.pending)  BY <1>5, <1>7
    <3>2. Index(c.pending[N + 1].from) = i /\ c.pending[N + 1].end - c.pending[N + 1].from = o - g
      BY <1>7
    <3>3. o - g = k  BY <1>1
    <3> QED  BY <3>1, <3>2, <3>3 DEF Size
  <2>2. CASE N = 0
    <3>1. Size(c, 2, i) = 0  BY <2>2, <1>7 DEF Size
    <3>2. Size(b, 1, i) = 0 /\ Size(b, 2, i) = 0  BY <2>2 DEF Size
    <3>3. Size(c, 1, i) = k  BY <2>1, <2>2
    <3> QED  BY <3>1, <3>2, <3>3 DEF Open
  <2>3. CASE N = 1
    <3>1. Size(c, 2, i) = k  BY <2>1, <2>3
    <3>2. Size(b, 2, i) = 0  BY <2>3 DEF Size
    <3>3. Size(c, 1, i) = Size(b, 1, i)  BY <2>3, <1>7 DEF Size
    <3>4. Size(b, 1, i) \in Int
      <4>1. Open(b, i) \in Nat  BY <1>2, OpenBound
      <4>2. CASE Index(b.pending[1].from) = i
        <5>1. b.pending[1] \in Record  BY <2>3, <1>5, ElementOfSeq
        <5> QED  BY <4>2, <5>1, <2>3 DEF Size, Record
      <4>3. CASE Index(b.pending[1].from) # i  BY <4>3 DEF Size
      <4> QED  BY <4>2, <4>3
    <3> QED  BY <3>1, <3>2, <3>3, <3>4 DEF Open
  <2> QED  BY <2>2, <2>3, <1>5
<1>12. \A x : Held(b, x) => Held(c, x)
  <2> SUFFICES ASSUME NEW x, Held(b, x) PROVE Held(c, x)
    OBVIOUS
  <2>1. PICK j \in 1..N : x \in b.pending[j].from..(b.pending[j].end - 1)
    BY DEF Held
  <2>2. c.pending[j] = b.pending[j] /\ j \in 1..Len(c.pending)  BY <2>1, <1>5, <1>7
  <2> QED  BY <2>1, <2>2 DEF Held
<1>13. \A x \in g..(o - 1) : Held(c, x)
  <2>1. N + 1 \in 1..Len(c.pending)  BY <1>5, <1>7
  <2> QED  BY <2>1, <1>7 DEF Held
<1>14. Slot(c, o, i)
  <2>1. Counted(c, o, i)
    <3>1. Open(b, i) \in Nat  BY <1>2, OpenBound
    <3>2. (w + k) - (Open(b, i) + k) = w - Open(b, i)
      <4> HIDE DEF w
      <4> QED  BY <3>1, <1>2
    <3> QED  BY <3>2, <1>6, <1>8, <1>10, <1>11 DEF Slot, Counted
  <2>2. Started(c, o, i)
    <3>1. Current(o, i) => f = Start(o)  BY <1>4 DEF Current
    <3>2. f + (w + k) <= o  BY <1>1, <1>3
    <3>3. f # -1  BY <1>2
    <3> QED  BY <3>1, <3>2, <3>3, <1>2, <1>9, <1>10 DEF Started
  <2>3. Readable(c, o, i)
    <3>1. Committed(c, i) \in 1..(w + k)
      <4> HIDE DEF w
      <4> QED  BY <1>2, <1>8, <1>9
    <3>2. ASSUME NEW y \in 0..(w + k - 1)
          PROVE  c.cell[(i * subbuf_size) + y].pos = f + y \/ Held(c, f + y)
      <4>1. CASE y < w
        <5>1. y \in 0..(w - 1)
          <6> HIDE DEF w
          <6> QED  BY <4>1, <1>2
        <5>2. b.cell[(i * subbuf_size) + y].pos = f + y \/ Held(b, f + y)
          <6>1. f # -1 /\ Readable(b, g, i)  BY <1>2, <1>8 DEF Slot
          <6> HIDE DEF i, f, w
          <6> QED  BY <5>1, <6>1, <1>8 DEF Readable
        <5> QED  BY <5>2, <1>6, <1>12
      <4>2. CASE y >= w
        <5>1. f + y \in g..(o - 1)
          <6> HIDE DEF w, f
          <6> QED  BY <4>2, <1>1, <1>2, <1>3
        <5> QED  BY <5>1, <1>13
      <4> HIDE DEF w
      <4> QED  BY <4>1, <4>2, <1>2
    <3>3. c.seq[i] # 0  BY <1>6, <1>8
    <3> HIDE DEF i, o, f, w
    <3>4. \A y \in 0..(Data(c, o, i) - 1) :
            c.cell[(i * subbuf_size) + y].pos = f + y \/ Held(c, f + y)
      <4>1. Data(c, o, i) = w + k /\ w \in Nat  BY <1>2, <1>10
      <4>2. 0..(Data(c, o, i) - 1) = 0..(w + k - 1)  BY <4>1
      <4> QED  BY <4>2, <3>2
    <3>5. Committed(c, i) \in 1..Data(c, o, i)  BY <3>1, <1>10
    <3> QED  BY <3>3, <3>4, <3>5, <1>9 DEF Readable
  <2>4. Ended(c, o, i)  BY <1>6, <1>8 DEF Ended
  <2> QED  BY <2>1, <2>2, <2>3, <2>4 DEF Slot
<1>15. ASSUME NEW j \in Subbufs, j # i
       PROVE  Slot(c, o, j) /\ First(c, j) = First(b, j) /\ Committed(c, j) = Committed(b, j)
  <2>1. Current(g, j) \/ Current(o, j) => g = o  BY <1>4, <1>15 DEF Current
  <2>2. c.cc[j] = b.cc[j] /\ c.seq[j] = b.seq[j] /\ c.data_size[j] = b.data_size[j]
    <3> HIDE DEF i, o
    <3> QED  BY <1>1, <1>6, <1>15 DEF Rings
  <2>3. \A y \in 0..(subbuf_size - 1) :
          c.cell[(j * subbuf_size) + y].pos = b.cell[(j * subbuf_size) + y].pos
    BY <1>6
  <2>4. c.cell[j * subbuf_size].end = b.cell[j * subbuf_size].end  BY <1>6
  <2>5. Open(c, j) = Open(b, j)
    <3>1. Size(c, N + 1, j) = 0  BY <1>7, <1>15 DEF Size
    <3>2. CASE N = 0
      <4>1. Size(c, 2, j) = 0  BY <3>2, <1>7 DEF Size
      <4>2. Size(b, 1, j) = 0 /\ Size(b, 2, j) = 0  BY <3>2 DEF Size
      <4>3. Size(c, 1, j) = 0  BY <3>1, <3>2
      <4> QED  BY <4>1, <4>2, <4>3 DEF Open
    <3>3. CASE N = 1
      <4>1. Size(c, 2, j) = 0  BY <3>1, <3>3
      <4>2. Size(b, 2, j) = 0  BY <3>3 DEF Size
      <4>3. Size(c, 1, j) = Size(b, 1, j)  BY <3>3, <1>7 DEF Size
      <4> QED  BY <4>1, <4>2, <4>3 DEF Open
    <3> QED  BY <3>2, <3>3, <1>5
  <2>6. \A y \in 0..(subbuf_size - 1) : Held(b, First(b, j) + y) => Held(c, First(b, j) + y)
    BY <1>12
  <2>7. Slot(b, g, j)  BY DEF RingInv
  <2>8. o \in Nat /\ g \in Nat /\ g <= o /\ b \in Rings /\ c \in Rings  BY <1>1, <1>6
  <2> HIDE DEF o
  <2> QED  BY <2>1, <2>2, <2>3, <2>4, <2>5, <2>6, <2>7, <2>8, SlotFrame
<1>16. ASSUME NEW x \in 1..N PROVE Pending(c, o, x) /\ b.pending[x].end <= g
  <2> DEFINE s == b.pending[x]
             j == Index(s.from)
  <2>1. c.pending[x] = s  BY <1>7
  <2>2. Pending(b, g, x) /\ s \in Record /\ j \in Subbufs
    BY RecordIn DEF RingInv
  <2>3. First(c, j) = First(b, j) /\ Committed(c, j) = Committed(b, j)
    BY <2>2, <1>8, <1>9, <1>15
  <2>4. s.end <= o /\ s.end <= g
    <3>1. s.end <= g /\ s.end \in Nat  BY <2>2 DEF Pending, Record
    <3> HIDE DEF s
    <3> QED  BY <3>1, <1>1
  <2> QED
    <3> HIDE DEF o
    <3> QED  BY <2>1, <2>2, <2>3, <2>4 DEF Pending
<1>17. Pending(c, o, N + 1)
  <2>1. r.from = g /\ r.end = o /\ g < o /\ o <= o  BY <1>1
  <2>2. f < g /\ o <= f + subbuf_size /\ f + b.seq[i] <= g
    <3>1. b.seq[i] \in 1..w  BY <1>8
    <3> DEFINE t == b.seq[i]
    <3> HIDE DEF f, w, t
    <3> QED  BY <3>1, <1>1, <1>2, <1>3, Sizes DEF t
  <2> QED  BY <2>1, <2>2, <1>7, <1>9 DEF Pending
<1>18. \A x \in 1..Len(c.pending) : Pending(c, o, x)
  <2>1. \A x \in 1..(N + 1) : x \in 1..N \/ x = N + 1
    <3> HIDE DEF N
    <3> QED  BY <1>5
  <2> QED  BY <2>1, <1>7, <1>16, <1>17
<1>19. Nested(c, o)
  <2>1. Len(c.pending) <= 2  BY <1>5, <1>7
  <2>2. ASSUME Len(c.pending) = 2
        PROVE  c.pending[1].end <= c.pending[2].from /\ c.pending[2].end = o
    <3>1. N = 1
      <4>1. N + 1 = 2  BY <2>2, <1>7
      <4>2. N \in Nat  BY <1>5
      <4> HIDE DEF N
      <4> QED  BY <4>1, <4>2
    <3>2. c.pending[2] = r /\ c.pending[1] = b.pending[1]  BY <3>1, <1>7
    <3>3. b.pending[1].end <= g  BY <3>1, <1>16
    <3> QED  BY <3>2, <3>3
  <2> QED  BY <2>1, <2>2 DEF Nested
<1>20. Placed(c)  BY <1>6 DEF RingInv, Placed
<1>21. RingInv(c, o)
  <2> HIDE DEF o
  <2> QED  BY <1>1, <1>6, <1>14, <1>15, <1>18, <1>19, <1>20 DEF RingInv
<1> QED  BY <1>6, <1>21 DEF c

LEMMA AlignStart ==
  ASSUME NEW h \in Nat, h % subbuf_size = 0 PROVE align(h, subbuf_size) = h
<1> DEFINE x == align(h, subbuf_size)
<1>1. x \in Nat /\ x % subbuf_size = 0 /\ x >= h /\ x < h + subbuf_size
  BY Sizes, AlignUp
<1> HIDE DEF x
<1>2. h < x => h + subbuf_size <= x  BY <1>1, StartsApart
<1>3. x = h  BY <1>1, <1>2, Sizes
<1> QED  BY <1>3 DEF x

\* Reserving keeps what is said of a ring, whether subbuffers are switched or not.
LEMMA ReserveStep ==
  ASSUME NEW b, RingInv(b, b.offset), Len(b.pending) <= 1, NEW k \in RecordSizes,
         ~ Fits(b, k) => b.cc[Index(Begin(b, k))] = 0
  PROVE  LET begin == Begin(b, k)
             end   == begin + k
             moved == IF Fits(b, k) THEN b
                      ELSE SwitchNewStart(SwitchOldEnd(b), begin - 1)
             c     == Reserved(moved, begin, k, Pushed(b, end))
         IN  RingInv(c, end) /\ c.offset = end /\ c.consumed = Pushed(b, end)
<1> DEFINE o == b.offset
           begin == Begin(b, k)
           end == begin + k
           q == Pushed(b, end)
<1>1. b \in Rings /\ o \in Nat /\ b.consumed \in Nat  BY DEF RingInv, Rings
<1>2. k \in Nat \ {0} /\ k \in 1..(subbuf_size - 1)
  <2>1. RecordSizes \subseteq 1..(subbuf_size - 1)  BY LttAssumption
  <2> QED  BY <2>1, Sizes
<1>3. q \in Nat  BY <1>1, Sizes DEF Pushed
<1>4. CASE Fits(b, k)
  <2>1. begin = o /\ o % subbuf_size # 0 /\ (o % subbuf_size) + k <= subbuf_size
    BY <1>4 DEF Fits, Begin
  <2> DEFINE c == Reserved(b, o, k, q)
  <2>2. RingInv(c, o + k) /\ c.offset = o + k /\ c.consumed = q
    <3> HIDE DEF o, q
    <3>1. RingInv(b, o)  BY DEF o
    <3> QED  BY <2>1, <3>1, <1>2, <1>3, AddStep
  <2> HIDE DEF begin, o, q
  <2> QED  BY <2>1, <2>2, <1>4 DEF begin, q
<1>5. CASE ~ Fits(b, k)
  <2> DEFINE a == align(o, subbuf_size)
             b1 == SwitchOldEnd(b)
             b2 == SwitchNewStart(b1, a)
             c == Reserved(b2, begin, k, q)
  <2>1. begin = a + 1  BY <1>5 DEF Begin
  <2>2. /\ a \in Nat /\ a % subbuf_size = 0 /\ RingInv(b1, a) /\ b1.pending = b.pending
        /\ Index(a + 1) = Index(a) /\ (a + 1) % subbuf_size = 1
        /\ b1.cc[Index(a)] = b.cc[Index(a)]
    <3>1. a \in Nat /\ a % subbuf_size = 0  BY <1>1, Sizes, AlignUp
    <3>2. Index(a + 1) = Index(a) /\ (a + 1) % subbuf_size = 1
      <4>1. 1 \in 0..(subbuf_size - 1)  BY Sizes
      <4> HIDE DEF a
      <4> QED  BY <3>1, <4>1, InSubbuffer
    <3>3. CASE o % subbuf_size = 0
      <4>1. b1 = b /\ a = o  BY <3>3, <1>1, AlignStart DEF SwitchOldEnd
      <4> QED  BY <3>1, <3>2, <4>1
    <3>4. CASE o % subbuf_size # 0
      <4> DEFINE s == Start(o) + subbuf_size
      <4>1. /\ a = s /\ RingInv(b1, s) /\ b1.pending = b.pending
            /\ \A j \in Subbufs \ {Index(o)} : b1.cc[j] = b.cc[j]
            /\ Index(s) # Index(o)
        BY <3>4, OldEndStep
      <4>2. Index(a) \in Subbufs  BY <3>1, IndexTyped
      <4> HIDE DEF a, s, b1
      <4> QED  BY <3>1, <3>2, <4>1, <4>2
    <3> QED  BY <3>3, <3>4
  <2>3. b1.cc[Index(a)] = 0 /\ Len(b1.pending) <= 1
    BY <2>1, <2>2, <1>5
  <2>4. RingInv(b2, a + 1) /\ b2.pending = b1.pending
    <3> HIDE DEF a, b1
    <3> QED  BY <2>2, <2>3, NewStartStep
  <2>5. RingInv(c, end) /\ c.offset = end /\ c.consumed = q
    <3> DEFINE g == a + 1
    <3>1. /\ RingInv(b2, g) /\ g % subbuf_size # 0 /\ Len(b2.pending) <= 1
          /\ (g % subbuf_size) + k <= subbuf_size
      <4>1. 1 + k <= subbuf_size  BY <1>2, Sizes
      <4> HIDE DEF a, b1, b2
      <4> QED  BY <2>2, <2>3, <2>4, <4>1
    <3> HIDE DEF a, b2, q, g
    <3>2. LET d == Reserved(b2, g, k, q)
          IN RingInv(d, g + k) /\ d.offset = g + k /\ d.consumed = q
      BY <3>1, <1>2, <1>3, AddStep
    <3>3. begin = g  BY <2>1 DEF g
    <3> HIDE DEF begin
    <3> QED  BY <3>2, <3>3
  <2>6. begin - 1 = a
    <3> HIDE DEF a, begin
    <3> QED  BY <2>1, <2>2
  <2> HIDE DEF a, begin, q, b1
  <2> QED  BY <2>5, <2>6, <1>5 DEF begin, q, b1
<1> QED  BY <1>4, <1>5

-----------------------------------------------------------------------------
(* Committing.                                                             *)

\* A record is not in another subbuffer than its own.
LEMMA OtherSubbuffer ==
  ASSUME NEW h \in Nat, NEW g \in Nat, h % subbuf_size = 0, g % subbuf_size = 0,
         Index(h) # Index(g), NEW q \in 0..(subbuf_size - 1),
         NEW r \in Record, g <= r.from, r.end <= g + subbuf_size
  PROVE  h + q \notin r.from..(r.end - 1)
<1> SUFFICES ASSUME h + q \in r.from..(r.end - 1) PROVE FALSE
  OBVIOUS
<1>1. r.from \in Nat /\ r.end \in Nat  BY DEF Record
<1>2. h + q >= g /\ h + q < g + subbuf_size  BY <1>1, Sizes
<1>3. CASE h < g
  <2>1. h + subbuf_size <= g  BY <1>3, StartsApart
  <2> QED  BY <2>1, <1>2, Sizes
<1>4. CASE g < h
  <2>1. g + subbuf_size <= h  BY <1>4, StartsApart
  <2> QED  BY <2>1, <1>2, Sizes
<1> QED  BY <1>3, <1>4

\* What commit does to the ring before it counts the record.
Written(b, r, over) ==
  LET cells == {p % (num_subbuf * subbuf_size) : p \in r.from..(r.end - 1)}
  IN [b EXCEPT
        !.cell = [q \in Ring |->
           IF q \in cells THEN Plain(r.from + ((q - r.from) % (num_subbuf * subbuf_size)))
           ELSE @[q]],
        !.pending = SubSeq(@, 1, Len(@) - 1),
        !.overtaken = over]

\* The places of a record get its positions.
LEMMA PlacesOf ==
  ASSUME NEW f \in Nat, f % subbuf_size = 0, NEW r \in Record,
         f <= r.from, r.from < r.end, r.end <= f + subbuf_size,
         NEW j \in Subbufs, NEW q \in 0..(subbuf_size - 1)
  PROVE  LET M == num_subbuf * subbuf_size
             x == (j * subbuf_size) + q
         IN /\ x \in {p % M : p \in r.from..(r.end - 1)}
                 <=> j = Index(f) /\ f + q \in r.from..(r.end - 1)
            /\ j = Index(f) /\ f + q \in r.from..(r.end - 1)
                 => r.from + ((x - r.from) % M) = f + q
<1> DEFINE M == num_subbuf * subbuf_size
           x == (j * subbuf_size) + q
           i == Index(f)
<1>1. r.from \in Nat /\ r.end \in Nat /\ M \in Nat \ {0} /\ i \in Subbufs
  BY Sizes, IndexTyped DEF Record
<1>2. ASSUME NEW p \in r.from..(r.end - 1)
      PROVE  p - f \in 0..(subbuf_size - 1) /\ p = f + (p - f)
             /\ p % M = (i * subbuf_size) + (p - f)
  <2> DEFINE y == p - f
  <2>1. y \in 0..(subbuf_size - 1) /\ p = f + y
    <3> HIDE DEF M, i
    <3> QED  BY <1>1, Sizes
  <2> HIDE DEF y
  <2>2. (f + y) % (num_subbuf * subbuf_size) = (Index(f) * subbuf_size) + y
    BY <2>1, PlaceIs
  <2> QED  BY <2>1, <2>2 DEF y
<1>3. ASSUME x \in {p % M : p \in r.from..(r.end - 1)}
      PROVE  j = i /\ f + q \in r.from..(r.end - 1)
  <2>1. PICK p \in r.from..(r.end - 1) : x = p % M  BY <1>3
  <2> DEFINE y == p - f
  <2>2. y \in 0..(subbuf_size - 1) /\ p = f + y /\ x = (i * subbuf_size) + y
    BY <2>1, <1>2
  <2> HIDE DEF y
  <2>3. i = j /\ y = q
    <3> HIDE DEF i
    <3>1. (i * subbuf_size) + y = (j * subbuf_size) + q  BY <2>2
    <3> QED  BY <3>1, <2>2, <1>1, SlotUnique
  <2> QED  BY <2>1, <2>2, <2>3
<1>4. ASSUME j = i, f + q \in r.from..(r.end - 1)
      PROVE  x \in {p % M : p \in r.from..(r.end - 1)}
             /\ r.from + ((x - r.from) % M) = f + q
  <2> DEFINE p == f + q
  <2>1. p \in r.from..(r.end - 1) /\ p % M = x
    <3>1. (f + q) % (num_subbuf * subbuf_size) = (Index(f) * subbuf_size) + q
      BY PlaceIs
    <3> QED  BY <3>1, <1>4
  <2>2. ((p % M) + (- r.from)) % M = (p + (- r.from)) % M
    <3>1. p \in Int /\ - r.from \in Int  BY <1>1
    <3> HIDE DEF M, p
    <3> QED  BY <3>1, <1>1, ModSum
  <2>3. p - r.from \in 0..(M - 1)
    <3>1. subbuf_size <= M
      <4>1. num_subbuf - 1 >= 0  BY Sizes
      <4>2. subbuf_size * num_subbuf >= subbuf_size  BY Sizes, Multiple
      <4>3. subbuf_size * num_subbuf = M  BY Sizes
      <4> QED  BY <4>2, <4>3
    <3> HIDE DEF M, p
    <3>2. p \in Nat /\ r.from <= p /\ p <= r.end - 1  BY <2>1, <1>1
    <3> QED  BY <3>1, <3>2, <1>1, Sizes
  <2>4. (p - r.from) % M = p - r.from
    <3> HIDE DEF M, p
    <3> QED  BY <2>3, <1>1, ModSmall
  <2>5. (x - r.from) % M = p - r.from
    <3>1. x - r.from = (p % M) + (- r.from)
      <4>1. x \in Int  BY SlotInRing DEF Ring
      <4> HIDE DEF x, p, M
      <4> QED  BY <4>1, <2>1, <1>1
    <3>2. p + (- r.from) = p - r.from
      <4> HIDE DEF M
      <4> QED  BY <1>1
    <3> HIDE DEF x, p, M
    <3> QED  BY <3>1, <3>2, <2>2, <2>4
  <2>6. r.from + (p - r.from) = p
    <3> HIDE DEF M, x
    <3> QED  BY <1>1
  <2> HIDE DEF M, x
  <2> QED  BY <2>1, <2>5, <2>6
<1> QED  BY <1>3, <1>4

\* Written changes the cells of the record and takes it off the stack.
LEMMA WrittenEffect ==
  ASSUME NEW b, NEW o, RingInv(b, o), Len(b.pending) > 0, NEW over \in SUBSET Nat
  PROVE  LET N == Len(b.pending)
             r == b.pending[N]
             f == Start(r.from)
             i == Index(r.from)
             w == Written(b, r, over)
         IN /\ w \in Rings /\ w.offset = b.offset /\ w.consumed = b.consumed
            /\ w.cc = b.cc /\ w.seq = b.seq /\ w.data_size = b.data_size
            /\ Len(w.pending) = N - 1
            /\ \A k \in 1..(N - 1) : w.pending[k] = b.pending[k]
            /\ \A j \in Subbufs, q \in 0..(subbuf_size - 1) :
                 w.cell[(j * subbuf_size) + q] =
                   IF j = i /\ f + q \in r.from..(r.end - 1) THEN Plain(f + q)
                   ELSE b.cell[(j * subbuf_size) + q]
<1> DEFINE N == Len(b.pending)
           r == b.pending[N]
           f == Start(r.from)
           i == Index(r.from)
           M == num_subbuf * subbuf_size
           cells == {p % M : p \in r.from..(r.end - 1)}
           g == [q \in Ring |-> IF q \in cells THEN Plain(r.from + ((q - r.from) % M))
                                ELSE b.cell[q]]
           s == SubSeq(b.pending, 1, N - 1)
           w == Written(b, r, over)
<1>1. b \in Rings /\ b.pending \in Seq(Record) /\ N \in Nat /\ N >= 1 /\ N \in 1..N
  <2>1. b \in Rings /\ b.pending \in Seq(Record)  BY DEF RingInv, Rings
  <2>2. N \in Nat /\ N > 0  BY <2>1, LenProperties
  <2>3. N >= 1 /\ N \in 1..N
    <3> HIDE DEF N
    <3> QED  BY <2>2
  <2> QED  BY <2>1, <2>2, <2>3
<1>2. /\ r \in Record /\ f \in Nat /\ f % subbuf_size = 0 /\ Index(f) = i
      /\ f <= r.from /\ r.from < r.end /\ r.end <= f + subbuf_size
      /\ r.from \in Nat /\ r.end \in Nat
  <2>1. /\ r \in Record /\ f \in Nat /\ f % subbuf_size = 0 /\ Index(f) = i
        /\ f < r.from /\ r.from < r.end /\ r.end <= f + subbuf_size
    BY <1>1, RecordIn
  <2>2. r.from \in Nat /\ r.end \in Nat  BY <2>1 DEF Record
  <2>3. f <= r.from
    <3> HIDE DEF f, r
    <3> QED  BY <2>1, <2>2
  <2> QED  BY <2>1, <2>2, <2>3
<1>3. s \in Seq(Record) /\ Len(s) = N - 1 /\ \A k \in 1..(N - 1) : s[k] = b.pending[k]
  <2>1. 1 \in 1..(N + 1) /\ N - 1 \in 0..N
    <3> HIDE DEF N
    <3> QED  BY <1>1
  <2>2. Len(s) = IF 1 <= N - 1 THEN N - 1 - 1 + 1 ELSE 0
    BY <2>1, <1>1, SubSeqProperties
  <2>3. s \in Seq(Record) /\ \A k \in 1..(N - 1) : s[k] = b.pending[1 + k - 1]
    BY <2>1, <1>1, SubSeqProperties
  <2> HIDE DEF N, s
  <2> QED  BY <2>2, <2>3, <1>1
<1>4. g \in [Ring -> Unit]
  <2>1. ASSUME NEW x \in Ring PROVE Plain(r.from + ((x - r.from) % M)) \in Unit
    <3>1. x - r.from \in Int /\ M \in Nat \ {0}  BY <1>2, Sizes DEF Ring
    <3> DEFINE d == (x - r.from) % M
    <3>2. d \in Int
      <4> DEFINE y == x - r.from
      <4> HIDE DEF M, y
      <4>1. y \in Int /\ M \in Nat \ {0}  BY <3>1 DEF y
      <4>2. y % M \in Int  BY <4>1, DivMod
      <4> QED  BY <4>2 DEF y
    <3> HIDE DEF d
    <3>3. r.from + d \in Int  BY <3>2, <1>2
    <3> QED  BY <3>3 DEF Plain, Unit, d
  <2>2. b.cell \in [Ring -> Unit]  BY <1>1 DEF Rings
  <2> HIDE DEF M, r
  <2> QED  BY <2>1, <2>2
<1>5. /\ w \in Rings /\ w.offset = b.offset /\ w.consumed = b.consumed
      /\ w.cc = b.cc /\ w.seq = b.seq /\ w.data_size = b.data_size
      /\ w.pending = s /\ w.cell = g
  <2>1. w = [b EXCEPT !.cell = g, !.pending = s, !.overtaken = over]
    BY <1>1 DEF Written, Rings
  <2> HIDE DEF w, g, s
  <2> QED  BY <2>1, <1>1, <1>3, <1>4 DEF Rings
<1>6. ASSUME NEW j \in Subbufs, NEW q \in 0..(subbuf_size - 1)
      PROVE  g[(j * subbuf_size) + q] =
               IF j = i /\ f + q \in r.from..(r.end - 1) THEN Plain(f + q)
               ELSE b.cell[(j * subbuf_size) + q]
  <2> DEFINE x == (j * subbuf_size) + q
  <2>1. x \in Ring  BY SlotInRing
  <2>2. /\ x \in cells <=> j = i /\ f + q \in r.from..(r.end - 1)
        /\ j = i /\ f + q \in r.from..(r.end - 1) => r.from + ((x - r.from) % M) = f + q
    <3> HIDE DEF f, r
    <3> QED  BY <1>2, PlacesOf
  <2>3. g[x] = IF x \in cells THEN Plain(r.from + ((x - r.from) % M)) ELSE b.cell[x]
    BY <2>1
  <2> HIDE DEF x, cells, f, r, i, M, g
  <2> QED  BY <2>2, <2>3 DEF x
<1> HIDE DEF w, g, s, f, i, r
<1> QED  BY <1>3, <1>5, <1>6 DEF w, f, i, r

\* What is open in subbuffers once the last record is off the stack.
LEMMA OpenAfter ==
  ASSUME NEW b, NEW o, RingInv(b, o), Len(b.pending) > 0, NEW c,
         Len(c.pending) = Len(b.pending) - 1,
         \A k \in 1..(Len(b.pending) - 1) : c.pending[k] = b.pending[k],
         NEW j \in Subbufs
  PROVE  LET r == b.pending[Len(b.pending)]
             i == Index(r.from)
         IN /\ Open(c, j) \in Nat
            /\ Open(b, j) = Open(c, j) + (IF j = i THEN r.end - r.from ELSE 0)
            /\ Open(c, j) # 0 => Len(b.pending) = 2 /\ Index(b.pending[1].from) = j
            /\ Len(b.pending) \in {1, 2}
<1> DEFINE N == Len(b.pending)
           r == b.pending[N]
           i == Index(r.from)
<1>1. N \in {1, 2} /\ b.pending \in Seq(Record)
  <2>1. b.pending \in Seq(Record) /\ N <= 2  BY DEF RingInv, Rings, Nested
  <2>2. N \in Nat  BY <2>1, LenProperties
  <2>3. N \in {1, 2}
    <3> HIDE DEF N
    <3>1. N > 0  BY DEF N
    <3> QED  BY <2>1, <2>2, <3>1
  <2> QED  BY <2>1, <2>3
<1>2. Size(b, N, j) = (IF j = i THEN r.end - r.from ELSE 0)
  <2>1. N <= Len(b.pending)  BY <1>1
  <2> QED  BY <2>1 DEF Size
<1>3. Size(b, 1, j) \in Nat
  <2>1. b.pending[1] \in Record  BY <1>1, ElementOfSeq
  <2>2. b.pending[1].from < b.pending[1].end  BY <1>1 DEF RingInv, Pending
  <2> QED  BY <2>1, <2>2 DEF Size, Record
<1>4. CASE N = 1
  <2>1. Size(c, 1, j) = 0 /\ Size(c, 2, j) = 0  BY <1>4 DEF Size
  <2>2. Size(b, 2, j) = 0  BY <1>4 DEF Size
  <2>3. Open(c, j) = 0  BY <2>1 DEF Open
  <2>4. Open(b, j) = Size(b, 1, j)  BY <2>2, <1>3 DEF Open
  <2>5. Size(b, 1, j) = (IF j = i THEN r.end - r.from ELSE 0)  BY <1>2, <1>4
  <2> HIDE DEF i, r, N
  <2>6. Open(b, j) = Open(c, j) + (IF j = i THEN r.end - r.from ELSE 0)
    BY <2>3, <2>4, <2>5, <1>3
  <2> QED  BY <2>3, <2>6, <1>4 DEF i, r, N
<1>5. CASE N = 2
  <2>1. Size(c, 2, j) = 0  BY <1>5 DEF Size
  <2>2. Size(c, 1, j) = Size(b, 1, j)  BY <1>5 DEF Size
  <2>3. Open(c, j) = Size(b, 1, j)  BY <2>1, <2>2, <1>3 DEF Open
  <2>4. Size(b, 2, j) = (IF j = i THEN r.end - r.from ELSE 0)  BY <1>2, <1>5
  <2>5. Open(b, j) = Size(b, 1, j) + Size(b, 2, j)  BY DEF Open
  <2>6. Size(b, 1, j) # 0 => Index(b.pending[1].from) = j  BY DEF Size
  <2> HIDE DEF i, r, N
  <2>7. Open(b, j) = Open(c, j) + (IF j = i THEN r.end - r.from ELSE 0)
    BY <2>3, <2>4, <2>5
  <2> QED  BY <2>3, <2>6, <2>7, <1>3, <1>5 DEF i, r, N
<1> QED  BY <1>1, <1>4, <1>5

\* All of what the commit of the last record changes.
AfterLast(b, c) ==
  LET N == Len(b.pending)
      r == b.pending[N]
      f == Start(r.from)
      i == Index(r.from)
      cc == (b.cc[i] + r.end - r.from) % subbuf_size
  IN /\ c \in Rings /\ c.offset = b.offset /\ c.consumed = b.consumed
     /\ c.data_size = b.data_size
     /\ Len(c.pending) = N - 1
     /\ \A k \in 1..(N - 1) : c.pending[k] = b.pending[k]
     /\ c.cc = [b.cc EXCEPT ![i] = cc]
     /\ c.seq = [b.seq EXCEPT ![i] = IF r.end % subbuf_size = cc THEN cc ELSE @]
     /\ \A j \in Subbufs, q \in 0..(subbuf_size - 1) :
          c.cell[(j * subbuf_size) + q].pos =
            IF j = i /\ f + q \in r.from..(r.end - 1) THEN f + q
            ELSE b.cell[(j * subbuf_size) + q].pos
     /\ \A j \in Subbufs :
          /\ First(c, j) = First(b, j)
          /\ c.cell[j * subbuf_size].end =
               IF j = i /\ cc = 0 THEN f + b.data_size[i]
               ELSE b.cell[j * subbuf_size].end

LEMMA CommitChanges ==
  ASSUME NEW b, NEW o, RingInv(b, o), Len(b.pending) > 0, NEW over \in SUBSET Nat
  PROVE  LET r == b.pending[Len(b.pending)]
         IN AfterLast(b, Commit(Written(b, r, over), r.from, r.end))
<1> DEFINE N == Len(b.pending)
           r == b.pending[N]
           f == Start(r.from)
           i == Index(r.from)
           cc == (b.cc[i] + r.end - r.from) % subbuf_size
           w == Written(b, r, over)
           c == Commit(w, r.from, r.end)
<1>1. b \in Rings /\ N \in 1..N
  <2>1. b \in Rings /\ b.pending \in Seq(Record)  BY DEF RingInv, Rings
  <2>2. N \in Nat /\ N > 0  BY <2>1, LenProperties
  <2>3. N \in 1..N
    <3> HIDE DEF N
    <3> QED  BY <2>2
  <2> QED  BY <2>1, <2>3
<1>2. /\ r.from \in Nat /\ r.end \in Nat /\ r.from <= r.end /\ f < r.from
      /\ f \in Nat /\ i \in Subbufs /\ Lap(r.from) * subbuf_size = f
  <2>1. r \in Record /\ f < r.from /\ r.from < r.end /\ f \in Nat /\ i \in Subbufs
    BY <1>1, RecordIn
  <2>2. r.from \in Nat /\ r.end \in Nat  BY <2>1 DEF Record
  <2>3. Lap(r.from) * subbuf_size = f  BY <2>2, StartOf
  <2>4. r.from <= r.end
    <3> HIDE DEF r
    <3> QED  BY <2>1, <2>2
  <2> QED  BY <2>1, <2>2, <2>3, <2>4
<1>3. /\ w \in Rings /\ w.offset = b.offset /\ w.consumed = b.consumed
      /\ w.cc = b.cc /\ w.seq = b.seq /\ w.data_size = b.data_size
      /\ Len(w.pending) = N - 1
      /\ \A k \in 1..(N - 1) : w.pending[k] = b.pending[k]
      /\ \A j \in Subbufs, q \in 0..(subbuf_size - 1) :
           w.cell[(j * subbuf_size) + q] =
             IF j = i /\ f + q \in r.from..(r.end - 1) THEN Plain(f + q)
             ELSE b.cell[(j * subbuf_size) + q]
  BY WrittenEffect
<1>4. AfterCommit(w, r.from, r.end, c)
  <2> HIDE DEF w, r
  <2> QED  BY <1>2, <1>3, CommitEffect
<1> HIDE DEF c, w
<1>5. /\ c \in Rings /\ c.offset = b.offset /\ c.consumed = b.consumed
      /\ c.data_size = b.data_size /\ c.pending = w.pending
      /\ c.cc = [b.cc EXCEPT ![i] = cc]
      /\ c.seq = [b.seq EXCEPT ![i] = IF r.end % subbuf_size = cc THEN cc ELSE @]
      /\ \A x \in Ring : c.cell[x].pos = w.cell[x].pos
      /\ \A x \in Ring : c.cell[x].end =
           IF x = i * subbuf_size /\ cc = 0 THEN f + b.data_size[i] ELSE w.cell[x].end
  BY <1>2, <1>3, <1>4 DEF AfterCommit
<1> HIDE DEF cc, i, f, r, N
<1>6. ASSUME NEW j \in Subbufs, NEW q \in 0..(subbuf_size - 1)
      PROVE  c.cell[(j * subbuf_size) + q].pos =
               IF j = i /\ f + q \in r.from..(r.end - 1) THEN f + q
               ELSE b.cell[(j * subbuf_size) + q].pos
  <2>1. (j * subbuf_size) + q \in Ring  BY SlotInRing
  <2> DEFINE x == (j * subbuf_size) + q
             y == f + q
             t == y \in r.from..(r.end - 1)
  <2>2. w.cell[x] = IF j = i /\ t THEN Plain(y) ELSE b.cell[x]  BY <1>3
  <2>3. Plain(y).pos = y  BY DEF Plain
  <2>4. c.cell[x].pos = w.cell[x].pos  BY <2>1, <1>5
  <2> HIDE DEF x, y, t
  <2>5. c.cell[x].pos = IF j = i /\ t THEN y ELSE b.cell[x].pos
    BY <2>2, <2>3, <2>4
  <2> QED  BY <2>5 DEF x, y, t
<1>7. ASSUME NEW j \in Subbufs
      PROVE  /\ First(c, j) = First(b, j)
             /\ c.cell[j * subbuf_size].end =
                  IF j = i /\ cc = 0 THEN f + b.data_size[i]
                  ELSE b.cell[j * subbuf_size].end
  <2>1. j * subbuf_size \in Ring  BY HeaderInRing
  <2>2. w.cell[j * subbuf_size] = b.cell[j * subbuf_size]
    <3>1. 0 \in 0..(subbuf_size - 1) /\ (j * subbuf_size) + 0 = j * subbuf_size
      BY Sizes DEF Subbufs
    <3>2. f + 0 \notin r.from..(r.end - 1)  BY <1>2
    <3>3. w.cell[(j * subbuf_size) + 0] = b.cell[(j * subbuf_size) + 0]
      BY <3>1, <3>2, <1>3
    <3> QED  BY <3>1, <3>3
  <2>3. j * subbuf_size = i * subbuf_size <=> j = i  BY <1>2, HeaderUnique
  <2> QED  BY <2>1, <2>2, <2>3, <1>5 DEF First
<1>8. AfterLast(b, c)
  BY <1>3, <1>5, <1>6, <1>7 DEF AfterLast, cc, i, f, r, N
<1> QED  BY <1>8 DEF c, w, r, N

\* Committing the last record keeps what is said of a ring: seq moves only when
\* nothing of the subbuffer is open any more, as one record at most is left.
LEMMA CommitStep ==
  ASSUME NEW b, NEW o, RingInv(b, o), Len(b.pending) > 0, NEW over \in SUBSET Nat
  PROVE  LET r == b.pending[Len(b.pending)]
             c == Commit(Written(b, r, over), r.from, r.end)
         IN RingInv(c, o) /\ c.offset = b.offset /\ c.consumed = b.consumed
<1> DEFINE N == Len(b.pending)
           r == b.pending[N]
           f == Start(r.from)
           i == Index(r.from)
           cc == (b.cc[i] + r.end - r.from) % subbuf_size
           c == Commit(Written(b, r, over), r.from, r.end)
           U == Used(b, o, i)
           D == Data(b, o, i)
           e == Open(c, i)
           k == r.end - r.from
           t == r.end - f
<1>1. b \in Rings /\ N \in {1, 2} /\ N \in 1..N /\ o \in Nat \ {0}
  <2>1. b \in Rings /\ b.pending \in Seq(Record) /\ N <= 2 /\ o \in Nat \ {0}
    BY DEF RingInv, Rings, Nested
  <2>2. N \in Nat /\ N > 0  BY <2>1, LenProperties
  <2>3. N \in {1, 2} /\ N \in 1..N
    <3> HIDE DEF N
    <3> QED  BY <2>1, <2>2
  <2> QED  BY <2>1, <2>3
<1>2. /\ r \in Record /\ r.from \in Nat /\ r.end \in Nat /\ f < r.from /\ r.from < r.end
      /\ f \in Nat /\ f % subbuf_size = 0 /\ Index(f) = i /\ i \in Subbufs
      /\ First(b, i) = f /\ r.end <= f + U /\ r.end <= f + subbuf_size
      /\ f + Committed(b, i) <= r.from
  <2>1. /\ r \in Record /\ f < r.from /\ r.from < r.end
        /\ f \in Nat /\ f % subbuf_size = 0 /\ Index(f) = i /\ i \in Subbufs
        /\ First(b, i) = f /\ r.end <= f + U /\ r.end <= f + subbuf_size
        /\ f + Committed(b, i) <= r.from
    BY <1>1, RecordIn
  <2> QED  BY <2>1 DEF Record
<1>3. AfterLast(b, c)  BY CommitChanges
<1> HIDE DEF c
<1>30. /\ c \in Rings /\ c.offset = b.offset /\ c.consumed = b.consumed
       /\ c.data_size = b.data_size
  BY <1>3 DEF AfterLast
<1>31. Len(c.pending) = N - 1 /\ \A y \in 1..(N - 1) : c.pending[y] = b.pending[y]
  BY <1>3 DEF AfterLast
<1>32. /\ c.cc = [b.cc EXCEPT ![i] = cc]
       /\ c.seq = [b.seq EXCEPT ![i] = IF r.end % subbuf_size = cc THEN cc ELSE @]
  BY <1>3 DEF AfterLast
<1>33. \A j \in Subbufs, q \in 0..(subbuf_size - 1) :
         c.cell[(j * subbuf_size) + q].pos =
           IF j = i /\ f + q \in r.from..(r.end - 1) THEN f + q
           ELSE b.cell[(j * subbuf_size) + q].pos
  BY <1>3 DEF AfterLast
<1>34. \A j \in Subbufs :
         /\ First(c, j) = First(b, j)
         /\ c.cell[j * subbuf_size].end =
              IF j = i /\ cc = 0 THEN f + b.data_size[i]
              ELSE b.cell[j * subbuf_size].end
  BY <1>3 DEF AfterLast
<1>4. /\ e \in Nat /\ Open(b, i) = e + k
      /\ e # 0 => N = 2 /\ Index(b.pending[1].from) = i
  BY <1>1, <1>2, <1>31, OpenAfter
<1>5. /\ U \in 0..subbuf_size /\ D \in 0..subbuf_size
      /\ Slot(b, o, i) /\ Current(o, i) => U = o % subbuf_size /\ D = U /\ U < subbuf_size
  <2>1. U \in 0..subbuf_size /\ D \in 0..subbuf_size
    BY <1>1, <1>2, UsedTyped
  <2>2. o % subbuf_size \in 0..(subbuf_size - 1)
    <3>1. o \in Int  BY <1>1
    <3> QED  BY <3>1, Sizes, DivMod
  <2>3. Current(o, i) => U = o % subbuf_size /\ D = U  BY DEF Used, Data
  <2> HIDE DEF U, D
  <2> QED  BY <2>1, <2>2, <2>3, Sizes
<1>6. Slot(b, o, i) /\ (~ Current(o, i) => U = subbuf_size)
  <2>1. f # -1  BY <1>2
  <2> QED  BY <2>1, <1>2 DEF RingInv, Used
<1>7. /\ k \in Nat \ {0} /\ e + k < U /\ t \in 1..U /\ r.end = f + t
      /\ U - e \in 1..U
  <2>1. k \in Nat \ {0}
    <3> HIDE DEF r
    <3> QED  BY <1>2
  <2>2. Open(b, i) # 0 => Open(b, i) < U  BY <1>2, OpenBound
  <2>3. t \in 1..U /\ r.end = f + t
    <3> HIDE DEF r, f, U
    <3> QED  BY <1>2, <1>5
  <2> HIDE DEF k, e, t, U
  <2> QED  BY <2>1, <2>2, <2>3, <1>4, <1>5
<1>8. cc = (U - e) % subbuf_size /\ cc \in 0..(subbuf_size - 1)
  <2>1. b.cc[i] = (U - (e + k)) % subbuf_size
    BY <1>4, <1>6 DEF Slot, Counted
  <2>2. (((U - (e + k)) % subbuf_size) + k) % subbuf_size = ((U - (e + k)) + k) % subbuf_size
    <3> HIDE DEF U, e, k
    <3>1. U - (e + k) \in Int /\ k \in Int  BY <1>4, <1>5, <1>7
    <3> QED  BY <3>1, Sizes, ModSum
  <2>3. (U - (e + k)) + k = U - e
    <3> HIDE DEF U, e, k
    <3> QED  BY <1>4, <1>5, <1>7
  <2>4. b.cc[i] + r.end - r.from = b.cc[i] + k
    <3>1. b.cc[i] \in Int
      <4> HIDE DEF i
      <4>1. b.cc \in [Subbufs -> 0..(subbuf_size - 1)]  BY <1>1 DEF Rings
      <4> QED  BY <4>1, <1>2, Sizes
    <3> HIDE DEF i, r
    <3> QED  BY <3>1, <1>2
  <2>5. U - e \in Int
    <3> HIDE DEF U, e
    <3> QED  BY <1>4, <1>5
  <2> HIDE DEF U, e, k
  <2> QED  BY <2>1, <2>2, <2>3, <2>4, <2>5, Sizes, DivMod
<1>9. r.end % subbuf_size = t % subbuf_size
  <2>1. (f + t) % subbuf_size = ((f % subbuf_size) + t) % subbuf_size
    <3>1. f \in Int /\ t \in Int
      <4> HIDE DEF f, t
      <4> QED  BY <1>2, <1>7
    <3> HIDE DEF f, t
    <3> QED  BY <3>1, Sizes, ModSum
  <2>2. 0 + t = t
    <3> HIDE DEF t
    <3> QED  BY <1>5, <1>7
  <2> HIDE DEF t, f
  <2> QED  BY <2>1, <2>2, <1>2, <1>7
<1>10. t % subbuf_size = (U - e) % subbuf_size => e = 0 /\ t = U
  <2> SUFFICES ASSUME t % subbuf_size = (U - e) % subbuf_size PROVE e = 0 /\ t = U
    OBVIOUS
  <2>1. t = U - e
    <3> DEFINE y == U - e
    <3>1. y \in 1..subbuf_size /\ t \in 1..subbuf_size
      <4> HIDE DEF U, e, t
      <4> QED  BY <1>5, <1>7, Sizes
    <3>2. t % subbuf_size = y % subbuf_size  OBVIOUS
    <3> HIDE DEF y, t
    <3> QED
      <4>1. subbuf_size % subbuf_size = 0
        <5>1. subbuf_size - subbuf_size * 1 = 0  BY Sizes
        <5> QED  BY <5>1, Sizes, ModOf
      <4>2. \A z \in 1..(subbuf_size - 1) : z % subbuf_size = z  BY Sizes, ModSmall
      <4>3. t = subbuf_size \/ t \in 1..(subbuf_size - 1)  BY <3>1, Sizes
      <4>4. y = subbuf_size \/ y \in 1..(subbuf_size - 1)  BY <3>1, Sizes
      <4> QED  BY <4>1, <4>2, <4>3, <4>4, <3>2 DEF y
  <2>2. e = 0
    <3> SUFFICES ASSUME e # 0 PROVE FALSE
      OBVIOUS
    <3>1. r.end = o
      <4>1. N = 2  BY <1>4
      <4> QED  BY <4>1 DEF RingInv, Nested
    <3>2. t = U
      <4>1. CASE Current(o, i)
        <5>1. f = Start(o)  BY <4>1, <1>2, <1>6 DEF Slot, Started
        <5>2. U = o % subbuf_size  BY <4>1, <1>5, <1>6
        <5>3. o - Start(o) = o % subbuf_size  BY <1>1, StartOf
        <5> QED  BY <3>1, <5>1, <5>2, <5>3
      <4>2. CASE ~ Current(o, i)
        <5>1. U = subbuf_size  BY <4>2, <1>6
        <5>2. t <= subbuf_size
          <6> HIDE DEF t, U
          <6> QED  BY <1>5, <1>7, Sizes
        <5>3. t = subbuf_size
          <6> SUFFICES ASSUME t # subbuf_size PROVE FALSE
            OBVIOUS
          <6> HIDE DEF t, f, i, r
          <6>1. t \in 1..(subbuf_size - 1) /\ t \in 0..(subbuf_size - 1)
            BY <5>2, <1>5, <1>7, Sizes
          <6>2. (f + t) % subbuf_size = t /\ Index(f + t) = i  BY <6>1, <1>2, InSubbuffer
          <6>3. o = f + t  BY <3>1, <1>7
          <6>4. Current(o, i)  BY <6>1, <6>2, <6>3 DEF Current
          <6> QED  BY <6>4, <4>2
        <5> QED  BY <5>1, <5>3
      <4> QED  BY <4>1, <4>2
    <3> HIDE DEF U, e, t
    <3> QED  BY <2>1, <3>2, <1>4, <1>5
  <2> HIDE DEF U, e, t
  <2> QED  BY <2>1, <2>2, <1>5
<1>11. /\ c.cc[i] = cc /\ c.data_size[i] = b.data_size[i]
       /\ c.seq[i] = IF r.end % subbuf_size = cc THEN cc ELSE b.seq[i]
  <2> HIDE DEF i, cc, r
  <2> QED  BY <1>1, <1>2, <1>30, <1>32 DEF Rings
<1>12. /\ r.end % subbuf_size = cc => e = 0 /\ t = U
       /\ Used(c, o, i) = U /\ Data(c, o, i) = D /\ First(c, i) = f /\ f # -1
  <2>1. r.end % subbuf_size = cc => e = 0 /\ t = U  BY <1>8, <1>9, <1>10
  <2>2. First(c, i) = f /\ f # -1  BY <1>2, <1>34
  <2> QED  BY <2>1, <2>2, <1>2, <1>11 DEF Used, Data
<1>13. Committed(b, i) \in 1..D /\ Readable(b, o, i)
  BY <1>2, <1>6, <1>12 DEF Slot, Readable
<1>14. Committed(c, i) \in 1..D /\ (Current(o, i) => c.seq[i] # 0)
       /\ (e # 0 => Committed(c, i) = Committed(b, i))
  <2>1. CASE r.end % subbuf_size = cc
    <3>1. e = 0 /\ c.seq[i] = cc /\ cc = U % subbuf_size
      <4>1. e = 0 /\ c.seq[i] = cc  BY <2>1, <1>11, <1>12
      <4>2. U - 0 = U
        <5> HIDE DEF U
        <5> QED  BY <1>5
      <4> QED  BY <4>1, <4>2, <1>8
    <3>2. CASE Current(o, i)
      <4>1. U \in 0..(subbuf_size - 1) /\ D = U /\ U > 0
        <5> HIDE DEF U, D, e, k
        <5> QED  BY <3>2, <1>4, <1>5, <1>6, <1>7, Sizes
      <4>2. U % subbuf_size = U
        <5> HIDE DEF U
        <5> QED  BY <4>1, Sizes, ModSmall
      <4>3. c.seq[i] = U /\ U # 0  BY <3>1, <4>1, <4>2
      <4>4. Committed(c, i) = U  BY <4>3 DEF Committed
      <4> HIDE DEF U, D, e
      <4> QED  BY <3>1, <4>1, <4>3, <4>4
    <3>3. CASE ~ Current(o, i)
      <4>1. U = subbuf_size  BY <3>3, <1>6
      <4>2. subbuf_size % subbuf_size = 0
        <5>1. subbuf_size - subbuf_size * 1 = 0  BY Sizes
        <5> QED  BY <5>1, Sizes, ModOf
      <4>3. c.seq[i] = 0  BY <3>1, <4>1, <4>2
      <4>4. Committed(c, i) = D  BY <3>3, <4>3, <1>11 DEF Committed, Data
      <4>5. D \in 1..D
        <5> HIDE DEF D
        <5> QED  BY <1>5, <1>13
      <4> QED  BY <3>1, <3>3, <4>4, <4>5
    <3> QED  BY <3>2, <3>3
  <2>2. CASE r.end % subbuf_size # cc
    <3>1. c.seq[i] = b.seq[i]  BY <2>2, <1>11
    <3>2. Committed(c, i) = Committed(b, i)  BY <3>1, <1>11 DEF Committed
    <3>3. Current(o, i) => b.seq[i] # 0  BY <1>2, <1>12, <1>13 DEF Readable
    <3> QED  BY <3>1, <3>2, <3>3, <1>13
  <2> QED  BY <2>1, <2>2
<1>15. ASSUME NEW x, Held(b, x) PROVE Held(c, x) \/ x \in r.from..(r.end - 1)
  <2>1. PICK y \in 1..N : x \in b.pending[y].from..(b.pending[y].end - 1)
    BY <1>15 DEF Held
  <2>2. CASE y = N  BY <2>1, <2>2
  <2>3. CASE y # N
    <3>1. y \in 1..(N - 1)
      <4> HIDE DEF N
      <4> QED  BY <2>1, <2>3, <1>1
    <3>2. c.pending[y] = b.pending[y] /\ y \in 1..Len(c.pending)  BY <3>1, <1>31
    <3> QED  BY <2>1, <3>2 DEF Held
  <2> QED  BY <2>2, <2>3
<1>16. Slot(c, o, i)
  <2>1. Counted(c, o, i)  BY <1>8, <1>11, <1>12 DEF Counted
  <2>2. Started(c, o, i)
    <3> HIDE DEF f, i, D
    <3> QED  BY <1>2, <1>6, <1>12 DEF Slot, Started, D
  <2>3. ASSUME NEW q \in 0..(D - 1)
        PROVE  c.cell[(i * subbuf_size) + q].pos = f + q \/ Held(c, f + q)
    <3>1. q \in 0..(subbuf_size - 1)
      <4> HIDE DEF D
      <4> QED  BY <1>5, Sizes
    <3>2. b.cell[(i * subbuf_size) + q].pos = f + q \/ Held(b, f + q)
      <4> HIDE DEF f, i
      <4> QED  BY <1>2, <1>12, <1>13 DEF Readable
    <3>3. c.cell[(i * subbuf_size) + q].pos =
            IF f + q \in r.from..(r.end - 1) THEN f + q
            ELSE b.cell[(i * subbuf_size) + q].pos
      BY <3>1, <1>2, <1>33
    <3> HIDE DEF f, i, r
    <3> QED  BY <3>2, <3>3, <1>15
  <2>4. Readable(c, o, i)
    <3> HIDE DEF D, f, i
    <3> QED  BY <2>3, <1>12, <1>14 DEF Readable
  <2>5. Ended(c, o, i)
    <3>1. c.cell[i * subbuf_size].end =
            IF cc = 0 THEN f + b.data_size[i] ELSE b.cell[i * subbuf_size].end
      BY <1>2, <1>34
    <3>2. cc = 0 => ~ Current(o, i)
      <4> SUFFICES ASSUME cc = 0, Current(o, i) PROVE FALSE
        OBVIOUS
      <4> DEFINE y == U - e
      <4>1. y \in 0..(subbuf_size - 1) /\ y # 0
        <5> HIDE DEF U, e
        <5> QED  BY <1>4, <1>5, <1>6, <1>7, Sizes DEF y
      <4>2. y % subbuf_size = 0  BY <1>8
      <4> HIDE DEF y
      <4> QED  BY <4>1, <4>2, Sizes, ModSmall
    <3>3. Ended(b, o, i)  BY <1>6 DEF Slot
    <3> HIDE DEF f, i, cc
    <3> QED  BY <3>1, <3>2, <3>3, <1>2, <1>11, <1>12 DEF Ended
  <2> QED  BY <2>1, <2>2, <2>4, <2>5 DEF Slot
<1>17. ASSUME NEW j \in Subbufs, j # i
       PROVE  Slot(c, o, j) /\ First(c, j) = First(b, j) /\ Committed(c, j) = Committed(b, j)
  <2>1. c.cc[j] = b.cc[j] /\ c.seq[j] = b.seq[j] /\ c.data_size[j] = b.data_size[j]
    <3> HIDE DEF i, cc, r
    <3> QED  BY <1>1, <1>2, <1>30, <1>32, <1>17 DEF Rings
  <2>2. \A q \in 0..(subbuf_size - 1) :
          c.cell[(j * subbuf_size) + q].pos = b.cell[(j * subbuf_size) + q].pos
    BY <1>33, <1>17
  <2>3. c.cell[j * subbuf_size].end = b.cell[j * subbuf_size].end  BY <1>34, <1>17
  <2>4. Open(c, j) = Open(b, j)
    <3>1. Open(c, j) \in Nat /\ Open(b, j) = Open(c, j) + 0
      BY <1>31, <1>17, OpenAfter
    <3> QED  BY <3>1
  <2>5. Slot(b, o, j)  BY DEF RingInv
  <2>6. Committed(c, j) = Committed(b, j) /\ First(c, j) = First(b, j)
    BY <2>1, <1>34 DEF Committed
  <2>7. CASE First(b, j) = -1
    <3>1. Counted(c, o, j) /\ Started(c, o, j) /\ Readable(c, o, j) /\ Ended(c, o, j)
      BY <2>1, <2>3, <2>4, <2>5, <2>6, <2>7
      DEF Slot, Counted, Started, Readable, Ended, Used, Data
    <3> QED  BY <3>1, <2>6 DEF Slot
  <2>8. CASE First(b, j) # -1
    <3> DEFINE h == First(b, j)
    <3>1. h \in Nat /\ h % subbuf_size = 0 /\ Index(h) = j
      BY <2>5, <2>8 DEF Slot, Started
    <3>2. ASSUME NEW q \in 0..(subbuf_size - 1), Held(b, h + q) PROVE Held(c, h + q)
      <4>1. h + q \notin r.from..(r.end - 1)
        <5>1. Index(h) # Index(f) /\ f <= r.from
          <6> HIDE DEF h, f, r, i
          <6> QED  BY <3>1, <1>2, <1>17
        <5> HIDE DEF h, f, r
        <5> QED  BY <5>1, <3>1, <1>2, OtherSubbuffer
      <4> QED  BY <4>1, <3>2, <1>15
    <3>3. o \in Nat /\ o <= o /\ b \in Rings /\ c \in Rings  BY <1>1, <1>30
    <3>4. \A q \in 0..(subbuf_size - 1) : Held(b, First(b, j) + q) => Held(c, First(b, j) + q)
      BY <3>2
    <3> HIDE DEF h
    <3>5. Slot(c, o, j)  BY <2>1, <2>2, <2>3, <2>4, <2>5, <3>3, <3>4, SlotFrame
    <3> QED  BY <3>5, <2>6
  <2> QED  BY <2>7, <2>8
<1>18. ASSUME NEW y \in 1..Len(c.pending) PROVE Pending(c, o, y)
  <2>1. y = 1 /\ N = 2 /\ c.pending[y] = b.pending[y] /\ y \in 1..Len(b.pending)
    <3>1. y \in 1..(N - 1)  BY <1>31
    <3>2. y = 1 /\ N = 2
      <4> HIDE DEF N
      <4> QED  BY <3>1, <1>1
    <3> QED  BY <3>1, <3>2, <1>31
  <2> DEFINE s == b.pending[y]
             j == Index(s.from)
  <2>2. Pending(b, o, y) /\ j \in Subbufs
    BY <2>1, RecordIn DEF RingInv
  <2>3. First(c, j) = First(b, j) /\ Committed(c, j) = Committed(b, j)
    <3>1. CASE j = i
      <4>1. e # 0
        <5> SUFFICES ASSUME e = 0 PROVE FALSE
          OBVIOUS
        <5>1. Size(c, 1, i) = s.end - s.from /\ Size(c, 2, i) = 0
          BY <2>1, <3>1, <1>31 DEF Size
        <5>2. s.from < s.end /\ s \in Record  BY <2>1, RecordIn
        <5>3. s.end - s.from \in Nat \ {0}
          <6> HIDE DEF s
          <6> QED  BY <5>2 DEF Record
        <5>4. e = (s.end - s.from) + 0  BY <5>1 DEF Open
        <5> HIDE DEF s, e
        <5> QED  BY <5>3, <5>4
      <4> QED  BY <3>1, <4>1, <1>34, <1>2, <1>14
    <3>2. CASE j # i  BY <2>2, <3>2, <1>17
    <3> QED  BY <3>1, <3>2
  <2> QED  BY <2>1, <2>2, <2>3 DEF Pending
<1>19. Nested(c, o)
  <2>1. Len(c.pending) <= 2 /\ Len(c.pending) # 2
    <3> HIDE DEF N
    <3> QED  BY <1>1, <1>31
  <2> QED  BY <2>1 DEF Nested
<1>20. Placed(c)
  <2>1. ASSUME NEW x \in Ring
        PROVE  c.cell[x].pos = -1 \/
               (c.cell[x].pos \in Nat /\ c.cell[x].pos % (num_subbuf * subbuf_size) = x)
    <3>1. PICK j \in Subbufs, q \in 0..(subbuf_size - 1) : x = (j * subbuf_size) + q
      BY RingIsSlots
    <3>2. CASE j = i /\ f + q \in r.from..(r.end - 1)
      <4>1. c.cell[x].pos = f + q  BY <3>1, <3>2, <1>33
      <4>2. (f + q) % (num_subbuf * subbuf_size) = (i * subbuf_size) + q
        BY <1>2, PlaceIs
      <4>3. f + q \in Nat  BY <1>2, Sizes
      <4> QED  BY <4>1, <4>2, <4>3, <3>1, <3>2
    <3>3. CASE ~ (j = i /\ f + q \in r.from..(r.end - 1))
      <4>1. c.cell[x].pos = b.cell[x].pos  BY <3>1, <3>3, <1>33
      <4> QED  BY <4>1 DEF RingInv, Placed
    <3> QED  BY <3>2, <3>3
  <2> QED  BY <2>1 DEF Placed
<1>21. RingInv(c, o)
  BY <1>1, <1>30, <1>16, <1>17, <1>18, <1>19, <1>20 DEF RingInv
<1> QED  BY <1>30, <1>21 DEF c

-----------------------------------------------------------------------------
(* What is in a ring when the kernel has crashed.                          *)

\* What ltt.py takes of a subbuffer was written and is not open, and the end in
\* the header, if there is one, is behind it.
Sound(b) ==
  \A i \in Subbufs :
    LET f == First(b, i)
        n == Committed(b, i)
        e == b.cell[i * subbuf_size].end
    IN  /\ f = -1 => n = 0
        /\ f # -1 =>
             /\ f \in Nat /\ f % subbuf_size = 0 /\ n \in 1..subbuf_size
             /\ f + n <= MaxTsc /\ (e # 0 => f + n <= e)
             /\ \A q \in 0..(n - 1) :
                  /\ b.cell[(i * subbuf_size) + q].pos = f + q
                  /\ ~ Held(b, f + q)

LEMMA RingSound ==
  ASSUME NEW b, NEW o, RingInv(b, o), o <= MaxTsc PROVE Sound(b)
<1> SUFFICES ASSUME NEW i \in Subbufs
             PROVE  LET f == First(b, i)
                        n == Committed(b, i)
                        e == b.cell[i * subbuf_size].end
                    IN  /\ f = -1 => n = 0
                        /\ f # -1 =>
                             /\ f \in Nat /\ f % subbuf_size = 0 /\ n \in 1..subbuf_size
                             /\ f + n <= MaxTsc /\ (e # 0 => f + n <= e)
                             /\ \A q \in 0..(n - 1) :
                                  /\ b.cell[(i * subbuf_size) + q].pos = f + q
                                  /\ ~ Held(b, f + q)
  BY DEF Sound
<1> DEFINE f == First(b, i)
           n == Committed(b, i)
           D == Data(b, o, i)
           e == b.cell[i * subbuf_size].end
<1>1. Slot(b, o, i) /\ b \in Rings /\ o \in Nat  BY DEF RingInv
<1>2. f = -1 => n = 0  BY <1>1 DEF Slot, Started, Committed
<1>3. ASSUME f # -1
      PROVE  /\ f \in Nat /\ f % subbuf_size = 0 /\ n \in 1..subbuf_size
             /\ f + n <= MaxTsc /\ (e # 0 => f + n <= e)
             /\ \A q \in 0..(n - 1) :
                  /\ b.cell[(i * subbuf_size) + q].pos = f + q
                  /\ ~ Held(b, f + q)
  <2>1. f \in Nat /\ f % subbuf_size = 0 /\ Index(f) = i /\ f + D <= o
    BY <1>1, <1>3 DEF Slot, Started
  <2>2. n \in 1..D /\ D \in 0..subbuf_size
    BY <1>1, <1>3, UsedTyped DEF Slot, Readable
  <2>3. n \in 1..subbuf_size /\ f + n <= MaxTsc
    <3>1. MaxTsc \in Nat  BY LttAssumption
    <3> HIDE DEF f, n, D
    <3> QED  BY <2>1, <2>2, <3>1, <1>1, Sizes
  <2>4. e # 0 => f + n <= e
    <3> SUFFICES ASSUME e # 0 PROVE f + n <= e
      OBVIOUS
    <3>1. ~ Current(o, i) /\ e = f + b.data_size[i]  BY <1>1 DEF Slot, Ended
    <3>2. D = b.data_size[i]  BY <3>1 DEF Data
    <3> HIDE DEF e, f, n, D
    <3> QED  BY <3>1, <3>2, <2>1, <2>2
  <2>5. ASSUME NEW q \in 0..(n - 1) PROVE ~ Held(b, f + q)
    <3>1. q \in 0..(subbuf_size - 1) /\ q < n
      <4> HIDE DEF n, D
      <4> QED  BY <2>2, <2>3, Sizes
    <3>2. ASSUME NEW k \in 1..Len(b.pending),
                 f + q \in b.pending[k].from..(b.pending[k].end - 1)
          PROVE  FALSE
      <4> DEFINE r == b.pending[k]
                 g == Start(r.from)
      <4>1. /\ r \in Record /\ g \in Nat /\ g % subbuf_size = 0 /\ Index(g) = Index(r.from)
            /\ First(b, Index(r.from)) = g /\ g < r.from /\ r.end <= g + subbuf_size
            /\ g + Committed(b, Index(r.from)) <= r.from
        BY RecordIn
      <4>2. r.from \in Nat /\ r.end \in Nat  BY <4>1 DEF Record
      <4>3. f + q \in r.from..(r.end - 1)  BY <3>2
      <4>4. CASE Index(r.from) = i
        <5>1. f + n <= r.from  BY <4>1, <4>4
        <5> HIDE DEF r, f, n
        <5> QED  BY <5>1, <4>2, <4>3, <3>1, <2>1, <2>3, Sizes
      <4>5. CASE Index(r.from) # i
        <5>1. Index(f) # Index(g)  BY <4>1, <4>5, <2>1
        <5>2. g <= r.from
          <6> HIDE DEF g, r
          <6> QED  BY <4>1, <4>2
        <5> HIDE DEF r, f, g, n
        <5> QED  BY <5>1, <5>2, <4>1, <4>3, <3>1, <2>1, OtherSubbuffer
      <4> QED  BY <4>4, <4>5
    <3> QED  BY <3>2 DEF Held
  <2>6. ASSUME NEW q \in 0..(n - 1) PROVE b.cell[(i * subbuf_size) + q].pos = f + q
    <3>1. q \in 0..(D - 1)
      <4> HIDE DEF n, D
      <4> QED  BY <2>2
    <3>2. b.cell[(i * subbuf_size) + q].pos = f + q \/ Held(b, f + q)
      BY <3>1, <1>1, <1>3 DEF Slot, Readable
    <3> QED  BY <3>2, <2>5
  <2> QED  BY <2>1, <2>3, <2>4, <2>5, <2>6
<1> QED  BY <1>2, <1>3

\* The crash in a switch only moves offset and consumed.
LEMMA SoundFrame ==
  ASSUME NEW b, NEW c, Sound(b), c.cell = b.cell, c.pending = b.pending,
         c.seq = b.seq, c.data_size = b.data_size
  PROVE  Sound(c)
<1>1. \A i \in Subbufs : First(c, i) = First(b, i) /\ Committed(c, i) = Committed(b, i)
  BY DEF First, Committed
<1>2. \A x : Held(c, x) <=> Held(b, x)  BY DEF Held
<1> QED  BY <1>1, <1>2 DEF Sound

-----------------------------------------------------------------------------
(* Packets and files.                                                      *)

\* Nothing that is open is in the packet of which h is the header.
Closed(h, b) ==
  \A k \in 1..Len(b.pending) :
    (h.pos..(h.pos + h.content - 1)) \cap (b.pending[k].from..(b.pending[k].end - 1)) = {}

IsPacket(p, b) ==
  /\ p \in Seq(Unit)
  /\ p # <<>> =>
       /\ IsHeader(p[1]) /\ p[1].pos \in Nat
       /\ p[1].content \in 1..Len(p) /\ p[1].packet = Len(p) /\ Len(p) % page_size = 0
       /\ p[1].pos + p[1].content <= p[1].end /\ Closed(p[1], b)
       /\ \A j \in 1..Len(p) :
            p[j].pos = IF j <= p[1].content THEN p[1].pos + j - 1 ELSE -1
       /\ \A j \in 2..Len(p) : ~ IsHeader(p[j])

PacketAt(f, h, b) ==
  LET next == h + f[h].packet IN
  /\ f[h].content > 0 /\ f[h].packet % page_size = 0
  /\ next \in Headers(f) \cup {Len(f) + 1}
  /\ \A j \in h..(next - 1) :
       f[j].pos = IF j < h + f[h].content THEN f[h].pos + j - h ELSE -1
  /\ f[h].pos + f[h].content <= f[h].end /\ Closed(f[h], b)

IsTrace(f, b) ==
  /\ f \in Seq(Unit)
  /\ f # <<>> => 1 \in Headers(f)
  /\ \A h \in Headers(f) : PacketAt(f, h, b)

LEMMA EmptyTrace == ASSUME NEW b PROVE IsTrace(<<>>, b)
<1>1. <<>> \in Seq(Unit) /\ Headers(<<>>) = {}  BY DEF Headers
<1> QED  BY <1>1 DEF IsTrace

\* The packet of a subbuffer, whatever bounds its size.
LEMMA PacketIs ==
  ASSUME NEW b \in Rings, Sound(b), NEW i \in Subbufs, NEW length \in Nat
  PROVE  LET n == Committed(b, i)
             p == handle_subbuffer(b, i, 0, length)
         IN  /\ IsPacket(p, b)
             /\ p = <<>> => n = 0
             /\ p # <<>> =>
                  /\ p[1].pos = First(b, i) /\ First(b, i) # -1
                  /\ p[1].content = IF length > 0 /\ length < n THEN length ELSE n
<1> DEFINE n == Committed(b, i)
           f == First(b, i)
           x0 == i * subbuf_size
           size == IF length > 0 /\ length < n THEN length ELSE n
           written == Least(size, subbuf_size - 0)
           padded == align(written, page_size)
           packet == [j \in 1..padded |->
                        IF j <= written THEN b.cell[i * subbuf_size + 0 + j - 1]
                                        ELSE Blank]
           u == fix_header(packet[1], written, padded)
           p == handle_subbuffer(b, i, 0, length)
<1>1. p = IF size = 0 THEN <<>> ELSE [packet EXCEPT ![1] = u]
  BY DEF handle_subbuffer
<1>2. CASE size = 0
  <2>1. p = <<>>  BY <1>1, <1>2
  <2>2. IsPacket(<<>>, b)
    <3>1. <<>> \in Seq(Unit)  OBVIOUS
    <3> QED  BY <3>1 DEF IsPacket
  <2>3. n = 0
    <3>1. n \in Nat  BY DEF Committed, Rings
    <3> HIDE DEF n
    <3> QED  BY <3>1, <1>2
  <2> HIDE DEF n, p, size
  <2> QED  BY <2>1, <2>2, <2>3 DEF n, p
<1>3. CASE size # 0
  <2>1. f # -1
    <3> SUFFICES ASSUME f = -1 PROVE FALSE
      OBVIOUS
    <3>1. n = 0  BY DEF Sound
    <3>2. size = 0
      <4> HIDE DEF n
      <4> QED  BY <3>1
    <3> QED  BY <3>2, <1>3
  <2>2. /\ f \in Nat /\ f % subbuf_size = 0 /\ n \in 1..subbuf_size
        /\ f + n <= MaxTsc /\ (b.cell[x0].end # 0 => f + n <= b.cell[x0].end)
        /\ \A q \in 0..(n - 1) :
             /\ b.cell[x0 + q].pos = f + q
             /\ ~ Held(b, f + q)
    BY <2>1 DEF Sound
  <2>3. written \in 1..n /\ written = size
    <3> HIDE DEF n
    <3> QED  BY <2>2, <1>3, Sizes DEF Least
  <2> HIDE DEF written, size
  <2>4. /\ padded \in Nat /\ padded % page_size = 0 /\ written <= padded /\ padded >= 1
        /\ padded \in Nat \ {0}
    <3>1. page_size \in Nat \ {0} /\ written \in Nat /\ written >= 1
      <4> HIDE DEF n
      <4> QED  BY <2>2, <2>3, LttAssumption
    <3>2. padded \in Nat /\ padded % page_size = 0 /\ padded >= written
      BY <3>1, AlignUp
    <3> HIDE DEF padded
    <3> QED  BY <3>1, <3>2
  <2> HIDE DEF padded
  <2>5. ASSUME NEW j \in 1..written
        PROVE  /\ j \in 1..padded /\ packet[j] = b.cell[x0 + (j - 1)]
               /\ packet[j] \in Unit /\ packet[j].pos = f + (j - 1)
               /\ (f + (j - 1)) % subbuf_size = j - 1
    <3>1. j \in 1..padded /\ j <= written /\ j - 1 \in 0..(n - 1) /\ j - 1 \in 0..(subbuf_size - 1)
      <4> HIDE DEF n
      <4> QED  BY <2>2, <2>3, <2>4, Sizes
    <3>2. packet[j] = b.cell[i * subbuf_size + 0 + j - 1]  BY <3>1
    <3>3. i * subbuf_size + 0 + j - 1 = x0 + (j - 1)
      <4>1. x0 \in Nat  BY HeaderInRing DEF Ring
      <4> HIDE DEF x0
      <4>2. x0 + 0 + j - 1 = x0 + (j - 1)  BY <4>1
      <4> QED  BY <4>2 DEF x0
    <3>4. x0 + (j - 1) \in Ring  BY <3>1, SlotInRing
    <3>5. b.cell[x0 + (j - 1)] \in Unit  BY <3>4 DEF Rings
    <3>6. b.cell[x0 + (j - 1)].pos = f + (j - 1)  BY <3>1, <2>2
    <3>7. (f + (j - 1)) % subbuf_size = j - 1  BY <3>1, <2>2, InSubbuffer
    <3> QED  BY <3>1, <3>2, <3>3, <3>5, <3>6, <3>7
  <2>6. ASSUME NEW j \in 1..padded, ~ j <= written PROVE packet[j] = Blank
    BY <2>6
  <2>7. 1 \in 1..written /\ 1 \in 1..padded
    <3> HIDE DEF n
    <3> QED  BY <2>2, <2>3, <2>4
  <2>8. /\ u \in Unit /\ u.pos = f /\ u.content = written /\ u.packet = padded
        /\ f + written <= u.end
    <3> DEFINE h == packet[1]
    <3>1. h \in Unit /\ h.pos = f /\ h = b.cell[x0]
      <4>1. h \in Unit /\ h.pos = f + (1 - 1) /\ h = b.cell[x0 + (1 - 1)]  BY <2>5, <2>7
      <4>2. f + (1 - 1) = f  BY <2>2
      <4>3. x0 + (1 - 1) = x0
        <5>1. x0 \in Nat  BY HeaderInRing DEF Ring
        <5> HIDE DEF x0
        <5> QED  BY <5>1
      <4> HIDE DEF h, x0, f
      <4> QED  BY <4>1, <4>2, <4>3
    <3>2. written \in Nat /\ padded \in Nat /\ MaxTsc \in Nat
      <4> HIDE DEF n
      <4> QED  BY <2>2, <2>3, <2>4, LttAssumption
    <3>3. u = [h EXCEPT !.end = IF h.end = 0 THEN MaxTsc ELSE h.end,
                        !.content = written, !.packet = padded]
      BY DEF fix_header
    <3> HIDE DEF h, u
    <3>4. /\ u \in Unit /\ u.pos = h.pos /\ u.content = written /\ u.packet = padded
          /\ u.end = IF h.end = 0 THEN MaxTsc ELSE h.end
      <4>1. h.end \in Nat  BY <3>1 DEF Unit
      <4> QED  BY <4>1, <3>1, <3>2, <3>3 DEF Unit
    <3>5. f + written <= u.end
      <4>1. f + written <= f + n
        <5> HIDE DEF f, n
        <5> QED  BY <2>2, <2>3
      <4>2. h.end \in Nat  BY <3>1 DEF Unit
      <4> HIDE DEF f, n
      <4>3. f + written \in Nat /\ f + n \in Nat  BY <2>2, <3>2
      <4>4. CASE h.end = 0
        <5>1. u.end = MaxTsc  BY <3>4, <4>4
        <5> QED  BY <5>1, <4>1, <4>3, <2>2, <3>2
      <4>5. CASE h.end # 0
        <5>1. u.end = h.end /\ f + n <= h.end  BY <3>1, <3>4, <4>5, <2>2
        <5> QED  BY <5>1, <4>1, <4>2, <4>3
      <4> QED  BY <4>4, <4>5
    <3> QED  BY <3>1, <3>4, <3>5
  <2> HIDE DEF u
  <2>9. /\ p \in [1..padded -> Unit] /\ p[1] = u
        /\ \A j \in 2..padded : p[j] = packet[j]
    <3>1. p = [packet EXCEPT ![1] = u]  BY <1>1, <1>3
    <3>2. ASSUME NEW j \in 1..padded PROVE packet[j] \in Unit
      <4>1. CASE j <= written
        <5>1. j \in 1..written
          <6> HIDE DEF n
          <6> QED  BY <4>1, <2>3, <2>2
        <5> QED  BY <5>1, <2>5
      <4>2. CASE ~ j <= written
        <5>1. packet[j] = Blank  BY <4>2, <2>6
        <5> QED  BY <5>1 DEF Blank, Plain, Unit
      <4> QED  BY <4>1, <4>2
    <3>3. packet \in [1..padded -> Unit]
      <4>1. packet = [j \in 1..padded |-> packet[j]]  OBVIOUS
      <4> HIDE DEF packet
      <4> QED  BY <4>1, <3>2
    <3> HIDE DEF packet, p
    <3> QED  BY <3>1, <3>3, <2>7, <2>8
  <2>10. p \in Seq(Unit) /\ Len(p) = padded /\ p # <<>>
    <3>1. p \in Seq(Unit)  BY <2>4, <2>9
    <3>2. Len(p) = padded  BY <2>4, <2>9, <3>1, LenProperties
    <3>3. Len(<<>>) = 0  OBVIOUS
    <3> HIDE DEF p
    <3> QED  BY <3>1, <3>2, <3>3, <2>4
  <2> HIDE DEF p
  <2>11. ASSUME NEW j \in 1..padded
         PROVE  /\ p[j].pos = IF j <= written THEN f + j - 1 ELSE -1
                /\ j # 1 => ~ IsHeader(p[j])
                /\ j = 1 => IsHeader(p[j])
    <3>1. CASE j = 1
      <4>1. p[j].pos = f /\ f + j - 1 = f /\ j <= written
        <5> HIDE DEF f, n
        <5> QED  BY <3>1, <2>2, <2>3, <2>8, <2>9
      <4> QED  BY <4>1, <3>1, <2>1, <2>2 DEF IsHeader
    <3>2. CASE j # 1 /\ j <= written
      <4>1. j \in 1..written /\ j \in 2..padded /\ j - 1 # 0 /\ f + j - 1 = f + (j - 1)
        <5> HIDE DEF f, n
        <5> QED  BY <3>2, <2>2, <2>3, <2>4
      <4>2. p[j].pos = f + (j - 1) /\ (f + (j - 1)) % subbuf_size = j - 1
        BY <4>1, <2>5, <2>9
      <4>3. ~ IsHeader(p[j])  BY <4>1, <4>2 DEF IsHeader
      <4> QED  BY <4>1, <4>2, <4>3, <3>2
    <3>3. CASE ~ j <= written
      <4>1. j \in 2..padded
        <5> HIDE DEF n
        <5> QED  BY <3>3, <2>2, <2>3, <2>4
      <4>2. p[j] = Blank  BY <4>1, <3>3, <2>6, <2>9
      <4>3. p[j].pos = -1  BY <4>2 DEF Blank, Plain
      <4>4. j # 1  BY <4>1
      <4> QED  BY <4>3, <4>4, <3>3 DEF IsHeader
    <3> QED  BY <3>1, <3>2, <3>3
  <2>12. Closed(p[1], b)
    <3>1. ASSUME NEW k \in 1..Len(b.pending), NEW y \in f..(f + written - 1)
          PROVE  y \notin b.pending[k].from..(b.pending[k].end - 1)
      <4> DEFINE q == y - f
      <4>1. q \in 0..(n - 1) /\ f + q = y
        <5> HIDE DEF f, n
        <5> QED  BY <2>2, <2>3
      <4>2. ~ Held(b, f + q)  BY <4>1, <2>2
      <4> HIDE DEF q, f
      <4> QED  BY <4>1, <4>2 DEF Held
    <3>2. p[1].pos = f /\ p[1].content = written  BY <2>8, <2>9
    <3> HIDE DEF f
    <3> QED  BY <3>1, <3>2 DEF Closed
  <2>13. p[1].content \in 1..Len(p)
    <3> HIDE DEF n
    <3> QED  BY <2>2, <2>3, <2>4, <2>8, <2>9, <2>10
  <2>14. \A j \in 2..Len(p) : ~ IsHeader(p[j])
    <3>1. \A j \in 2..padded : j \in 1..padded /\ j # 1  BY <2>4
    <3> QED  BY <3>1, <2>10, <2>11
  <2>15. \A j \in 1..Len(p) : p[j].pos = IF j <= p[1].content THEN p[1].pos + j - 1 ELSE -1
    BY <2>8, <2>9, <2>10, <2>11
  <2>16. IsHeader(p[1]) /\ p[1].pos \in Nat  BY <2>2, <2>7, <2>8, <2>9, <2>11
  <2>17. p[1].packet = Len(p) /\ Len(p) % page_size = 0 /\ p[1].pos + p[1].content <= p[1].end
    BY <2>4, <2>8, <2>9, <2>10
  <2>18. IsPacket(p, b)
    BY <2>10, <2>12, <2>13, <2>14, <2>15, <2>16, <2>17 DEF IsPacket
  <2>19. p # <<>> /\ p[1].pos = f /\ f # -1 /\ p[1].content = size
    BY <2>1, <2>3, <2>8, <2>9, <2>10
  <2> HIDE DEF f, n
  <2> QED  BY <2>18, <2>19 DEF p, f, n, size
<1> QED  BY <1>2, <1>3

\* A file stays one that can be read when a packet is put behind it.
LEMMA AppendPacket ==
  ASSUME NEW b, NEW f, IsTrace(f, b), NEW p, IsPacket(p, b)
  PROVE  IsTrace(f \o p, b)
<1> DEFINE N == Len(f)
           P == Len(p)
           g == f \o p
<1>1. /\ f \in Seq(Unit) /\ p \in Seq(Unit) /\ N \in Nat /\ P \in Nat
      /\ DOMAIN f = 1..N /\ DOMAIN p = 1..P
  <2>1. f \in Seq(Unit) /\ p \in Seq(Unit)  BY DEF IsTrace, IsPacket
  <2> QED  BY <2>1, LenProperties
<1>2. CASE p = <<>>
  <2>1. g = f  BY <1>1, <1>2
  <2> QED  BY <2>1
<1>3. CASE p # <<>>
  <2>1. P >= 1  BY <1>1, <1>3, EmptySeq
  <2>2. /\ g \in Seq(Unit) /\ Len(g) = N + P /\ DOMAIN g = 1..(N + P)
        /\ \A j \in 1..N : g[j] = f[j]
        /\ \A j \in 1..P : g[N + j] = p[j]
    <3>1. g \in Seq(Unit) /\ Len(g) = N + P
          /\ \A j \in 1..(N + P) : g[j] = IF j <= N THEN f[j] ELSE p[j - N]
      BY <1>1, ConcatProperties
    <3>2. DOMAIN g = 1..(N + P)  BY <3>1, LenProperties
    <3> HIDE DEF g, N, P
    <3>3. ASSUME NEW j \in 1..N PROVE g[j] = f[j]  BY <3>1, <1>1
    <3>4. ASSUME NEW j \in 1..P PROVE g[N + j] = p[j]
      <4>1. N + j \in 1..(N + P) /\ ~ (N + j <= N) /\ (N + j) - N = j  BY <1>1
      <4> QED  BY <4>1, <3>1
    <3> QED  BY <3>1, <3>2, <3>3, <3>4
  <2> HIDE DEF g
  <2>3. /\ IsHeader(p[1]) /\ p[1].content \in 1..P /\ p[1].packet = P
        /\ p[1].pos \in Nat
        /\ P % page_size = 0 /\ p[1].pos + p[1].content <= p[1].end /\ Closed(p[1], b)
        /\ \A j \in 1..P : p[j].pos = IF j <= p[1].content THEN p[1].pos + j - 1 ELSE -1
        /\ \A j \in 2..P : ~ IsHeader(p[j])
    BY <1>3 DEF IsPacket
  <2>4. g[N + 1] = p[1] /\ N + 1 \in 1..(N + P)
    <3> HIDE DEF N, P
    <3> QED  BY <1>1, <2>1, <2>2
  <2>5. Headers(g) = Headers(f) \cup {N + 1}
    <3>1. ASSUME NEW j \in 1..(N + P), j > N + 1 PROVE ~ IsHeader(g[j])
      <4> DEFINE y == j - N
      <4>1. y \in 2..P /\ y \in 1..P /\ N + y = j
        <5> HIDE DEF N, P
        <5> QED  BY <1>1, <3>1
      <4> HIDE DEF y, N, P
      <4>2. g[j] = p[y]  BY <4>1, <2>2
      <4> QED  BY <4>1, <4>2, <2>3
    <3>2. \A j \in 1..(N + P) : j \in 1..N \/ j = N + 1 \/ j > N + 1
      <4> HIDE DEF N, P
      <4> QED  BY <1>1
    <3>3. \A j \in 1..N : j \in 1..(N + P)
      <4> HIDE DEF N, P
      <4> QED  BY <1>1
    <3> HIDE DEF N, P
    <3> QED  BY <1>1, <2>2, <2>3, <2>4, <3>1, <3>2, <3>3 DEF Headers
  <2>6. 1 \in Headers(g)
    <3>1. CASE f = <<>>
      <4>1. N = 0  BY <3>1
      <4>2. N + 1 = 1  BY <4>1
      <4> HIDE DEF N
      <4> QED  BY <4>2, <2>5
    <3>2. CASE f # <<>>  BY <3>2, <2>5 DEF IsTrace
    <3> QED  BY <3>1, <3>2
  <2>7. ASSUME NEW h \in Headers(f) PROVE PacketAt(g, h, b)
    <3> DEFINE next == h + f[h].packet
    <3>1. PacketAt(f, h, b) /\ h \in 1..N  BY <1>1 DEF IsTrace, Headers
    <3>2. next \in Headers(f) \cup {N + 1}  BY <3>1 DEF PacketAt
    <3>3. next \in 1..(N + 1)
      <4>1. Headers(f) \subseteq 1..N  BY <1>1 DEF Headers
      <4> HIDE DEF next, N
      <4> QED  BY <4>1, <3>2, <1>1
    <3>4. g[h] = f[h]  BY <3>1, <2>2
    <3>5. ASSUME NEW j \in h..(next - 1) PROVE g[j] = f[j]
      <4>1. j \in 1..N
        <5> HIDE DEF next, N
        <5> QED  BY <3>1, <3>3, <1>1
      <4> QED  BY <4>1, <2>2
    <3>6. next \in Headers(g)  BY <3>2, <2>5
    <3> HIDE DEF N
    <3> QED  BY <3>1, <3>4, <3>5, <3>6 DEF PacketAt
  <2>8. PacketAt(g, N + 1, b)
    <3> DEFINE h == N + 1
               next == h + g[h].packet
    <3>1. g[h] = p[1]  BY <2>4
    <3>2. next = Len(g) + 1 /\ next = N + P + 1
      <4>1. next = (N + 1) + P  BY <3>1, <2>3
      <4> HIDE DEF next, N, P
      <4> QED  BY <4>1, <1>1, <2>2
    <3>3. ASSUME NEW j \in h..(next - 1)
          PROVE  g[j].pos = IF j < h + g[h].content THEN g[h].pos + j - h ELSE -1
      <4> DEFINE y == j - N
      <4>1. y \in 1..P /\ N + y = j
        <5> HIDE DEF next, N, P
        <5> QED  BY <3>2, <1>1
      <4>2. g[j] = p[y]  BY <4>1, <2>2
      <4>3. p[y].pos = IF y <= p[1].content THEN p[1].pos + y - 1 ELSE -1
        BY <4>1, <2>3
      <4>4. y <= p[1].content <=> j < h + p[1].content
        <5>1. p[1].content \in Nat
          <6> HIDE DEF P
          <6> QED  BY <2>3, <1>1
        <5> HIDE DEF P, N
        <5> QED  BY <5>1, <4>1, <1>1
      <4>5. p[1].pos + y - 1 = p[1].pos + j - h
        <5> HIDE DEF P, N
        <5> QED  BY <4>1, <1>1, <2>3
      <4> HIDE DEF y, N, h
      <4> QED  BY <4>2, <4>3, <4>4, <4>5, <3>1
    <3>4. g[h].content > 0
      <4> HIDE DEF P
      <4> QED  BY <3>1, <2>3, <1>1
    <3>5. g[h].packet % page_size = 0 /\ g[h].pos + g[h].content <= g[h].end /\ Closed(g[h], b)
      BY <3>1, <2>3
    <3> HIDE DEF h
    <3>6. PacketAt(g, h, b)  BY <3>2, <3>3, <3>4, <3>5 DEF PacketAt
    <3> QED  BY <3>6 DEF h
  <2>9. IsTrace(g, b)
    <3> HIDE DEF N
    <3> QED  BY <2>2, <2>5, <2>6, <2>7, <2>8 DEF IsTrace
  <2> QED  BY <2>9 DEF g
<1> QED  BY <1>2, <1>3

-----------------------------------------------------------------------------
(* The invariant.                                                          *)

DumpInv ==
  /\ buf \in [CPUs -> Rings] /\ files \in [CPUs -> Seq(Unit)]
  /\ \A c \in CPUs :
       /\ buf[c].consumed % subbuf_size = 0
       /\ IsTrace(files[c], buf[c])
       /\ IF pc = "tracing"
          THEN /\ RingInv(buf[c], buf[c].offset) /\ buf[c].offset <= MaxTsc
               /\ files[c] = <<>>
          ELSE Sound(buf[c])
  /\ pc = "walk" /\ Head(cpus) \in CPUs => cidx \in Subbufs

\* A ring in which nothing but the first header is written.
LEMMA NewRingInv ==
  /\ NewRing \in Rings /\ RingInv(NewRing, 1) /\ NewRing.offset = 1
  /\ NewRing.consumed = 0
<1> DEFINE b == NewRing
<1>1. /\ 0 \in 0..(subbuf_size - 1) /\ 1 \in 0..(subbuf_size - 1)
      /\ 0 % subbuf_size = 0 /\ 1 % subbuf_size = 1
      /\ 0 \in Subbufs /\ 0 * subbuf_size = 0 /\ 0 \in Ring
  <2>1. 0 \in 0..(subbuf_size - 1) /\ 1 \in 0..(subbuf_size - 1) /\ 0 \in Subbufs
    BY Sizes DEF Subbufs
  <2>2. 0 % subbuf_size = 0 /\ 1 % subbuf_size = 1  BY <2>1, Sizes, ModSmall
  <2>3. 0 * subbuf_size = 0  BY Sizes
  <2>4. 0 \in Ring  BY <2>1, <2>3, HeaderInRing
  <2> QED  BY <2>1, <2>2, <2>3, <2>4
<1>2. Index(0) = 0 /\ Index(1) = 0 /\ Start(1) = 0
  <2>1. 0 \div subbuf_size = 0  BY <1>1, Sizes, ModSmall
  <2>2. 0 % num_subbuf = 0
    <3>1. 0 \in 0..(num_subbuf - 1)  BY Sizes
    <3> QED  BY <3>1, Sizes, ModSmall
  <2>3. Index(0) = 0  BY <2>1, <2>2 DEF Index
  <2>4. Index(0 + 1) = Index(0)  BY <1>1, InSubbuffer
  <2>5. Start(1) = 0  BY <1>1 DEF Start
  <2> QED  BY <2>3, <2>4, <2>5
<1>3. Plain(0) \in Unit /\ Blank \in Unit /\ Plain(0).pos = 0 /\ Plain(0).end = 0
      /\ Blank.pos = -1 /\ Blank.end = 0
  BY DEF Plain, Blank, Unit
<1>4. /\ b.offset = 1 /\ b.consumed = 0 /\ b.pending = <<>> /\ b.overtaken = {}
      /\ b.cc = [i \in Subbufs |-> IF i = 0 THEN 1 ELSE 0]
      /\ b.seq = [i \in Subbufs |-> IF i = 0 THEN 1 ELSE 0]
      /\ b.data_size = [i \in Subbufs |-> 0]
      /\ b.cell = [r \in Ring |-> IF r = 0 THEN Plain(0) ELSE Blank]
  BY DEF NewRing
<1>5. b \in Rings
  <2>1. b.cc \in [Subbufs -> 0..(subbuf_size - 1)] /\ b.seq \in [Subbufs -> 0..(subbuf_size - 1)]
    BY <1>1, <1>4
  <2>2. b.data_size \in [Subbufs -> 0..subbuf_size]  BY <1>4, Sizes
  <2>3. b.cell \in [Ring -> Unit]  BY <1>3, <1>4
  <2>4. b.pending \in Seq(Record)  BY <1>4
  <2>5. b = [offset |-> b.offset, consumed |-> b.consumed, cc |-> b.cc, seq |-> b.seq,
             data_size |-> b.data_size, cell |-> b.cell, pending |-> b.pending,
             overtaken |-> b.overtaken]
    BY DEF NewRing
  <2> HIDE DEF b
  <2>6. b.offset \in Nat /\ b.consumed \in Nat /\ b.overtaken \in SUBSET Nat
    BY <1>4
  <2> QED  BY <2>1, <2>2, <2>3, <2>4, <2>5, <2>6 DEF Rings
<1> HIDE DEF b
<1>6. Len(b.pending) = 0  BY <1>4
<1>7. \A i \in Subbufs : Open(b, i) = 0
  BY <1>6 DEF Open, Size
<1>8. Slot(b, 1, 0)
  <2>1. Current(1, 0) /\ First(b, 0) = 0 /\ Used(b, 1, 0) = 1 /\ Data(b, 1, 0) = 1
    BY <1>1, <1>2, <1>3, <1>4 DEF Current, First, Used, Data
  <2>2. b.cc[0] = 1 /\ b.seq[0] = 1 /\ b.cell[0].end = 0 /\ b.cell[0].pos = 0
    BY <1>1, <1>3, <1>4
  <2>3. Committed(b, 0) = 1  BY <2>2 DEF Committed
  <2>4. Counted(b, 1, 0)
    <3>1. 1 - 0 = 1  OBVIOUS
    <3> QED  BY <3>1, <2>1, <2>2, <1>1, <1>7 DEF Counted
  <2>5. Started(b, 1, 0)  BY <2>1, <1>1, <1>2 DEF Started
  <2>6. Readable(b, 1, 0)
    <3>1. ASSUME NEW q \in 0..(1 - 1) PROVE b.cell[(0 * subbuf_size) + q].pos = 0 + q
      <4>1. q = 0 /\ (0 * subbuf_size) + q = 0 /\ 0 + q = 0  BY <1>1
      <4> QED  BY <4>1, <2>2
    <3> QED  BY <3>1, <2>1, <2>2, <2>3 DEF Readable
  <2>7. Ended(b, 1, 0)  BY <2>2, <1>1 DEF Ended
  <2> QED  BY <2>4, <2>5, <2>6, <2>7 DEF Slot
<1>9. ASSUME NEW i \in Subbufs, i # 0 PROVE Slot(b, 1, i)
  <2>1. i * subbuf_size \in Ring /\ i * subbuf_size # 0
    BY <1>1, <1>9, HeaderInRing, HeaderUnique
  <2>2. First(b, i) = -1 /\ b.cell[i * subbuf_size].end = 0
    BY <2>1, <1>3, <1>4 DEF First
  <2>3. ~ Current(1, i)  BY <1>2, <1>9 DEF Current
  <2>4. b.cc[i] = 0 /\ b.seq[i] = 0 /\ b.data_size[i] = 0  BY <1>4, <1>9
  <2>5. Used(b, 1, i) = 0  BY <2>2, <2>3 DEF Used
  <2>6. Counted(b, 1, i)
    <3>1. 0 - 0 = 0  OBVIOUS
    <3> QED  BY <3>1, <2>4, <2>5, <1>1, <1>7 DEF Counted
  <2>7. Started(b, 1, i) /\ Readable(b, 1, i) /\ Ended(b, 1, i)
    BY <2>2, <2>3, <2>4 DEF Started, Readable, Ended
  <2> QED  BY <2>6, <2>7 DEF Slot
<1>10. Nested(b, 1)  BY <1>6 DEF Nested
<1>11. Placed(b)
  <2>1. 0 % (num_subbuf * subbuf_size) = 0
    <3>1. (0 + 0) % (num_subbuf * subbuf_size) = (Index(0) * subbuf_size) + 0
      BY <1>1, PlaceIs
    <3> QED  BY <3>1, <1>1, <1>2
  <2>2. ASSUME NEW x \in Ring
        PROVE  b.cell[x].pos = -1 \/
               (b.cell[x].pos \in Nat /\ b.cell[x].pos % (num_subbuf * subbuf_size) = x)
    <3>1. CASE x = 0
      <4>1. b.cell[x].pos = 0  BY <3>1, <1>3, <1>4
      <4> QED  BY <4>1, <3>1, <2>1
    <3>2. CASE x # 0  BY <3>2, <1>3, <1>4
    <3> QED  BY <3>1, <3>2
  <2> QED  BY <2>2 DEF Placed
<1>12. RingInv(b, 1)
  <2>1. \A k \in 1..Len(b.pending) : Pending(b, 1, k)  BY <1>6
  <2> QED  BY <2>1, <1>5, <1>8, <1>9, <1>10, <1>11 DEF RingInv
<1> QED  BY <1>4, <1>5, <1>12 DEF b

LEMMA InitDump == Init => DumpInv
<1> SUFFICES ASSUME Init PROVE DumpInv
  OBVIOUS
<1>1. buf = [c \in CPUs |-> NewRing] /\ files = [c \in CPUs |-> <<>>] /\ pc = "tracing"
  BY DEF Init
<1>2. 0 % subbuf_size = 0
  <2>1. 0 \in 0..(subbuf_size - 1)  BY Sizes
  <2> QED  BY <2>1, Sizes, ModSmall
<1>3. ASSUME NEW c \in CPUs
      PROVE  /\ buf[c] \in Rings /\ files[c] \in Seq(Unit) /\ files[c] = <<>>
             /\ RingInv(buf[c], buf[c].offset) /\ buf[c].offset <= MaxTsc
             /\ buf[c].consumed % subbuf_size = 0
  <2>1. buf[c] = NewRing /\ files[c] = <<>>  BY <1>1
  <2>2. 1 <= MaxTsc
    <3>1. MaxOffset[c] \in Nat /\ MaxOffset[c] < MaxTsc /\ MaxTsc \in Nat
      BY LttAssumption
    <3> QED  BY <3>1
  <2> QED  BY <2>1, <2>2, <1>2, NewRingInv
<1>4. buf \in [CPUs -> Rings] /\ files \in [CPUs -> Seq(Unit)]
  BY <1>1, <1>3
<1> QED  BY <1>1, <1>3, <1>4, EmptyTrace DEF DumpInv

LEMMA ReserveDump ==
  ASSUME MaxNesting <= 2, DumpInv, NEW c \in CPUs, reserve(c) PROVE DumpInv'
<1> DEFINE b == buf[c]
<1>1. PICK k \in RecordSizes :
        LET begin == Begin(b, k)
            end   == begin + k
            moved == IF Fits(b, k) THEN b
                     ELSE SwitchNewStart(SwitchOldEnd(b), begin - 1)
        IN  CanReserve(c, k)
            /\ buf' = [buf EXCEPT ![c] = Reserved(moved, begin, k, Pushed(b, end))]
  BY DEF reserve, Reserved
<1> DEFINE begin == Begin(b, k)
           end   == begin + k
           moved == IF Fits(b, k) THEN b
                    ELSE SwitchNewStart(SwitchOldEnd(b), begin - 1)
           d == Reserved(moved, begin, k, Pushed(b, end))
<1>2. /\ pc = "tracing" /\ Len(b.pending) < MaxNesting
      /\ end <= MaxOffset[c] /\ (~ Fits(b, k) => b.cc[Index(begin)] = 0)
      /\ buf' = [buf EXCEPT ![c] = d]
  BY <1>1 DEF CanReserve
<1>3. pc' = "tracing" /\ files' = files  BY <1>2 DEF reserve
<1>4. RingInv(b, b.offset) /\ b.consumed % subbuf_size = 0 /\ files[c] = <<>>
  BY <1>2 DEF DumpInv
<1>5. Len(b.pending) <= 1
  <2>1. b.pending \in Seq(Record)  BY <1>4 DEF RingInv, Rings
  <2> DEFINE n == Len(b.pending)
  <2>2. n \in Nat /\ n < MaxNesting /\ MaxNesting \in Nat
    BY <2>1, <1>2, LenProperties, LttAssumption
  <2> HIDE DEF n
  <2>3. n <= 1  BY <2>2
  <2> QED  BY <2>3 DEF n
<1>6. RingInv(d, end) /\ d.offset = end /\ d.consumed = Pushed(b, end)
  <2> HIDE DEF b
  <2> QED  BY <1>2, <1>4, <1>5, ReserveStep
<1> HIDE DEF d
<1>7. d.consumed % subbuf_size = 0
  <2>1. b.consumed \in Nat  BY <1>4 DEF RingInv, Rings
  <2>2. (b.consumed + subbuf_size) % subbuf_size = 0
    <3> DEFINE h == b.consumed
    <3>1. h \in Nat /\ h % subbuf_size = 0  BY <1>4, <2>1
    <3> HIDE DEF h
    <3>2. (h + subbuf_size) % subbuf_size = 0  BY <3>1, NextSubbuffer
    <3> QED  BY <3>2 DEF h
  <2> QED  BY <2>2, <1>4, <1>6 DEF Pushed
<1>8. end <= MaxTsc
  <2>1. end \in Nat  BY <1>6 DEF RingInv
  <2>2. MaxOffset[c] \in Nat /\ MaxOffset[c] < MaxTsc /\ MaxTsc \in Nat
    BY LttAssumption
  <2> HIDE DEF end
  <2> QED  BY <2>1, <2>2, <1>2
<1>9. d \in Rings  BY <1>6 DEF RingInv
<1>10. buf' \in [CPUs -> Rings] /\ buf'[c] = d /\ \A e \in CPUs \ {c} : buf'[e] = buf[e]
  <2> HIDE DEF b, end
  <2> QED  BY <1>2, <1>9 DEF DumpInv
<1> HIDE DEF end, b
<1>11. ASSUME NEW e \in CPUs
       PROVE  /\ buf'[e].consumed % subbuf_size = 0
              /\ RingInv(buf'[e], buf'[e].offset) /\ buf'[e].offset <= MaxTsc
              /\ files'[e] = <<>>
  <2>1. files'[e] = <<>>  BY <1>2, <1>3 DEF DumpInv
  <2>2. CASE e = c  BY <2>1, <2>2, <1>6, <1>7, <1>8, <1>10
  <2>3. CASE e # c
    <3>1. buf'[e] = buf[e]  BY <2>3, <1>10
    <3> QED  BY <2>1, <3>1, <1>2 DEF DumpInv
  <2> QED  BY <2>2, <2>3
<1>12. \A e \in CPUs : IsTrace(files'[e], buf'[e])  BY <1>11, EmptyTrace
<1>13. files' \in [CPUs -> Seq(Unit)]  BY <1>3 DEF DumpInv
<1> QED  BY <1>3, <1>10, <1>11, <1>12, <1>13 DEF DumpInv

LEMMA CommitDump ==
  ASSUME DumpInv, NEW c \in CPUs, commit(c) PROVE DumpInv'
<1> DEFINE b == buf[c]
           r == b.pending[Len(b.pending)]
           over == IF r.end = b.offset /\ \A i \in 1..(Len(b.pending) - 1) :
                        Lap(b.pending[i].from) # Lap(r.from)
                   THEN b.overtaken ELSE b.overtaken \cup {Lap(r.from)}
           d == Commit(Written(b, r, over), r.from, r.end)
<1>1. /\ pc = "tracing" /\ b.pending # <<>> /\ pc' = "tracing" /\ files' = files
      /\ buf' = [buf EXCEPT ![c] = d]
  BY DEF commit, Written
<1>2. /\ RingInv(b, b.offset) /\ b.consumed % subbuf_size = 0 /\ files[c] = <<>>
      /\ b.offset <= MaxTsc /\ b \in Rings
  BY <1>1 DEF DumpInv, RingInv
<1>3. Len(b.pending) > 0
  <2>1. b.pending \in Seq(Record)  BY <1>2 DEF Rings
  <2>2. Len(b.pending) \in Nat /\ Len(b.pending) # 0  BY <2>1, <1>1, LenProperties, EmptySeq
  <2> DEFINE n == Len(b.pending)
  <2> HIDE DEF n
  <2>3. n > 0  BY <2>2 DEF n
  <2> QED  BY <2>3 DEF n
<1>4. over \in SUBSET Nat
  <2>1. b.overtaken \in SUBSET Nat  BY <1>2 DEF Rings
  <2>2. Lap(r.from) \in Nat
    <3>1. Len(b.pending) \in 1..Len(b.pending)
      <4>1. b.pending \in Seq(Record)  BY <1>2 DEF Rings
      <4> DEFINE n == Len(b.pending)
      <4>2. n \in Nat  BY <4>1, LenProperties
      <4> HIDE DEF n
      <4>3. n \in 1..n  BY <4>2, <1>3 DEF n
      <4> QED  BY <4>3 DEF n
    <3>2. r \in Record  BY <3>1, <1>2, RecordIn
    <3>3. r.from \in Nat  BY <3>2 DEF Record
    <3> QED  BY <3>3, IndexTyped
  <2> QED  BY <2>1, <2>2
<1> HIDE DEF over
<1>5. RingInv(d, b.offset) /\ d.offset = b.offset /\ d.consumed = b.consumed
  <2> HIDE DEF b
  <2>1. RingInv(b, b.offset)  BY <1>2
  <2> DEFINE o == b.offset
  <2> HIDE DEF o
  <2>2. RingInv(b, o)  BY <2>1 DEF o
  <2>3. RingInv(d, o) /\ d.offset = b.offset /\ d.consumed = b.consumed
    BY <2>2, <1>3, <1>4, CommitStep
  <2> QED  BY <2>3 DEF o
<1> HIDE DEF d, b
<1>6. d \in Rings  BY <1>5 DEF RingInv
<1>7. buf' \in [CPUs -> Rings] /\ buf'[c] = d /\ \A e \in CPUs \ {c} : buf'[e] = buf[e]
  BY <1>1, <1>6 DEF DumpInv
<1>8. ASSUME NEW e \in CPUs
      PROVE  /\ buf'[e].consumed % subbuf_size = 0
             /\ RingInv(buf'[e], buf'[e].offset) /\ buf'[e].offset <= MaxTsc
             /\ files'[e] = <<>>
  <2>1. files'[e] = <<>>  BY <1>1 DEF DumpInv
  <2>2. CASE e = c  BY <2>1, <2>2, <1>2, <1>5, <1>7
  <2>3. CASE e # c
    <3>1. buf'[e] = buf[e]  BY <2>3, <1>7
    <3> QED  BY <2>1, <3>1, <1>1 DEF DumpInv
  <2> QED  BY <2>2, <2>3
<1>9. \A e \in CPUs : IsTrace(files'[e], buf'[e])  BY <1>8, EmptyTrace
<1>10. files' \in [CPUs -> Seq(Unit)]  BY <1>1 DEF DumpInv
<1> QED  BY <1>1, <1>7, <1>8, <1>9, <1>10 DEF DumpInv

LEMMA CrashDump == ASSUME DumpInv, crash PROVE DumpInv'
<1>1. pc = "tracing" /\ pc' = "gdb" /\ buf' = buf /\ files' = files
  BY DEF crash
<1>2. \A c \in CPUs : Sound(buf[c])  BY <1>1, RingSound DEF DumpInv
<1> QED  BY <1>1, <1>2 DEF DumpInv

LEMMA CrashInSwitchDump ==
  ASSUME DumpInv, NEW c \in CPUs, crash_in_switch(c) PROVE DumpInv'
<1> DEFINE b == buf[c]
<1>1. PICK k \in RecordSizes, t \in {"unpushed", "unstarted"} :
        LET end == Begin(b, k) + k IN
        /\ CanReserve(c, k) /\ pc' = "gdb" /\ files' = files
        /\ buf' = [buf EXCEPT ![c].offset = end,
                     ![c].consumed = IF t = "unpushed" THEN @ ELSE Pushed(b, end)]
  BY DEF crash_in_switch
<1> DEFINE end == Begin(b, k) + k
           q == IF t = "unpushed" THEN b.consumed ELSE Pushed(b, end)
           d == [b EXCEPT !.offset = end, !.consumed = q]
<1>2. /\ pc = "tracing" /\ pc' = "gdb" /\ files' = files
  BY <1>1 DEF CanReserve
<1>3. buf' = [buf EXCEPT ![c] = d]  BY <1>1
<1>4. /\ RingInv(b, b.offset) /\ b.consumed % subbuf_size = 0 /\ b \in Rings
      /\ b.offset <= MaxTsc
  BY <1>2 DEF DumpInv, RingInv
<1>5. end \in Nat
  <2>1. b.offset \in Nat  BY <1>4 DEF Rings
  <2>2. align(b.offset, subbuf_size) \in Nat  BY <2>1, Sizes, AlignUp
  <2>3. Begin(b, k) \in Nat  BY <2>1, <2>2 DEF Begin
  <2>4. k \in Nat
    <3>1. RecordSizes \subseteq 1..(subbuf_size - 1)  BY LttAssumption
    <3> QED  BY <3>1, Sizes
  <2> HIDE DEF b
  <2> QED  BY <2>3, <2>4
<1>6. q \in Nat /\ q % subbuf_size = 0
  <2> DEFINE h == b.consumed
  <2>1. h \in Nat /\ h % subbuf_size = 0  BY <1>4 DEF Rings
  <2>2. q \in {h, h + subbuf_size}  BY DEF Pushed
  <2> HIDE DEF h, q
  <2>3. (h + subbuf_size) % subbuf_size = 0  BY <2>1, NextSubbuffer
  <2>4. h + subbuf_size \in Nat  BY <2>1, Sizes
  <2> QED  BY <2>1, <2>2, <2>3, <2>4
<1>7. /\ d \in Rings /\ d.consumed = q /\ d.cell = b.cell /\ d.pending = b.pending
      /\ d.seq = b.seq /\ d.data_size = b.data_size
  <2> HIDE DEF b, end, q
  <2> QED  BY <1>4, <1>5, <1>6 DEF Rings
<1>8. Sound(b) /\ Sound(d)
  <2>1. Sound(b)
    <3> DEFINE o == b.offset
    <3>1. RingInv(b, o) /\ o <= MaxTsc  BY <1>4
    <3> HIDE DEF o, b
    <3> QED  BY <3>1, RingSound
  <2> HIDE DEF b, d
  <2> QED  BY <2>1, <1>7, SoundFrame
<1> HIDE DEF d, b, q, end
<1>9. buf' \in [CPUs -> Rings] /\ buf'[c] = d /\ \A e \in CPUs \ {c} : buf'[e] = buf[e]
  BY <1>3, <1>7 DEF DumpInv
<1>10. ASSUME NEW e \in CPUs
       PROVE  /\ buf'[e].consumed % subbuf_size = 0 /\ Sound(buf'[e])
              /\ files'[e] = <<>>
  <2>1. files'[e] = <<>>  BY <1>2 DEF DumpInv
  <2>2. CASE e = c  BY <2>1, <2>2, <1>6, <1>7, <1>8, <1>9
  <2>3. CASE e # c
    <3>1. buf'[e] = buf[e]  BY <2>3, <1>9
    <3>2. RingInv(buf[e], buf[e].offset) /\ buf[e].offset <= MaxTsc  BY <1>2 DEF DumpInv
    <3>3. Sound(buf[e])  BY <3>2, RingSound
    <3> QED  BY <2>1, <3>1, <3>3, <1>2 DEF DumpInv
  <2> QED  BY <2>2, <2>3
<1>11. \A e \in CPUs : IsTrace(files'[e], buf'[e])  BY <1>10, EmptyTrace
<1>12. files' \in [CPUs -> Seq(Unit)]  BY <1>2 DEF DumpInv
<1> QED  BY <1>2, <1>9, <1>10, <1>11, <1>12 DEF DumpInv

LEMMA InvokeDump == ASSUME DumpInv, invoke PROVE DumpInv'
<1>1. /\ pc \in {"gdb", "done", "error"} /\ pc' \in {"session", "error"}
      /\ buf' = buf /\ files' = [c \in CPUs |-> <<>>]
  BY DEF invoke
<1>2. files' \in [CPUs -> Seq(Unit)]
  <2>1. <<>> \in Seq(Unit)  OBVIOUS
  <2> QED  BY <2>1, <1>1
<1>3. ASSUME NEW c \in CPUs PROVE IsTrace(files'[c], buf'[c])
  <2>1. files'[c] = <<>>  BY <1>1
  <2> QED  BY <2>1, EmptyTrace
<1> QED  BY <1>1, <1>2, <1>3 DEF DumpInv

LEMMA WalkDump == ASSUME DumpInv, walk PROVE DumpInv'
<1> DEFINE c == Head(cpus)
           b == buf[c]
           coffset == Coffset(b, cidx)
           last == cidx = Index(b.offset)
           length == IF last THEN (b.offset % subbuf_size) - coffset ELSE 0
           p == handle_subbuffer(b, cidx, coffset, length)
<1>1. /\ pc = "walk" /\ buf' = buf
      /\ files' = [files EXCEPT ![c] = @ \o p]
      /\ \/ pc' = "cpu"
         \/ pc' = pc /\ cpus' = cpus /\ cidx' = (cidx + 1) % num_subbuf
  BY DEF walk
<1>2. pc' # "tracing" /\ pc # "tracing"  BY <1>1
<1>3. CASE c \in CPUs
  <2>1. cidx \in Subbufs /\ b \in Rings /\ Sound(b) /\ b.consumed % subbuf_size = 0
        /\ IsTrace(files[c], b)
    BY <1>1, <1>3 DEF DumpInv
  <2>2. coffset = 0  BY <2>1 DEF Coffset
  <2>3. length \in Nat
    <3>1. b.offset % subbuf_size \in Nat
      <4>1. b.offset \in Int  BY <2>1 DEF Rings
      <4>2. b.offset % subbuf_size \in 0..(subbuf_size - 1)
        <5> HIDE DEF b
        <5> QED  BY <4>1, Sizes, DivMod
      <4> HIDE DEF b
      <4> QED  BY <4>2
    <3>2. (b.offset % subbuf_size) - 0 \in Nat
      <4> HIDE DEF b
      <4> QED  BY <3>1
    <3> QED  BY <2>2, <3>2
  <2>4. IsPacket(p, b)
    <3> HIDE DEF b, length, coffset
    <3> QED  BY <2>1, <2>2, <2>3, PacketIs
  <2>5. IsTrace(files[c] \o p, b)
    <3> HIDE DEF b, p
    <3> QED  BY <2>1, <2>4, AppendPacket
  <2> HIDE DEF p
  <2>6. files[c] \o p \in Seq(Unit)  BY <2>5 DEF IsTrace
  <2>7. /\ files' \in [CPUs -> Seq(Unit)] /\ files'[c] = files[c] \o p
        /\ \A e \in CPUs \ {c} : files'[e] = files[e]
    <3> HIDE DEF c
    <3> QED  BY <2>6, <1>1, <1>3 DEF DumpInv
  <2>8. \A e \in CPUs : IsTrace(files'[e], buf'[e])
    <3> SUFFICES ASSUME NEW e \in CPUs PROVE IsTrace(files'[e], buf'[e])
      OBVIOUS
    <3>1. CASE e = c  BY <3>1, <2>5, <2>7, <1>1
    <3>2. CASE e # c  BY <3>2, <2>7, <1>1 DEF DumpInv
    <3> QED  BY <3>1, <3>2
  <2>9. pc' = "walk" /\ Head(cpus)' \in CPUs => cidx' \in Subbufs
    <3>1. (cidx + 1) % num_subbuf \in Subbufs
      <4>1. cidx + 1 \in Int  BY <2>1 DEF Subbufs
      <4> QED  BY <4>1, Sizes, DivMod DEF Subbufs
    <3> QED  BY <3>1, <1>1
  <2> QED  BY <2>7, <2>8, <2>9, <1>1, <1>2 DEF DumpInv
<1>4. CASE c \notin CPUs
  <2>1. files' = files
    <3> HIDE DEF c, p
    <3> QED  BY <1>1, <1>4 DEF DumpInv
  <2>2. pc' = "walk" => Head(cpus)' \notin CPUs  BY <1>1, <1>4
  <2> QED  BY <2>1, <2>2, <1>1, <1>2 DEF DumpInv
<1> QED  BY <1>3, <1>4

LEMMA NextDump == ASSUME MaxNesting <= 2, DumpInv, [Next]_vars PROVE DumpInv'
<1>1. CASE crash  BY <1>1, CrashDump
<1>2. ASSUME NEW c \in CPUs, reserve(c) PROVE DumpInv'
  BY <1>2, ReserveDump
<1>3. ASSUME NEW c \in CPUs, commit(c) PROVE DumpInv'
  BY <1>3, CommitDump
<1>4. ASSUME NEW c \in CPUs, cpu_down(c) PROVE DumpInv'
  BY <1>4 DEF cpu_down, DumpInv
<1>5. ASSUME NEW c \in CPUs, crash_in_switch(c) PROVE DumpInv'
  BY <1>5, CrashInSwitchDump
<1>6. CASE invoke  BY <1>6, InvokeDump
<1>7. CASE find_session_channel
  <2>1. pc = "session" /\ pc' \in {"error", "cpu"} /\ buf' = buf /\ files' = files
    BY <1>7 DEF find_session_channel
  <2> QED  BY <2>1 DEF DumpInv
<1>8. CASE handle_buffer
  <2>1. /\ pc = "cpu" /\ buf' = buf /\ files' = files /\ cpus' = cpus
        /\ \/ pc' = "done"
           \/ pc' = "walk" /\ cidx' = Index(buf[Head(cpus)].consumed)
    BY <1>8 DEF handle_buffer
  <2>2. ASSUME Head(cpus) \in CPUs PROVE Index(buf[Head(cpus)].consumed) \in Subbufs
    <3>1. buf[Head(cpus)].consumed \in Nat  BY <2>2 DEF DumpInv, Rings
    <3> QED  BY <3>1, IndexTyped
  <2> QED  BY <2>1, <2>2 DEF DumpInv
<1>9. CASE walk  BY <1>9, WalkDump
<1>10. CASE UNCHANGED vars
  BY <1>10 DEF vars, DumpInv
<1> QED
  BY <1>1, <1>2, <1>3, <1>4, <1>5, <1>6, <1>7, <1>8, <1>9, <1>10
  DEF Next, kernel_step, dumpltt

LEMMA DumpAlways == ASSUME MaxNesting <= 2 PROVE Spec => []DumpInv
<1>1. DumpInv /\ [Next]_vars => DumpInv'  BY NextDump
<1> QED  BY <1>1, InitDump, PTL DEF Spec

-----------------------------------------------------------------------------
(* The theorems.                                                           *)

\* Wherever the kernel crashes, and however often dumpltt is run, a CTF reader
\* gets from packet to packet of each file by the sizes that handle_subbuffer
\* writes into the headers (ltt.py:366-387).
THEOREM FilesParse == ASSUME MaxNesting <= 2 PROVE Spec => []TraceParses
<1>1. DumpInv => TraceParses
  BY DEF DumpInv, IsTrace, PacketAt, TraceParses
<1> QED  BY <1>1, DumpAlways, PTL

\* The content of a packet is before every place that is reserved and not yet
\* written, by what get_committed_data_size takes of seq (ltt.py:341-347).
THEOREM OnlyCommitted == ASSUME MaxNesting <= 2 PROVE Spec => []NothingUncommitted
<1>1. DumpInv => NothingUncommitted
  <2> SUFFICES ASSUME DumpInv, NEW c \in CPUs, NEW h \in Headers(files[c]),
                      NEW r \in Range(buf[c].pending)
               PROVE  LET first == files[c][h].pos IN
                      (first..(first + files[c][h].content - 1)) \cap (r.from..(r.end - 1)) = {}
    BY DEF NothingUncommitted
  <2>1. Closed(files[c][h], buf[c])  BY DEF DumpInv, IsTrace, PacketAt
  <2>2. PICK k \in 1..Len(buf[c].pending) : r = buf[c].pending[k]
    <3>1. buf[c].pending \in Seq(Record)  BY DEF DumpInv, Rings
    <3>2. DOMAIN buf[c].pending = 1..Len(buf[c].pending)  BY <3>1, LenProperties
    <3> QED  BY <3>2 DEF Range
  <2> QED  BY <2>1, <2>2 DEF Closed
<1> QED  BY <1>1, DumpAlways, PTL

\* The end of a packet is set and not before its records, though the crash
\* left the header without one (ltt.py:360-368).
THEOREM EndsCover == ASSUME MaxNesting <= 2 PROVE Spec => []EndCovers
<1>1. DumpInv => EndCovers
  BY DEF DumpInv, IsTrace, PacketAt, EndCovers
<1> QED  BY <1>1, DumpAlways, PTL

===============================================================================
