---------------------------- MODULE UnitsProofs ----------------------------
(***************************************************************************)
(* Theorems about Units, for every value of its constants: the clock, the  *)
(* calendar, the SPI master, the statistics, the serial line and the       *)
(* checksums, and those of EthRxProofs about reception.                    *)
(***************************************************************************)
EXTENDS Units, NatLemmas, SequenceTheorems, FiniteSetTheorems, TLAPS

\* A step of the composition is one of a component, or leaves it alone.
LEMMA ComponentSteps ==
    ASSUME [UnitsNext]_units
    PROVE  /\ [Next]_vars /\ [R!Next]_(R!vars) /\ [D!Next]_(D!vars) /\ [C!Next]_(C!vars)
           /\ [N!Next]_(N!vars) /\ [S!Next]_(S!vars) /\ [P!Next]_(P!vars)
  <1>1. CASE UNCHANGED units
    BY <1>1 DEF units, vars, reception, date, checksum, status, serial, spi,
                R!vars, D!vars, C!vars, N!vars, S!vars, P!vars
  <1> QED
    BY <1>1 DEF UnitsNext, Only, Resting, Parts, vars, reception, date, checksum, status, serial, spi,
                R!vars, D!vars, C!vars, N!vars, S!vars, P!vars

\* Side by side, each component behaves as its own specification says: what is
\* proved of one of them holds in Units.
LEMMA EachByItself ==
    UnitsSpec => Spec /\ R!Spec /\ D!Spec /\ C!Spec /\ N!Spec /\ S!Spec /\ P!Spec
  <1>1. UnitsInit => Init /\ R!Init /\ D!Init /\ C!Init /\ N!Init /\ S!Init /\ P!Init
    BY DEF UnitsInit
  <1> QED
    BY <1>1, ComponentSteps, PTL DEF UnitsSpec, Spec, R!Spec, D!Spec, C!Spec, N!Spec, S!Spec, P!Spec
----------------------------------------------------------------------------
\* THE CLOCK.  What byte i of a number weighs is a recursive function; that there
\* is such a function comes first.

\* A table of the first weights, up to that of byte n.
Upto(g, n) ==
    /\ g \in [0 .. n -> Nat]
    /\ \A i \in 0 .. n : g[i] = IF i = 0 THEN 1 ELSE BASE * g[i - 1]

LEMMA TablesExist ==
    ASSUME BASE \in Nat
    PROVE  \A n \in Nat : \E g : Upto(g, n)
  <1> DEFINE Good == {n \in Nat : \E g : Upto(g, n)}
  <1>1. 0 \in Good
    <2>1. Upto([i \in 0 .. 0 |-> 1], 0)
      BY DEF Upto
    <2> QED
      BY <2>1
  <1>2. ASSUME NEW n \in Nat, n \in Good PROVE n + 1 \in Good
    <2>1. PICK g : Upto(g, n)
      BY <1>2
    <2> DEFINE h == [i \in 0 .. n + 1 |-> IF i = n + 1 THEN BASE * g[n] ELSE g[i]]
    <2>2. g[n] \in Nat
      BY <2>1 DEF Upto
    <2>3. BASE * g[n] \in Nat
      BY <2>2
    <2>4. h \in [0 .. n + 1 -> Nat]
      <3> SUFFICES ASSUME NEW i \in 0 .. n + 1 PROVE (IF i = n + 1 THEN BASE * g[n] ELSE g[i]) \in Nat
        OBVIOUS
      <3>1. i # n + 1 => i \in 0 .. n
        OBVIOUS
      <3> QED
        BY <2>1, <2>3, <3>1 DEF Upto
    <2>5. ASSUME NEW i \in 0 .. n + 1
          PROVE  h[i] = IF i = 0 THEN 1 ELSE BASE * h[i - 1]
      <3>1. CASE i = n + 1
        <4>1. i - 1 = n /\ n \in 0 .. n + 1 /\ n # n + 1 /\ i # 0
          BY <3>1
        <4> QED
          BY <3>1, <4>1
      <3>2. CASE i # n + 1
        <4>1. i \in 0 .. n /\ (i # 0 => i - 1 \in 0 .. n + 1 /\ i - 1 # n + 1)
          BY <3>2
        <4> QED
          BY <2>1, <3>2, <4>1 DEF Upto
      <3> QED
        BY <3>1, <3>2
    <2> HIDE DEF h
    <2>6. Upto(h, n + 1)
      BY <2>4, <2>5 DEF Upto
    <2> QED
      BY <2>6
  <1> HIDE DEF Good
  <1>3. Nat \subseteq Good
    BY <1>1, <1>2, InductionOnNat
  <1> QED
    BY <1>3 DEF Good

LEMMA TablesAgree ==
    ASSUME BASE \in Nat
    PROVE  \A i \in Nat : \A m, n \in Nat : \A g, h :
              Upto(g, m) /\ Upto(h, n) /\ i <= m /\ i <= n => g[i] = h[i]
  <1> DEFINE Good == {i \in Nat : \A m, n \in Nat : \A g, h :
                      Upto(g, m) /\ Upto(h, n) /\ i <= m /\ i <= n => g[i] = h[i]}
  <1>1. 0 \in Good
    BY DEF Upto
  <1>2. ASSUME NEW i \in Nat, i \in Good PROVE i + 1 \in Good
    <2> SUFFICES ASSUME NEW m \in Nat, NEW n \in Nat, NEW g, NEW h,
                        Upto(g, m), Upto(h, n), i + 1 <= m, i + 1 <= n
                 PROVE  g[i + 1] = h[i + 1]
      OBVIOUS
    <2>1. i <= m /\ i <= n /\ i + 1 \in 0 .. m /\ i + 1 \in 0 .. n /\ i + 1 # 0 /\ (i + 1) - 1 = i
      OBVIOUS
    <2>2. g[i] = h[i]
      BY <1>2, <2>1
    <2>3. g[i + 1] = BASE * g[i] /\ h[i + 1] = BASE * h[i]
      BY <2>1 DEF Upto
    <2> QED
      BY <2>2, <2>3
  <1> HIDE DEF Good
  <1>3. Nat \subseteq Good
    BY <1>1, <1>2, InductionOnNat
  <1> QED
    BY <1>3 DEF Good

\* The weights are what their definition says: the powers of BASE.
LEMMA Weights ==
    ASSUME BASE \in Nat \ {0}
    PROVE  /\ Weight[0] = 1
           /\ \A i \in Nat : Weight[i] \in Nat \ {0} /\ Weight[i + 1] = BASE * Weight[i]
  <1> DEFINE table(n) == CHOOSE g : Upto(g, n)
             f        == [n \in Nat |-> table(n)[n]]
  <1>1. \A n \in Nat : Upto(table(n), n)
    BY TablesExist
  <1> HIDE DEF table
  <1>2. ASSUME NEW n \in Nat
        PROVE  f[n] = IF n = 0 THEN 1 ELSE BASE * f[n - 1]
    <2>1. CASE n = 0
      BY <1>1, <2>1 DEF Upto
    <2>2. CASE n # 0
      <3>1. n - 1 \in Nat /\ n - 1 <= n /\ n - 1 <= n - 1 /\ n \in 0 .. n
        BY <2>2
      <3>2. table(n)[n] = BASE * table(n)[n - 1]
        BY <1>1, <2>2, <3>1 DEF Upto
      <3>3. table(n)[n - 1] = table(n - 1)[n - 1]
        BY <1>1, <3>1, TablesAgree
      <3> QED
        BY <2>2, <3>1, <3>2, <3>3
    <2> QED
      BY <2>1, <2>2
  <1>3. f = [n \in Nat |-> IF n = 0 THEN 1 ELSE BASE * f[n - 1]]
    BY <1>2
  <1> HIDE DEF f
  <1>4. Weight = [n \in Nat |-> IF n = 0 THEN 1 ELSE BASE * Weight[n - 1]]
    BY <1>3 DEF Weight
  <1>5. Weight[0] = 1
    BY <1>4
  <1>6. ASSUME NEW i \in Nat PROVE Weight[i + 1] = BASE * Weight[i]
    <2>1. i + 1 \in Nat /\ i + 1 # 0 /\ (i + 1) - 1 = i
      OBVIOUS
    <2> QED
      BY <1>4, <2>1
  <1> DEFINE Good == {i \in Nat : Weight[i] \in Nat \ {0}}
  <1>7. 0 \in Good
    BY <1>5
  <1>8. ASSUME NEW i \in Nat, i \in Good PROVE i + 1 \in Good
    <2>1. Weight[i] \in Nat \ {0}
      BY <1>8
    <2>2. \A a, b \in Nat \ {0} : a * b \in Nat \ {0}
      OBVIOUS
    <2> QED
      BY <1>6, <2>1, <2>2
  <1> HIDE DEF Good
  <1>9. Nat \subseteq Good
    BY <1>7, <1>8, InductionOnNat
  <1> QED
    BY <1>5, <1>6, <1>9 DEF Good
----------------------------------------------------------------------------
\* A weight is a multiple of every smaller one.
LEMMA WeightDivides ==
    ASSUME BASE \in Nat \ {0}, NEW i \in Nat, NEW t \in Nat, i <= t
    PROVE  \E m \in Nat \ {0} : Weight[t] = Weight[i] * m
  <1> DEFINE Good == {j \in Nat : \E m \in Nat \ {0} : Weight[i + j] = Weight[i] * m}
  <1>1. 0 \in Good
    <2>1. i + 0 = i /\ Weight[i] = Weight[i] * 1
      BY Weights
    <2> QED
      BY <2>1
  <1>2. ASSUME NEW j \in Nat, j \in Good PROVE j + 1 \in Good
    <2>1. PICK m \in Nat \ {0} : Weight[i + j] = Weight[i] * m
      BY <1>2
    <2>2. i + j \in Nat /\ i + (j + 1) = (i + j) + 1
      OBVIOUS
    <2>3. Weight[i + (j + 1)] = BASE * (Weight[i] * m)
      BY <2>1, <2>2, Weights
    <2>4. \A a, b, c \in Nat \ {0} : a * (b * c) = b * (a * c) /\ a * c \in Nat \ {0}
      OBVIOUS
    <2>5. Weight[i + (j + 1)] = Weight[i] * (BASE * m) /\ BASE * m \in Nat \ {0}
      BY <2>3, <2>4, Weights
    <2> QED
      BY <2>5
  <1> HIDE DEF Good
  <1>3. Nat \subseteq Good
    BY <1>1, <1>2, InductionOnNat
  <1>4. t - i \in Good
    BY <1>3
  <1>5. i + (t - i) = t
    OBVIOUS
  <1> QED
    BY <1>4, <1>5 DEF Good

LEMMA BelowByte ==
    ASSUME BASE \in Nat \ {0}, NEW n \in Int, NEW i \in Nat
    PROVE  n % Weight[i] \in 0 .. Weight[i] - 1
  <1> DEFINE w == Weight[i]
  <1>1. w \in Nat \ {0}
    BY Weights
  <1> HIDE DEF w
  <1>2. n % w \in 0 .. w - 1
    BY <1>1, DivMod
  <1> QED
    BY <1>2 DEF w

\* A number is what lies above byte i, the byte, and what lies below.
LEMMA AroundByte ==
    ASSUME BASE \in Nat \ {0}, NEW n \in Nat, NEW i \in Nat
    PROVE  /\ Byte(n, i) \in 0 .. BASE - 1
           /\ \E above \in Nat : n = Weight[i + 1] * above + (Byte(n, i) * Weight[i] + (n % Weight[i]))
  <1> DEFINE w     == Weight[i]
             q     == n \div w
             low   == n % w
             above == q \div BASE
             b     == q % BASE
  <1>1. w \in Nat \ {0} /\ Weight[i + 1] = BASE * w
    BY Weights
  <1> HIDE DEF w
  <1>2. q \in Int /\ low \in 0 .. w - 1 /\ n = w * q + low
    <2>1. n \in Int
      OBVIOUS
    <2> QED
      BY ONLY <1>1, <2>1, DivMod
  <1> HIDE DEF low
  <1>3. q \in Nat
    <2> SUFFICES ASSUME q <= -1 PROVE FALSE
      BY <1>2
    <2>1. w * q <= w * (-1)
      BY <1>1, <1>2, ProductOrder
    <2>2. w * (-1) = -w /\ w * q \in Int
      BY <1>1, <1>2
    <2> HIDE DEF q
    <2> QED
      BY <1>1, <1>2, <2>1, <2>2
  <1> HIDE DEF q
  <1>4. above \in Int /\ b \in 0 .. BASE - 1 /\ q = BASE * above + b
    BY <1>3, DivMod
  <1> HIDE DEF above, b
  <1>5. above \in Nat
    <2> SUFFICES ASSUME above <= -1 PROVE FALSE
      BY <1>4
    <2>1. BASE * above <= BASE * (-1)
      BY <1>4, ProductOrder
    <2>2. BASE * (-1) = -BASE /\ BASE * above \in Int
      BY <1>4
    <2> QED
      BY <1>3, <1>4, <2>1, <2>2
  <1>6. n = (BASE * w) * above + (b * w + low)
    <2>1. \A x, y, z \in Int : w * (BASE * x + y) + z = (BASE * w) * x + (y * w + z)
      BY <1>1
    <2> QED
      BY <1>1, <1>2, <1>4, <2>1
  <1>7. Byte(n, i) = b
    BY DEF Byte, b, q, w
  <1> QED
    BY <1>1, <1>4, <1>5, <1>6, <1>7 DEF low, w

\* Up to byte i there is room for BASE times as much as below it.
LEMMA ByteFits ==
    ASSUME BASE \in Nat \ {0}, NEW i \in Nat, NEW b \in 0 .. BASE - 1, NEW low \in 0 .. Weight[i] - 1
    PROVE  b * Weight[i] + low \in 0 .. Weight[i + 1] - 1
  <1> DEFINE w == Weight[i]
  <1>1. w \in Nat \ {0} /\ Weight[i + 1] = BASE * w
    BY Weights
  <1>2. w * 0 <= w * b /\ w * b <= w * (BASE - 1)
    BY <1>1, ProductOrder
  <1>3. w * b = b * w /\ w * 0 = 0 /\ w * (BASE - 1) = BASE * w - w /\ b * w \in Int /\ BASE * w \in Int
    BY <1>1
  <1>4. low \in 0 .. w - 1
    OBVIOUS
  <1> HIDE DEF w
  <1>5. b * w + low \in 0 .. BASE * w - 1
    BY <1>1, <1>2, <1>3, <1>4
  <1> QED
    BY <1>1, <1>5 DEF w

\* What is read byte by byte adds up to the number.
LEMMA LowBytes ==
    ASSUME BASE \in Nat \ {0}, NEW n \in Nat, NEW i \in Nat
    PROVE  n % Weight[i + 1] = Byte(n, i) * Weight[i] + (n % Weight[i])
  <1> DEFINE low == n % Weight[i]
             r   == Byte(n, i) * Weight[i] + low
  <1>1. Weight[i] \in Nat \ {0} /\ Weight[i + 1] \in Nat \ {0}
    BY Weights
  <1>2. low \in 0 .. Weight[i] - 1
    BY BelowByte
  <1>3. Byte(n, i) \in 0 .. BASE - 1 /\ \E above \in Nat : n = Weight[i + 1] * above + r
    BY AroundByte
  <1> HIDE DEF low
  <1>4. r \in 0 .. Weight[i + 1] - 1
    BY <1>2, <1>3, ByteFits
  <1> HIDE DEF r
  <1>5. n % Weight[i + 1] = r
    BY <1>1, <1>3, <1>4, ModUnique
  <1> QED
    BY <1>5 DEF r, low

\* Storing byte i leaves the bytes below it alone, and the number its width.
LEMMA ByteStored ==
    ASSUME BASE \in Nat \ {0}, NEW t \in Nat, NEW n \in 0 .. Weight[t] - 1,
           NEW i \in Nat, i < t, NEW b \in 0 .. BASE - 1
    PROVE  /\ WithByte(n, i, b) \in 0 .. Weight[t] - 1
           /\ WithByte(n, i, b) % Weight[i + 1] = b * Weight[i] + (n % Weight[i])
  <1> DEFINE w   == Weight[i]
             v   == Weight[i + 1]
             low == n % w
             c   == Byte(n, i)
             r   == b * w + low
             new == WithByte(n, i, b)
  <1>0. n \in Nat
    <2>1. Weight[t] \in Nat
      BY Weights
    <2> QED
      BY <2>1
  <1>1. w \in Nat \ {0} /\ v \in Nat \ {0} /\ v = BASE * w
    BY Weights
  <1>2. low \in 0 .. w - 1
    <2>1. n \in Int
      BY <1>0
    <2>2. n % Weight[i] \in 0 .. Weight[i] - 1
      BY ONLY <2>1, BelowByte, BASE \in Nat \ {0}, i \in Nat
    <2> QED
      BY <2>2
  <1>3. c \in 0 .. BASE - 1
    BY <1>0, AroundByte
  <1>4. PICK above \in Nat : n = v * above + (c * w + low)
    BY <1>0, AroundByte
  <1>5. PICK m \in Nat \ {0} : Weight[t] = v * m
    BY WeightDivides
  <1>6. new = n + (b - c) * w
    BY DEF WithByte
  <1>7. r \in 0 .. v - 1 /\ c * w + low \in 0 .. v - 1
    BY <1>2, <1>3, ByteFits
  <1>8. n \in Nat /\ n <= v * m - 1
    BY <1>5
  <1> HIDE DEF w, v, low, c, new
  <1>9. new = v * above + r
    <2>1. (b - c) * w = b * w - c * w /\ v * above \in Int /\ c * w \in Int /\ b * w \in Int
      BY <1>1, <1>3
    <2> QED
      BY <1>2, <1>4, <1>6, <2>1
  <1> HIDE DEF r
  <1>10. above + 1 <= m
    <2> SUFFICES ASSUME m <= above PROVE FALSE
      OBVIOUS
    <2>1. v * m <= v * above /\ v * above \in Int /\ v * m \in Int
      BY <1>1, ProductOrder
    <2> DEFINE x == v * m
               y == v * above
               z == c * w + low
    <2>2. n = y + z /\ z >= 0 /\ n <= x - 1 /\ x <= y /\ x \in Int /\ y \in Int /\ z \in Int
      BY <1>4, <1>7, <1>8, <2>1
    <2> HIDE DEF x, y, z
    <2> QED
      BY <2>2
  <1>11. v * (above + 1) <= v * m /\ v * (above + 1) = v * above + v /\ v * above \in Nat /\ v * m \in Int
    BY <1>1, <1>10, ProductOrder
  <1>12. new \in 0 .. v * m - 1
    BY <1>1, <1>7, <1>9, <1>11
  <1>13. new % v = r
    <2>1. above \in Int
      OBVIOUS
    <2>2. (v * above + r) % v = r
      BY <1>1, <1>7, <2>1, ModUnique
    <2> QED
      BY <1>9, <2>2
  <1> QED
    BY <1>5, <1>12, <1>13 DEF w, v, low, r, new

LEMMA WeightGrows ==
    ASSUME BASE \in Nat \ {0}, NEW i \in Nat, NEW t \in Nat, i <= t
    PROVE  Weight[i] <= Weight[t]
  <1>1. Weight[i] \in Nat \ {0}
    BY Weights
  <1>2. PICK m \in Nat \ {0} : Weight[t] = Weight[i] * m
    BY WeightDivides
  <1> DEFINE w == Weight[i]
  <1>3. w * 1 <= w * m
    <2>1. w \in Nat \ {0} /\ 1 \in Int /\ m \in Int /\ 1 <= m
      BY <1>1
    <2> HIDE DEF w
    <2> QED
      BY <2>1, ProductOrder
  <1> QED
    BY <1>1, <1>2, <1>3
----------------------------------------------------------------------------
\* A counter of two parts, milliseconds and seconds, counts on by one.
LEMMA CarryIntoSeconds ==
    ASSUME NEW M \in Nat \ {0}, NEW L \in Nat \ {0}, NEW t \in 0 .. L - 1, NEW u \in 0 .. M - 1,
           NEW n \in Int, t * M + u = n % (L * M)
    PROVE  (IF u + 1 = M THEN (t + 1) % L ELSE t) * M + (IF u + 1 = M THEN 0 ELSE u + 1)
              = (n + 1) % (L * M)
  <1> DEFINE m == L * M
             a == t * M
  <1>1. m \in Nat \ {0} /\ a \in Int
    OBVIOUS
  <1>2. a + u = n % m
    OBVIOUS
  <1>3. M * t <= M * (L - 1)
    BY ProductOrder
  <1>4. M * t = a /\ M * (L - 1) = m - M /\ (t + 1) * M = a + M
    OBVIOUS
  <1>5. t = L - 1 => a = m - M
    OBVIOUS
  <1>6. t # L - 1 => a + M <= m - M
    <2> SUFFICES ASSUME t # L - 1 PROVE a + M <= m - M
      OBVIOUS
    <2>1. M * (t + 1) <= M * (L - 1)
      BY ProductOrder
    <2>2. M * (t + 1) = a + M
      OBVIOUS
    <2> QED
      BY <1>4, <2>1, <2>2
  <1> HIDE DEF m, a
  <1>7. (n + 1) % m = IF a + u = m - 1 THEN 0 ELSE a + u + 1
    BY <1>1, <1>2, ModPlusOne
  <1>8. CASE u + 1 # M
    <2>1. a + u # m - 1
      BY <1>1, <1>3, <1>4, <1>8
    <2> QED
      BY <1>7, <1>8, <2>1, <1>1 DEF m, a
  <1>9. CASE u + 1 = M /\ t = L - 1
    <2>1. (t + 1) % L = 0
      <3>1. t + 1 = L * 1 + 0 /\ 0 \in 0 .. L - 1
        BY <1>9
      <3>2. (L * 1 + 0) % L = 0
        BY <3>1, ModUnique
      <3> QED
        BY <3>1, <3>2
    <2>2. a + u = m - 1
      BY <1>1, <1>5, <1>9
    <2> QED
      BY <1>7, <1>9, <2>1, <2>2 DEF m, a
  <1>10. CASE u + 1 = M /\ t # L - 1
    <2>1. (t + 1) % L = t + 1
      <3>1. t + 1 \in 0 .. L - 1
        BY <1>10
      <3> QED
        BY <3>1, ModSmall
    <2>2. a + u # m - 1 /\ a + u + 1 = a + M
      BY <1>1, <1>6, <1>10
    <2>3. (n + 1) % m = (t + 1) * M + 0
      BY <1>1, <1>4, <1>7, <2>2
    <2> QED
      BY <1>10, <2>1, <2>3 DEF m
  <1> QED
    BY <1>8, <1>9, <1>10
----------------------------------------------------------------------------
\* The interrupt is disabled from cli() to sei() and at no other time.
IrqAroundSet == irq <=> pc \notin {"set", "zero", "sei"}

Counting ==
    /\ setting \in 0 .. TIME_MOD - 1
    /\ elapsed \in Nat

\* The first k bytes of a read are a number of k bytes.
ReadFits == Reading => k <= Size /\ value \in 0 .. Weight[k] - 1

\* What clock_time has read: the lowest bytes of the time; after an interrupt
\* fell into the read, those of the time before it up to some byte j, and those
\* of the time after it from there on.
ReadSoFar ==
    pc = "time" =>
        /\ before \in 0 .. TIME_MOD - 1
        /\ ~ ticked => timestamp = before /\ value = timestamp % Weight[k]
        /\ ticked =>
              /\ timestamp \in {before, (before + 1) % TIME_MOD}
              /\ \E j \in 0 .. k :
                    value = (timestamp % Weight[k]) - (timestamp % Weight[j]) + (before % Weight[j])

\* What clock_set_time has stored: the lowest bytes of its argument.
SetSoFar ==
    /\ pc = "set" => k < TIME_BYTES /\ timestamp % Weight[k] = value % Weight[k]
    /\ pc = "zero" => timestamp = value

ClockInv == TypeOK /\ IrqAroundSet /\ Counting /\ ReadFits /\ ReadSoFar /\ SetSoFar /\ TimeKept

LEMMA Widths ==
    ASSUME ClockAssumption
    PROVE  /\ BASE \in Nat \ {0} /\ TIME_BYTES \in Nat \ {0} /\ MICRO_BYTES \in 1 .. TIME_BYTES
           /\ MILLIS \in Nat \ {0} /\ TIME_MOD \in Nat \ {0}
           /\ TIME_MOD = Weight[TIME_BYTES] /\ Weight[0] = 1
           /\ NewTimes \subseteq 0 .. TIME_MOD - 1
  <1>1. BASE \in Nat \ {0} /\ TIME_BYTES \in Nat \ {0} /\ MICRO_BYTES \in 1 .. TIME_BYTES
    BY DEF ClockAssumption
  <1>2. TIME_MOD \in Nat \ {0} /\ TIME_MOD = Weight[TIME_BYTES] /\ Weight[0] = 1
    BY <1>1, Weights DEF TIME_MOD
  <1>3. Weight[MICRO_BYTES] \in Nat
    BY <1>1, Weights
  <1>4. MILLIS \in Nat \ {0} /\ NewTimes \subseteq 0 .. TIME_MOD - 1
    BY <1>3 DEF ClockAssumption
  <1> QED
    BY <1>1, <1>2, <1>4

LEMMA WeightRange ==
    ASSUME ClockAssumption, NEW i \in 0 .. TIME_BYTES
    PROVE  i \in Nat /\ Weight[i] \in Nat \ {0} /\ Weight[i] <= TIME_MOD
  <1>1. i \in Nat /\ i <= TIME_BYTES
    BY Widths
  <1> QED
    BY <1>1, Widths, Weights, WeightGrows

LEMMA Remainders ==
    ASSUME ClockAssumption
    PROVE  /\ \A i \in 0 .. TIME_BYTES : \A n \in Int : n % Weight[i] \in 0 .. Weight[i] - 1
           /\ \A n \in Int : n % Weight[0] = 0
           /\ \A n \in 0 .. TIME_MOD - 1 : n % TIME_MOD = n
  <1>1. ASSUME NEW i \in 0 .. TIME_BYTES, NEW n \in Int
        PROVE  n % Weight[i] \in 0 .. Weight[i] - 1
    <2>1. i \in Nat /\ BASE \in Nat \ {0}
      BY Widths
    <2> QED
      BY <2>1, BelowByte
  <1>2. ASSUME NEW n \in Int PROVE n % Weight[0] = 0
    <2>1. 0 \in 0 .. TIME_BYTES /\ Weight[0] = 1
      BY Widths
    <2>2. n % Weight[0] \in 0 .. Weight[0] - 1
      BY <1>1, <2>1
    <2> QED
      BY <2>1, <2>2
  <1>3. ASSUME NEW n \in 0 .. TIME_MOD - 1 PROVE n % TIME_MOD = n
    BY Widths, ModSmall
  <1> QED
    BY <1>1, <1>2, <1>3

LEMMA ClockInit ==
    ASSUME ClockAssumption, Init
    PROVE  ClockInv
  <1>1. 0 % (TIME_MOD * MILLIS) = 0
    <2> DEFINE m == TIME_MOD * MILLIS
    <2>1. m \in Nat \ {0}
      BY Widths
    <2> HIDE DEF m
    <2>2. 0 % m = 0
      BY <2>1, ModSmall
    <2> QED
      BY <2>2 DEF m
  <1>2. 0 * MILLIS = 0
    BY Widths
  <1>3. TypeOK /\ Counting
    BY Widths DEF Init, TypeOK, Counting
  <1>4. IrqAroundSet /\ ReadFits /\ ReadSoFar /\ SetSoFar
    BY DEF Init, IrqAroundSet, ReadFits, Reading, ReadSoFar, SetSoFar
  <1>5. TimeKept
    BY <1>1, <1>2 DEF Init, TimeKept
  <1> QED
    BY <1>3, <1>4, <1>5 DEF ClockInv

\* The interrupt: the time is kept, and a read in progress has its j.
LEMMA TickKeeps ==
    ASSUME ClockAssumption, ClockInv, ClockTick
    PROVE  ClockInv'
  <1> USE DEF ClockInv
  <1>1. pc \notin {"set", "zero", "sei"}
    BY DEF ClockTick, IrqAroundSet
  <1>2. timestamp \in 0 .. TIME_MOD - 1 /\ microtime \in 0 .. MILLIS - 1 /\ k \in 0 .. TIME_BYTES
    BY DEF TypeOK
  <1>3. timestamp' \in {timestamp, (timestamp + 1) % TIME_MOD}
    BY DEF ClockTick
  <1>4. (timestamp + 1) % TIME_MOD \in 0 .. TIME_MOD - 1
    <2>1. timestamp + 1 \in Int
      BY <1>2, Widths
    <2> QED
      BY <2>1, Widths, DivMod
  <1>5. TypeOK'
    <2>1. MILLIS \in Nat \ {0}
      BY Widths
    <2>2. microtime' = IF microtime + 1 = MILLIS THEN 0 ELSE microtime + 1
      BY DEF ClockTick, Rollover
    <2>3. microtime' \in 0 .. MILLIS - 1
      BY <1>2, <2>1, <2>2
    <2> QED
      BY <1>2, <1>3, <1>4, <2>3 DEF TypeOK, ClockTick
  <1>6. IrqAroundSet' /\ Counting' /\ ReadFits' /\ SetSoFar'
    BY <1>1 DEF ClockTick, IrqAroundSet, Counting, ReadFits, Reading, Size, SetSoFar
  <1>7. TimeKept'
    <2> DEFINE n == setting * MILLIS + elapsed
    <2>1. timestamp * MILLIS + microtime = n % (TIME_MOD * MILLIS)
      BY <1>1 DEF TimeKept
    <2>2. n \in Int
      BY Widths DEF Counting
    <2>3. setting' * MILLIS + elapsed' = n + 1
      BY Widths DEF ClockTick, Counting
    <2> HIDE DEF n
    <2>4. (IF microtime + 1 = MILLIS THEN (timestamp + 1) % TIME_MOD ELSE timestamp) * MILLIS
              + (IF microtime + 1 = MILLIS THEN 0 ELSE microtime + 1)
            = (n + 1) % (TIME_MOD * MILLIS)
      <3>1. MILLIS \in Nat \ {0} /\ TIME_MOD \in Nat \ {0}
        BY Widths
      <3> QED
        BY ONLY <3>1, <1>2, <2>1, <2>2, CarryIntoSeconds
    <2>5. timestamp' * MILLIS + microtime' = (n + 1) % (TIME_MOD * MILLIS)
      BY <2>4 DEF ClockTick, Rollover
    <2> QED
      BY <2>3, <2>5 DEF TimeKept
  <1>8. ReadSoFar'
    <2> SUFFICES ASSUME pc = "time" PROVE ReadSoFar'
      BY DEF ReadSoFar, ClockTick
    <2>1. ~ ticked /\ ticked' = TRUE
      BY DEF ClockTick, Reading
    <2>2. timestamp = before /\ value = timestamp % Weight[k]
      BY <2>1 DEF ReadSoFar
    <2>3. value' = value /\ k' = k /\ before' = before /\ pc' = pc
      BY DEF ClockTick
    <2>4. k \in 0 .. k
      BY <1>2, Widths
    <2>5. timestamp' \in Int /\ timestamp' % Weight[k] \in Int /\ before % Weight[k] \in Int
      <3>1. timestamp' \in Int /\ before \in Int
        BY <1>2, <1>3, <1>4, <2>2, Widths
      <3> QED
        BY <3>1, <1>2, Remainders, WeightRange
    <2>6. value = (timestamp' % Weight[k]) - (timestamp' % Weight[k]) + (before % Weight[k])
      BY <2>2, <2>5
    <2> QED
      BY <1>2, <1>3, <2>1, <2>2, <2>3, <2>4, <2>6 DEF ReadSoFar
  <1> QED
    BY <1>5, <1>6, <1>7, <1>8

LEMMA BeginReadKeeps ==
    ASSUME ClockAssumption, ClockInv, NEW what \in {"time", "micro"}, BeginRead(what)
    PROVE  ClockInv'
  <1> USE DEF ClockInv
  <1>1. 0 \in 0 .. TIME_BYTES /\ 0 \in 0 .. TIME_MOD - 1 /\ 0 \in 0 .. Weight[0] - 1
    BY Widths
  <1>2. TypeOK' /\ IrqAroundSet' /\ Counting' /\ SetSoFar' /\ TimeKept'
    BY <1>1 DEF BeginRead, TypeOK, IrqAroundSet, Counting, SetSoFar, TimeKept
  <1>3. ReadFits'
    BY <1>1, Widths DEF BeginRead, ReadFits, Reading, Size
  <1>4. ReadSoFar'
    <2>1. timestamp % Weight[0] = 0
      BY Remainders, Widths DEF TypeOK
    <2> QED
      BY <2>1, Widths DEF BeginRead, ReadSoFar, TypeOK
  <1> QED
    BY <1>2, <1>3, <1>4

\* The next byte, of the time or of the milliseconds, extends what was read.
LEMMA ReadByteKeeps ==
    ASSUME ClockAssumption, ClockInv, ReadByte
    PROVE  ClockInv'
  <1> USE DEF ClockInv
  <1> DEFINE b == Byte(Source, k)
  <1>1. k \in Nat /\ k < Size /\ Size <= TIME_BYTES /\ Size \in Nat /\ TIME_BYTES \in Nat
        /\ BASE \in Nat \ {0}
    BY Widths DEF ReadByte, Size, TypeOK
  <1>2. Source \in Nat
    BY Widths DEF TypeOK, Source
  <1>3. value' = value + b * Weight[k] /\ k' = k + 1
    BY DEF ReadByte, NextByte
  <1>4. b \in 0 .. BASE - 1
    BY <1>1, <1>2, AroundByte
  <1>5. value \in 0 .. Weight[k] - 1
    BY DEF ReadFits, ReadByte
  <1>6. Weight[k] \in Nat \ {0} /\ k + 1 \in 0 .. TIME_BYTES
    BY <1>1, Weights
  <1> HIDE DEF b
  <1>7. value' \in 0 .. Weight[k + 1] - 1
    <2>1. b * Weight[k] + value \in 0 .. Weight[k + 1] - 1
      BY <1>1, <1>4, <1>5, ByteFits
    <2>2. value' = b * Weight[k] + value
      BY <1>3, <1>4, <1>5, <1>6
    <2> QED
      BY <2>1, <2>2
  <1>8. Weight[k + 1] \in Nat /\ Weight[k + 1] <= TIME_MOD
    BY <1>6, WeightRange
  <1>9. TypeOK'
    <2>1. value' \in 0 .. TIME_MOD - 1
      BY <1>7, <1>8, Widths
    <2> QED
      BY <1>3, <1>6, <2>1 DEF ReadByte, TypeOK
  <1>10. IrqAroundSet' /\ Counting' /\ SetSoFar' /\ TimeKept'
    BY DEF ReadByte, Reading, IrqAroundSet, Counting, SetSoFar, TimeKept
  <1>11. ReadFits'
    <2>1. k' <= Size' /\ value' \in 0 .. Weight[k'] - 1
      <3>1. Size' = Size
        BY DEF ReadByte, Size
      <3>2. k + 1 <= Size
        BY <1>1
      <3> QED
        BY <1>3, <1>7, <3>1, <3>2
    <2> QED
      BY <2>1 DEF ReadFits
  <1>12. ReadSoFar'
    <2> SUFFICES ASSUME pc = "time" PROVE ReadSoFar'
      BY DEF ReadSoFar, ReadByte
    <2>1. timestamp \in Nat /\ Source = timestamp
      BY <1>2 DEF Source
    <2>2. timestamp % Weight[k + 1] = b * Weight[k] + (timestamp % Weight[k])
      BY <1>1, <2>1, LowBytes DEF b
    <2>3. UNCHANGED <<timestamp, before, ticked, pc>>
      BY DEF ReadByte
    <2>4. before \in 0 .. TIME_MOD - 1 /\ timestamp % Weight[k] \in Int /\ b * Weight[k] \in Int
      <3>1. timestamp % Weight[k] \in 0 .. Weight[k] - 1
        BY <1>1, <2>1, BelowByte
      <3>2. b * Weight[k] \in Int
        BY <1>4, <1>6
      <3> QED
        BY <1>6, <3>1, <3>2 DEF ReadSoFar
    <2>5. CASE ~ ticked
      <3>1. timestamp = before /\ value = timestamp % Weight[k]
        BY <2>5 DEF ReadSoFar
      <3>2. value' = timestamp % Weight[k + 1]
        BY <1>3, <2>2, <2>4, <3>1
      <3> QED
        BY <1>3, <2>3, <2>4, <2>5, <3>1, <3>2 DEF ReadSoFar
    <2>6. CASE ticked
      <3>1. timestamp \in {before, (before + 1) % TIME_MOD}
        BY <2>6 DEF ReadSoFar
      <3>2. PICK j \in 0 .. k :
              value = (timestamp % Weight[k]) - (timestamp % Weight[j]) + (before % Weight[j])
        BY <2>6 DEF ReadSoFar
      <3>3. j \in 0 .. TIME_BYTES /\ j \in 0 .. k + 1
        BY <1>1
      <3>4. timestamp % Weight[j] \in Int /\ before % Weight[j] \in Int
        <4>1. timestamp \in Int /\ before \in Int
          BY <2>1, <2>4, Widths
        <4> QED
          BY <3>3, <4>1, Remainders, WeightRange
      <3>5. value' = (timestamp % Weight[k + 1]) - (timestamp % Weight[j]) + (before % Weight[j])
        BY <1>3, <2>2, <2>4, <3>2, <3>4
      <3> QED
        BY <1>3, <2>3, <2>4, <2>6, <3>1, <3>3, <3>5 DEF ReadSoFar
    <2> QED
      BY <2>5, <2>6
  <1> QED
    BY <1>9, <1>10, <1>11, <1>12

LEMMA EndReadKeeps ==
    ASSUME ClockInv, EndRead
    PROVE  ClockInv'
  BY DEF ClockInv, EndRead, Reading, TypeOK, IrqAroundSet, Counting, ReadFits, ReadSoFar, SetSoFar, TimeKept

LEMMA BeginSetKeeps ==
    ASSUME ClockAssumption, ClockInv, NEW time \in NewTimes, BeginSet(time)
    PROVE  ClockInv'
  <1> USE DEF ClockInv
  <1>1. 0 \in 0 .. TIME_BYTES /\ 0 < TIME_BYTES /\ time \in 0 .. TIME_MOD - 1
    BY Widths
  <1>2. TypeOK' /\ IrqAroundSet' /\ Counting' /\ ReadFits' /\ ReadSoFar' /\ TimeKept'
    BY <1>1 DEF BeginSet, Cli, TypeOK, IrqAroundSet, Counting, ReadFits, Reading, ReadSoFar, TimeKept
  <1>3. SetSoFar'
    <2>1. timestamp % Weight[0] = 0 /\ time % Weight[0] = 0
      BY <1>1, Remainders, Widths DEF TypeOK
    <2> QED
      BY <1>1, <2>1 DEF BeginSet, SetSoFar
  <1> QED
    BY <1>2, <1>3

LEMMA StoreByteKeeps ==
    ASSUME ClockAssumption, ClockInv, StoreByte
    PROVE  ClockInv'
  <1> USE DEF ClockInv
  <1> DEFINE b == Byte(value, k)
  <1>1. k \in Nat /\ k < TIME_BYTES /\ TIME_BYTES \in Nat /\ BASE \in Nat \ {0}
        /\ timestamp % Weight[k] = value % Weight[k]
    BY Widths DEF StoreByte, SetSoFar, TypeOK
  <1>2. value \in Nat /\ timestamp \in 0 .. Weight[TIME_BYTES] - 1
    BY Widths DEF TypeOK
  <1>3. timestamp' = WithByte(timestamp, k, b) /\ k' = k + 1 /\ value' = value
    BY DEF StoreByte
  <1>4. b \in 0 .. BASE - 1
    BY <1>1, <1>2, AroundByte
  <1>5. value % Weight[k + 1] = b * Weight[k] + (value % Weight[k])
    BY <1>1, <1>2, LowBytes
  <1> HIDE DEF b
  <1>6. /\ timestamp' \in 0 .. Weight[TIME_BYTES] - 1
        /\ timestamp' % Weight[k + 1] = b * Weight[k] + (timestamp % Weight[k])
    BY <1>1, <1>2, <1>3, <1>4, ByteStored
  <1>7. timestamp' % Weight[k + 1] = value % Weight[k + 1]
    BY <1>1, <1>5, <1>6
  <1>8. TypeOK'
    <2>1. timestamp' \in 0 .. TIME_MOD - 1 /\ k' \in 0 .. TIME_BYTES
      BY <1>1, <1>3, <1>6, Widths
    <2>2. pc' \in {"set", "zero"}
      BY DEF StoreByte
    <2> QED
      BY <2>1, <2>2 DEF StoreByte, TypeOK
  <1>9. IrqAroundSet' /\ Counting' /\ ReadFits' /\ ReadSoFar' /\ TimeKept'
    BY DEF StoreByte, IrqAroundSet, Counting, ReadFits, Reading, ReadSoFar, TimeKept
  <1>10. SetSoFar'
    <2>1. CASE k + 1 = TIME_BYTES
      <3>1. timestamp' % TIME_MOD = timestamp' /\ value % TIME_MOD = value
        BY <1>6, Remainders, Widths DEF TypeOK
      <3>2. timestamp' = value
        BY <1>7, <2>1, <3>1, Widths
      <3> QED
        BY <1>3, <2>1, <3>2 DEF StoreByte, SetSoFar
    <2>2. CASE k + 1 # TIME_BYTES
      <3>1. k + 1 < TIME_BYTES
        BY <1>1, <2>2
      <3> QED
        BY <1>3, <1>7, <2>2, <3>1 DEF StoreByte, SetSoFar
    <2> QED
      BY <2>1, <2>2
  <1> QED
    BY <1>8, <1>9, <1>10

LEMMA StoreMicrotimeKeeps ==
    ASSUME ClockAssumption, ClockInv, StoreMicrotime
    PROVE  ClockInv'
  <1> USE DEF ClockInv
  <1>1. timestamp = value /\ timestamp \in 0 .. TIME_MOD - 1 /\ value \in 0 .. TIME_MOD - 1
        /\ MILLIS \in Nat \ {0} /\ TIME_MOD \in Nat \ {0}
    BY Widths DEF StoreMicrotime, SetSoFar, TypeOK
  <1>2. TypeOK' /\ IrqAroundSet' /\ Counting' /\ ReadFits' /\ ReadSoFar' /\ SetSoFar'
    BY <1>1 DEF StoreMicrotime, TypeOK, IrqAroundSet, Counting, ReadFits, Reading, ReadSoFar, SetSoFar
  <1>3. TimeKept'
    <2> DEFINE m == TIME_MOD * MILLIS
               n == value * MILLIS
    <2>1. MILLIS * 0 <= MILLIS * value /\ MILLIS * value <= MILLIS * (TIME_MOD - 1)
      BY <1>1, ProductOrder
    <2>2. m \in Nat \ {0} /\ n \in Int /\ MILLIS * 0 = 0 /\ MILLIS * value = n
          /\ MILLIS * (TIME_MOD - 1) = m - MILLIS
      BY <1>1
    <2> HIDE DEF m, n
    <2>3. n \in 0 .. m - 1
      BY <1>1, <2>1, <2>2
    <2>4. (n + 0) % m = n + 0
      BY <2>2, <2>3, ModSmall
    <2>5. timestamp' * MILLIS + microtime' = n + 0 /\ setting' * MILLIS + elapsed' = n + 0
      BY <1>1 DEF StoreMicrotime, n
    <2> QED
      BY <2>4, <2>5 DEF TimeKept, m
  <1> QED
    BY <1>2, <1>3

LEMMA SeiKeeps ==
    ASSUME ClockInv, Sei
    PROVE  ClockInv'
  BY DEF ClockInv, Sei, TypeOK, IrqAroundSet, Counting, ReadFits, Reading, ReadSoFar, SetSoFar, TimeKept
----------------------------------------------------------------------------
LEMMA ClockStep ==
    ASSUME ClockAssumption, ClockInv, [Next]_vars
    PROVE  ClockInv'
  <1>1. CASE UNCHANGED vars
    BY <1>1 DEF vars, ClockInv, TypeOK, IrqAroundSet, Counting, ReadFits, Reading, Size, ReadSoFar,
                SetSoFar, TimeKept
  <1>2. CASE ClockTick
    BY <1>2, TickKeeps
  <1>3. CASE \E what \in {"time", "micro"} : BeginRead(what)
    BY <1>3, BeginReadKeeps
  <1>4. CASE ReadByte
    BY <1>4, ReadByteKeeps
  <1>5. CASE EndRead
    BY <1>5, EndReadKeeps
  <1>6. CASE \E time \in NewTimes : BeginSet(time)
    BY <1>6, BeginSetKeeps
  <1>7. CASE StoreByte
    BY <1>7, StoreByteKeeps
  <1>8. CASE StoreMicrotime
    BY <1>8, StoreMicrotimeKeeps
  <1>9. CASE Sei
    BY <1>9, SeiKeeps
  <1> QED
    BY <1>1, <1>2, <1>3, <1>4, <1>5, <1>6, <1>7, <1>8, <1>9 DEF Next

\* The time after an interrupt has byte j and those above it of the new time,
\* those below of the old: only a carry out of the lower ones tells.
LEMMA TornRead ==
    ASSUME ClockAssumption, NEW old \in 0 .. TIME_MOD - 1, NEW new,
           new = (old + 1) % TIME_MOD, NEW j \in 1 .. TIME_BYTES - 1
    PROVE  \/ new - (new % Weight[j]) + (old % Weight[j]) = old
           \/ /\ new % Weight[j] = 0
              /\ old % Weight[j] = Weight[j] - 1
  <1> DEFINE w == Weight[j]
             m == TIME_MOD
  <1>1. j \in 0 .. TIME_BYTES /\ j \in Nat /\ j <= TIME_BYTES /\ TIME_BYTES \in Nat
        /\ BASE \in Nat \ {0} /\ m \in Nat \ {0}
    BY Widths
  <1>2. w \in Nat \ {0}
    BY <1>1, WeightRange
  <1>3. PICK c \in Nat \ {0} : m = w * c
    BY <1>1, Widths, WeightDivides
  <1>4. old \in 0 .. m - 1 /\ new = (old + 1) % m
    OBVIOUS
  <1> HIDE DEF w, m
  <1>5. old \in Int /\ old % m = old /\ (old % w) \in 0 .. w - 1
    <2>1. old \in Int
      BY <1>1, <1>4
    <2>2. old % m = old
      BY ONLY <1>1, <1>4, ModSmall
    <2>3. (old % w) \in 0 .. w - 1
      BY ONLY <1>2, <2>1, DivMod
    <2> QED
      BY <2>1, <2>2, <2>3
  <1>6. new = IF old = m - 1 THEN 0 ELSE old + 1
    <2>1. (old + 1) % m = IF old % m = m - 1 THEN 0 ELSE (old % m) + 1
      BY ONLY <1>1, <1>5, ModPlusOne
    <2> QED
      BY ONLY <1>4, <1>5, <2>1
  <1>7. CASE old = m - 1
    <2>1. old = w * (c - 1) + (w - 1)
      <3>1. w * (c - 1) = w * c - w /\ w * c \in Int
        BY <1>2
      <3> QED
        BY <1>2, <1>3, <1>7, <3>1
    <2>2. (w * (c - 1) + (w - 1)) % w = w - 1
      <3>1. c - 1 \in Int /\ w - 1 \in 0 .. w - 1
        BY <1>2
      <3> QED
        BY <1>2, <3>1, ModUnique
    <2>3. new = 0 /\ 0 % w = 0
      BY <1>2, <1>6, <1>7, ModSmall
    <2> QED
      BY <2>1, <2>2, <2>3 DEF w
  <1>8. CASE old # m - 1
    <2>1. new = old + 1
      BY <1>6, <1>8
    <2>2. (old + 1) % w = IF old % w = w - 1 THEN 0 ELSE (old % w) + 1
      BY <1>2, <1>5, ModPlusOne
    <2>3. old % w # w - 1 => new - (new % w) + (old % w) = old
      BY <1>2, <1>5, <2>1, <2>2
    <2> QED
      BY <2>1, <2>2, <2>3 DEF w
  <1> QED
    BY <1>7, <1>8

LEMMA ReadBounded ==
    ASSUME ClockAssumption, ClockInv
    PROVE  TimeReadBounded
  <1> SUFFICES ASSUME pc = "time", k = TIME_BYTES
               PROVE  \/ value \in {before, timestamp}
                      \/ \E j \in 1 .. TIME_BYTES - 1 :
                            /\ ticked /\ timestamp % Weight[j] = 0
                            /\ value = timestamp + Weight[j] - 1
    BY DEF TimeReadBounded, Size
  <1>1. timestamp \in 0 .. TIME_MOD - 1 /\ before \in 0 .. TIME_MOD - 1
    BY DEF ClockInv, TypeOK, ReadSoFar
  <1>2. timestamp % Weight[k] = timestamp /\ before % Weight[k] = before
    BY <1>1, Widths, Remainders
  <1>3. CASE ~ ticked
    BY <1>2, <1>3 DEF ClockInv, ReadSoFar
  <1>4. CASE ticked
    <2>1. timestamp \in {before, (before + 1) % TIME_MOD}
      BY <1>4 DEF ClockInv, ReadSoFar
    <2>2. PICK j \in 0 .. TIME_BYTES :
            value = (timestamp % Weight[k]) - (timestamp % Weight[j]) + (before % Weight[j])
      BY <1>4 DEF ClockInv, ReadSoFar
    <2>3. timestamp \in Int /\ before \in Int /\ TIME_BYTES \in Nat /\ Weight[j] \in Nat
      BY <1>1, Widths, WeightRange
    <2>4. timestamp % Weight[j] \in Int /\ before % Weight[j] \in Int
      BY <2>3, Remainders
    <2>5. value = timestamp - (timestamp % Weight[j]) + (before % Weight[j])
      BY <1>2, <2>2
    <2>6. CASE timestamp = before
      BY <2>3, <2>4, <2>5, <2>6
    <2>7. CASE j = 0
      <3>1. timestamp % Weight[0] = 0 /\ before % Weight[0] = 0
        BY <2>3, Remainders
      <3> QED
        BY <2>3, <2>5, <2>7, <3>1
    <2>8. CASE j = TIME_BYTES
      BY <1>2, <2>3, <2>5, <2>8
    <2>9. CASE timestamp # before /\ j \in 1 .. TIME_BYTES - 1
      <3>1. timestamp = (before + 1) % TIME_MOD
        BY <2>1, <2>9
      <3>2. \/ timestamp - (timestamp % Weight[j]) + (before % Weight[j]) = before
            \/ timestamp % Weight[j] = 0 /\ before % Weight[j] = Weight[j] - 1
        BY <1>1, <2>9, <3>1, TornRead
      <3> QED
        BY <1>4, <2>3, <2>4, <2>5, <2>9, <3>2
    <2> QED
      BY <2>3, <2>6, <2>7, <2>8, <2>9
  <1> QED
    BY <1>3, <1>4

\* The inductive invariant holds in every state.
THEOREM ClockInvariance ==
    ASSUME ClockAssumption
    PROVE  Spec => []ClockInv
  <1>1. Init => ClockInv
    BY ClockInit
  <1>2. ClockInv /\ [Next]_vars => ClockInv'
    BY ClockStep
  <1> QED
    BY <1>1, <1>2, PTL DEF Spec

\* The counters keep their widths, whatever interrupts come while they are set
\* or read.
THEOREM WidthsKept ==
    ASSUME ClockAssumption
    PROVE  Spec => []TypeOK
  <1>1. ClockInv => TypeOK
    BY DEF ClockInv
  <1> QED
    BY <1>1, ClockInvariance, PTL

\* The clock counts every millisecond once, through every carry and across the
\* bytes of clock_set_time.
THEOREM EveryMillisecondCounts ==
    ASSUME ClockAssumption
    PROVE  Spec => []TimeKept
  <1>1. ClockInv => TimeKept
    BY DEF ClockInv
  <1> QED
    BY <1>1, ClockInvariance, PTL

\* A read of clock_time that an interrupt falls into is ahead by less than the
\* weight of the byte the carry went into, and never behind.
THEOREM TornReadsAreBounded ==
    ASSUME ClockAssumption
    PROVE  Spec => []TimeReadBounded
  <1>1. ClockInv => TimeReadBounded
    BY ReadBounded
  <1> QED
    BY <1>1, ClockInvariance, PTL
----------------------------------------------------------------------------
\* A year has the days that the calendar counts from it to the next.
LEMMA YearLength ==
    ASSUME NEW y \in Nat
    PROVE  D!DaysBefore(y + 1) - D!DaysBefore(y) = D!year_day_count(y)
  <1>1. (y + 1 - 1969) \div 4 = ((y - 1969) \div 4) + (IF y % 4 = 0 THEN 1 ELSE 0)
    OBVIOUS
  <1>2. (y + 1 - 1901) \div 100 = ((y - 1901) \div 100) + (IF y % 100 = 0 THEN 1 ELSE 0)
    OBVIOUS
  <1>3. (y + 1 - 1601) \div 400 = ((y - 1601) \div 400) + (IF y % 400 = 0 THEN 1 ELSE 0)
    OBVIOUS
  <1>4. (y % 400 = 0 => y % 100 = 0) /\ (y % 100 = 0 => y % 4 = 0)
    OBVIOUS
  <1> QED
    BY <1>1, <1>2, <1>3, <1>4 DEF D!DaysBefore, D!year_day_count, D!year_is_leap

\* The months of the table are those of the calendar.
LEMMA MonthLength ==
    ASSUME NEW y \in Nat
    PROVE  /\ D!DaysBeforeMonth(y, 0) = 0
           /\ D!DaysBeforeMonth(y, 12) = D!year_day_count(y)
           /\ \A m \in 0 .. 11 : D!month_day_count(y, m) = D!DaysIn(y, m) /\ D!month_day_count(y, m) \in 28 .. 31
  <1> DEFINE leap == D!year_is_leap(y)
  <1>1. D!DaysBefore(y + 1) - D!DaysBefore(y) = IF leap THEN 366 ELSE 365
    BY YearLength DEF D!year_day_count
  <1> HIDE DEF leap
  <1>2. ASSUME NEW m \in Nat
        PROVE  D!DaysBeforeMonth(y, m) =
                  IF m < 2 THEN 31 * m
                  ELSE (IF leap THEN 60 ELSE 59) + ((153 * (m - 2) + 2) \div 5)
    BY <1>1 DEF D!DaysBeforeMonth
  <1>3. ASSUME NEW m \in 0 .. 11
        PROVE  D!month_day_count(y, m) = D!DaysIn(y, m) /\ D!month_day_count(y, m) \in 28 .. 31
    <2>1. D!month_day_count(y, m) = D!MonthTab(leap)[m + 1]
      BY DEF D!month_day_count, leap
    <2>2. \/ m = 0 \/ m = 1 \/ m = 2 \/ m = 3 \/ m = 4 \/ m = 5
          \/ m = 6 \/ m = 7 \/ m = 8 \/ m = 9 \/ m = 10 \/ m = 11
      OBVIOUS
    <2>3. D!DaysIn(y, m) = D!DaysBeforeMonth(y, m + 1) - D!DaysBeforeMonth(y, m)
      BY DEF D!DaysIn
    <2>4. CASE leap
      BY <1>2, <2>1, <2>2, <2>3, <2>4 DEF D!MonthTab
    <2>5. CASE ~ leap
      BY <1>2, <2>1, <2>2, <2>3, <2>5 DEF D!MonthTab
    <2> QED
      BY <2>4, <2>5
  <1> QED
    BY <1>2, <1>3 DEF D!year_day_count, leap

\* Zeller's congruence, as DateTrue states it.
Congruence(day, m, y) ==
    (day + ((13 * (m + 1)) \div 5) + y + (y \div 4) - (y \div 100) + (y \div 400) + 6) % 7

\* Zeller's congruence counts the weekdays from the day the epoch began.
LEMMA Zeller ==
    ASSUME NEW Y \in Nat, NEW month \in 0 .. 11, NEW day \in Int,
           NEW y, y = IF month < 2 THEN Y - 1 ELSE Y,
           NEW m, m = IF month < 2 THEN month + 13 ELSE month + 1,
           NEW n, n = D!DaysBefore(Y) + D!DaysBeforeMonth(Y, month) + day - 1
    PROVE  D!Weekday(n) = Congruence(day, m, y)
  <1> DEFINE l == D!DaysBefore(Y) + D!DaysBeforeMonth(Y, month) + day - 1 + 4
             r == day + ((13 * (m + 1)) \div 5) + y + (y \div 4) - (y \div 100) + (y \div 400) + 6
  <1>1. ASSUME NEW z \in Int
        PROVE  D!DaysBefore(z + 1) = 365 * (z - 1969) + (z \div 4) - (z \div 100) + (z \div 400) - 477
    <2>1. (z + 1 - 1969) \div 4 = (z \div 4) - 492
      OBVIOUS
    <2>2. (z + 1 - 1901) \div 100 = (z \div 100) - 19
      OBVIOUS
    <2>3. (z + 1 - 1601) \div 400 = (z \div 400) - 4
      OBVIOUS
    <2> QED
      BY <2>1, <2>2, <2>3 DEF D!DaysBefore
  <1>2. \E j \in Int : l = r + 7 * j
    <2>1. CASE month < 2
      <3>1. Y - 1 \in Int /\ (Y - 1) + 1 = Y
        OBVIOUS
      <3>2. l = 365 * (Y - 1970) + ((Y - 1) \div 4) - ((Y - 1) \div 100) + ((Y - 1) \div 400) - 477
                  + 31 * month + day + 3
        <4>1. D!DaysBefore(Y) = 365 * ((Y - 1) - 1969) + ((Y - 1) \div 4) - ((Y - 1) \div 100)
                                + ((Y - 1) \div 400) - 477
          <5> DEFINE z == Y - 1
          <5>1. z \in Int /\ z + 1 = Y
            BY <3>1
          <5> HIDE DEF z
          <5>2. D!DaysBefore(z + 1) = 365 * (z - 1969) + (z \div 4) - (z \div 100) + (z \div 400) - 477
            BY <1>1, <5>1
          <5>3. D!DaysBefore(Y) = 365 * (z - 1969) + (z \div 4) - (z \div 100) + (z \div 400) - 477
            BY <5>1, <5>2
          <5> QED
            BY <5>3 DEF z
        <4>2. D!DaysBeforeMonth(Y, month) = 31 * month
          BY <2>1 DEF D!DaysBeforeMonth
        <4> QED
          BY <4>1, <4>2
      <3>3. r = day + ((13 * (month + 14)) \div 5) + (Y - 1) + ((Y - 1) \div 4) - ((Y - 1) \div 100)
                  + ((Y - 1) \div 400) + 6
        BY <2>1
      <3>4. \/ month = 0 /\ (13 * (month + 14)) \div 5 = 36
            \/ month = 1 /\ (13 * (month + 14)) \div 5 = 39
        BY <2>1
      <3> DEFINE j == 52 * Y - 102795 + 4 * month
      <3> HIDE DEF l, r
      <3>5. j \in Int /\ l = r + 7 * j
        BY <3>2, <3>3, <3>4
      <3> HIDE DEF j
      <3> QED
        BY <3>5
    <2>2. CASE ~ (month < 2)
      <3>1. D!DaysBefore(Y) \in Int /\ D!DaysBefore(Y + 1) \in Int
        BY DEF D!DaysBefore
      <3>2. l = 365 * (Y - 1969) + (Y \div 4) - (Y \div 100) + (Y \div 400) - 477 - 306
                  + ((153 * (month - 2) + 2) \div 5) + day + 3
        BY <1>1, <2>2, <3>1 DEF D!DaysBeforeMonth
      <3>3. r = day + ((13 * (month + 2)) \div 5) + Y + (Y \div 4) - (Y \div 100) + (Y \div 400) + 6
        BY <2>2
      <3>4. ((153 * (month - 2) + 2) \div 5) = ((13 * (month + 2)) \div 5) - 10 + 28 * (month - 2)
        BY <2>2
      <3> DEFINE j == 52 * Y - 102783 + 4 * (month - 2)
      <3> HIDE DEF l, r
      <3>5. j \in Int /\ l = r + 7 * j
        BY <3>2, <3>3, <3>4
      <3> HIDE DEF j
      <3> QED
        BY <3>5
    <2> QED
      BY <2>1, <2>2
  <1>3. l \in Int /\ r \in Int
    BY DEF D!DaysBefore, D!DaysBeforeMonth
  <1> HIDE DEF l, r
  <1>4. l % 7 = r % 7
    BY <1>2, <1>3, ModShift
  <1>5. n + 4 = l
    BY DEF l
  <1> QED
    BY <1>4, <1>5 DEF D!Weekday, Congruence, r
----------------------------------------------------------------------------
Datetime == [sec : Nat, min : Nat, hour : Nat, day_of_week : Nat, day_of_month : Nat,
             day_of_year : Nat, month : 0 .. 11, year : Int, daylight_saving : BOOLEAN]

\* The second of the day and the weekday are set once, at the start.
TimeOfDay ==
    d_pc # "idle" =>
        /\ d_timestamp \in Nat \X Nat
        /\ d_year \in Nat
        /\ d_datetime.sec < 60 /\ d_datetime.min < 60
        /\ d_timestamp[2] = d_datetime.hour * 3600 + d_datetime.min * 60 + d_datetime.sec
        /\ d_datetime.day_of_week = (d_timestamp[1] + 4) % 7

\* The day of the year is found: from then on it and the year stand, and it
\* falls behind no month that was passed.
YearStands ==
    d_pc \in {"months", "done"} =>
        /\ d_datetime.year = d_year - 1900
        /\ d_timestamp[1] = d_datetime.day_of_year + D!DaysBefore(d_year)
        /\ d_datetime.day_of_year < D!year_day_count(d_year)

\* So is the month, and the day lies in it.
MonthStands ==
    d_pc = "done" =>
        /\ d_datetime.day_of_month \in 1 .. D!DaysIn(d_year, d_datetime.month)
        /\ d_datetime.day_of_year = d_datetime.day_of_month - 1 + D!DaysBeforeMonth(d_year, d_datetime.month)

\* The inductive invariant of the calendar.
DateInv ==
    /\ d_pc \in {"idle", "years", "months", "done"}
    /\ d_date \in Nat
    /\ d_datetime \in Datetime
    /\ d_pc \in {"idle", "years"} => d_datetime.month = 0
    /\ TimeOfDay /\ YearStands /\ MonthStands
    /\ D!NoDayLost

\* The counts of days are numbers, and the epoch begins with day 0.
LEMMA CalendarRanges ==
    /\ \A y \in Nat : D!DaysBefore(y) \in Int /\ D!year_day_count(y) \in {365, 366}
    /\ \A y \in Nat, m \in 0 .. 12 : D!DaysBeforeMonth(y, m) \in Int
    /\ D!DaysBefore(1970) = 0
  BY DEF D!DaysBefore, D!DaysBeforeMonth, D!year_day_count

\* Hours, minutes and seconds make up the second of the day.
LEMMA SplitSeconds ==
    ASSUME NEW t \in Nat
    PROVE  /\ t % 60 \in 0 .. 59 /\ (t % 3600) \div 60 \in 0 .. 59 /\ t \div 3600 \in Nat
           /\ t = (t \div 3600) * 3600 + ((t % 3600) \div 60) * 60 + (t % 60)
  <1>1. (t % 3600) % 60 = t % 60
    OBVIOUS
  <1> QED
    BY <1>1

\* DateInv holds at first, and each action keeps it.
LEMMA DateInit ==
    ASSUME D!Init
    PROVE  DateInv
  BY DEF D!Init, DateInv, Datetime, D!Cleared, TimeOfDay, YearStands, MonthStands, D!NoDayLost

LEMMA TimeDecodeKeeps ==
    ASSUME DateInv, D!TimeDecode
    PROVE  DateInv'
  <1>0. PICK t \in Timestamps :
          /\ d_timestamp' = t
          /\ d_date' = t[1]
          /\ d_datetime' = [d_datetime EXCEPT !.sec = t[2] % 60, !.min = (t[2] % 3600) \div 60,
                                          !.hour = t[2] \div 3600, !.day_of_week = D!Weekday(t[1])]
    BY DEF D!TimeDecode
  <1> PICK n \in Nat, s \in Nat : t = <<n, s>>
    <2>1. t \in Nat \X Nat
      BY UnitsAssumption
    <2> QED
      BY ONLY <2>1
  <1>1. /\ d_timestamp' = <<n, s>>
        /\ d_date' = n
        /\ d_datetime' = [d_datetime EXCEPT !.sec = s % 60, !.min = (s % 3600) \div 60,
                                        !.hour = s \div 3600, !.day_of_week = D!Weekday(n)]
    BY <1>0
  <1>2. D!Weekday(n) \in Nat /\ D!Weekday(n) = (n + 4) % 7
    BY DEF D!Weekday
  <1>3. /\ s % 60 \in 0 .. 59 /\ (s % 3600) \div 60 \in 0 .. 59 /\ s \div 3600 \in Nat
        /\ s = (s \div 3600) * 3600 + ((s % 3600) \div 60) * 60 + (s % 60)
    BY SplitSeconds
  <1>4. d_datetime \in Datetime /\ d_pc = "idle" /\ d_pc' = "years" /\ d_year' = 1970 /\ d_datetime.month = 0
    BY DEF DateInv, D!TimeDecode
  <1> DEFINE sec == s % 60
             min == (s % 3600) \div 60
             hour == s \div 3600
             day == D!Weekday(n)
  <1> HIDE DEF sec, min, hour, day
  <1>5. /\ d_datetime' \in Datetime /\ d_datetime'.month = 0
        /\ d_datetime'.sec = sec /\ d_datetime'.min = min /\ d_datetime'.hour = hour
        /\ d_datetime'.day_of_week = day
    <2>1. sec \in Nat /\ min \in Nat /\ hour \in Nat /\ day \in Nat
      BY <1>2, <1>3 DEF sec, min, hour, day
    <2>2. d_datetime' = [d_datetime EXCEPT !.sec = sec, !.min = min, !.hour = hour, !.day_of_week = day]
      BY <1>1 DEF sec, min, hour, day
    <2> QED
      BY <1>4, <2>1, <2>2 DEF Datetime
  <1>6. TimeOfDay'
    <2>1. d_timestamp' \in Nat \X Nat /\ d_timestamp'[1] = n /\ d_timestamp'[2] = s /\ d_year' \in Nat
      BY <1>1, <1>4
    <2>2. /\ d_datetime'.sec < 60 /\ d_datetime'.min < 60
          /\ s = d_datetime'.hour * 3600 + d_datetime'.min * 60 + d_datetime'.sec
      BY <1>3, <1>5 DEF sec, min, hour
    <2>3. d_datetime'.day_of_week = (n + 4) % 7
      BY <1>2, <1>5 DEF day
    <2> QED
      BY <2>1, <2>2, <2>3 DEF TimeOfDay
  <1>7. D!NoDayLost'
    BY <1>1, <1>4, <1>5, CalendarRanges, MonthLength DEF D!NoDayLost
  <1> QED
    BY <1>1, <1>4, <1>5, <1>6, <1>7 DEF DateInv, YearStands, MonthStands

LEMMA NextYearKeeps ==
    ASSUME DateInv, D!NextYear
    PROVE  DateInv'
  <1>1. /\ d_pc = "years" /\ d_pc' = "years" /\ d_date \in Nat /\ d_year \in Nat /\ d_datetime.month = 0
        /\ d_date >= D!year_day_count(d_year) /\ d_date' = d_date - D!year_day_count(d_year) /\ d_year' = d_year + 1
        /\ UNCHANGED <<d_timestamp, d_datetime>>
        /\ d_timestamp[1] = d_date + D!DaysBefore(d_year) + D!DaysBeforeMonth(d_year, 0)
    BY DEF DateInv, TimeOfDay, D!NextYear, D!NoDayLost
  <1>2. D!DaysBefore(d_year + 1) - D!DaysBefore(d_year) = D!year_day_count(d_year)
    BY <1>1, YearLength
  <1>3. /\ D!DaysBefore(d_year) \in Int /\ D!DaysBefore(d_year + 1) \in Int /\ D!year_day_count(d_year) \in {365, 366}
        /\ D!DaysBeforeMonth(d_year, 0) = 0 /\ D!DaysBeforeMonth(d_year + 1, 0) = 0
    BY <1>1, CalendarRanges, MonthLength
  <1>4. D!NoDayLost'
    BY <1>1, <1>2, <1>3 DEF D!NoDayLost
  <1> QED
    BY <1>1, <1>3, <1>4 DEF DateInv, TimeOfDay, YearStands, MonthStands

LEMMA YearFoundKeeps ==
    ASSUME DateInv, D!YearFound
    PROVE  DateInv'
  <1>1. /\ d_pc = "years" /\ d_pc' = "months" /\ d_date \in Nat /\ d_year \in Nat /\ d_datetime.month = 0
        /\ d_date < D!year_day_count(d_year) /\ d_datetime \in Datetime
        /\ d_datetime' = [d_datetime EXCEPT !.year = d_year - 1900, !.day_of_year = d_date, !.month = 0]
        /\ UNCHANGED <<d_timestamp, d_date, d_year>>
        /\ d_timestamp[1] = d_date + D!DaysBefore(d_year) + D!DaysBeforeMonth(d_year, 0)
    BY DEF DateInv, TimeOfDay, D!YearFound, D!NoDayLost
  <1>2. /\ d_datetime' \in Datetime /\ d_datetime'.month = 0 /\ d_datetime'.year = d_year - 1900
        /\ d_datetime'.day_of_year = d_date /\ d_datetime'.sec = d_datetime.sec /\ d_datetime'.min = d_datetime.min
        /\ d_datetime'.hour = d_datetime.hour /\ d_datetime'.day_of_week = d_datetime.day_of_week
    <2>1. d_year - 1900 \in Int /\ 0 \in 0 .. 11
      BY <1>1
    <2> DEFINE e == [d_datetime EXCEPT !.year = d_year - 1900]
               f == [e EXCEPT !.day_of_year = d_date]
    <2>2. /\ e \in Datetime /\ e.month = 0 /\ e.year = d_year - 1900 /\ e.sec = d_datetime.sec
          /\ e.min = d_datetime.min /\ e.hour = d_datetime.hour /\ e.day_of_week = d_datetime.day_of_week
      BY <1>1, <2>1 DEF Datetime
    <2> HIDE DEF e
    <2>3. /\ f \in Datetime /\ f.month = 0 /\ f.year = e.year /\ f.day_of_year = d_date /\ f.sec = e.sec
          /\ f.min = e.min /\ f.hour = e.hour /\ f.day_of_week = e.day_of_week
      BY <1>1, <2>2 DEF Datetime
    <2>4. d_datetime' = [f EXCEPT !.month = 0]
      BY <1>1 DEF e
    <2> HIDE DEF f
    <2> QED
      BY <2>1, <2>2, <2>3, <2>4 DEF Datetime
  <1>3. D!DaysBefore(d_year) \in Int /\ D!DaysBeforeMonth(d_year, 0) = 0
    BY <1>1, CalendarRanges, MonthLength
  <1>4. YearStands' /\ D!NoDayLost'
    BY <1>1, <1>2, <1>3 DEF YearStands, D!NoDayLost
  <1> QED
    BY <1>1, <1>2, <1>4 DEF DateInv, TimeOfDay, MonthStands

LEMMA NextMonthKeeps ==
    ASSUME DateInv, D!NextMonth
    PROVE  DateInv'
  <1> DEFINE m == d_datetime.month
             n == D!month_day_count(d_year, m)
  <1>1. /\ d_pc = "months" /\ d_pc' = "months" /\ d_date \in Nat /\ d_year \in Nat /\ m \in 0 .. 11
        /\ d_date >= n /\ d_date' = d_date - n /\ d_datetime \in Datetime
        /\ d_datetime' = [d_datetime EXCEPT !.month = m + 1]
        /\ UNCHANGED <<d_timestamp, d_year>>
        /\ d_timestamp[1] = d_date + D!DaysBefore(d_year) + D!DaysBeforeMonth(d_year, m)
        /\ d_timestamp[1] = d_datetime.day_of_year + D!DaysBefore(d_year)
        /\ d_datetime.day_of_year < D!year_day_count(d_year)
    BY DEF DateInv, Datetime, TimeOfDay, YearStands, D!NextMonth, D!NoDayLost
  <1>2. /\ n \in 28 .. 31 /\ n = D!DaysBeforeMonth(d_year, m + 1) - D!DaysBeforeMonth(d_year, m)
        /\ D!DaysBeforeMonth(d_year, 12) = D!year_day_count(d_year)
    BY <1>1, MonthLength DEF D!DaysIn
  <1>3. /\ D!DaysBefore(d_year) \in Int /\ D!DaysBeforeMonth(d_year, m) \in Int
        /\ D!DaysBeforeMonth(d_year, m + 1) \in Int
        /\ D!year_day_count(d_year) \in {365, 366} /\ d_datetime.day_of_year \in Nat
    <2>1. m \in 0 .. 12 /\ m + 1 \in 0 .. 12
      BY <1>1
    <2> QED
      BY <1>1, <2>1, CalendarRanges DEF Datetime
  <1> HIDE DEF m, n
  <1>4. m # 11
    <2> SUFFICES ASSUME m = 11 PROVE FALSE
      OBVIOUS
    <2>1. m + 1 = 12
      OBVIOUS
    <2> QED
      BY <1>1, <1>2, <1>3, <2>1
  <1>5. /\ d_datetime' \in Datetime /\ d_datetime'.month = m + 1 /\ d_datetime'.year = d_datetime.year
        /\ d_datetime'.day_of_year = d_datetime.day_of_year /\ d_datetime'.sec = d_datetime.sec
        /\ d_datetime'.min = d_datetime.min /\ d_datetime'.hour = d_datetime.hour
        /\ d_datetime'.day_of_week = d_datetime.day_of_week
    <2>1. m + 1 \in 0 .. 11
      BY <1>1, <1>4
    <2> QED
      BY <1>1, <2>1 DEF Datetime
  <1>6. D!NoDayLost' /\ d_date' \in Nat
    BY <1>1, <1>2, <1>3, <1>5 DEF D!NoDayLost
  <1> QED
    BY <1>1, <1>5, <1>6 DEF DateInv, TimeOfDay, YearStands, MonthStands

LEMMA MonthFoundKeeps ==
    ASSUME DateInv, D!MonthFound
    PROVE  DateInv'
  <1> DEFINE m == d_datetime.month
             n == D!month_day_count(d_year, m)
  <1>1. /\ d_pc = "months" /\ d_pc' = "done" /\ d_date \in Nat /\ d_year \in Nat /\ m \in 0 .. 11
        /\ d_date < n /\ d_datetime \in Datetime
        /\ d_datetime' = [d_datetime EXCEPT !.day_of_month = d_date + 1, !.daylight_saving = FALSE]
        /\ UNCHANGED <<d_timestamp, d_date, d_year>>
        /\ d_timestamp[1] = d_date + D!DaysBefore(d_year) + D!DaysBeforeMonth(d_year, m)
        /\ d_timestamp[1] = d_datetime.day_of_year + D!DaysBefore(d_year)
    BY DEF DateInv, Datetime, TimeOfDay, YearStands, D!MonthFound, D!NoDayLost
  <1>2. n \in 28 .. 31 /\ n = D!DaysIn(d_year, m)
    BY <1>1, MonthLength
  <1>3. /\ D!DaysBefore(d_year) \in Int /\ D!DaysBeforeMonth(d_year, m) \in Int /\ d_datetime.day_of_year \in Nat
    <2>1. m \in 0 .. 12
      BY <1>1
    <2> QED
      BY <1>1, <2>1, CalendarRanges DEF Datetime
  <1>4. /\ d_datetime' \in Datetime /\ d_datetime'.month = m /\ d_datetime'.year = d_datetime.year
        /\ d_datetime'.day_of_month = d_date + 1
        /\ d_datetime'.day_of_year = d_datetime.day_of_year /\ d_datetime'.sec = d_datetime.sec
        /\ d_datetime'.min = d_datetime.min /\ d_datetime'.hour = d_datetime.hour
        /\ d_datetime'.day_of_week = d_datetime.day_of_week
    <2> DEFINE e == [d_datetime EXCEPT !.day_of_month = d_date + 1]
    <2>1. /\ e \in Datetime /\ e.month = m /\ e.year = d_datetime.year /\ e.day_of_month = d_date + 1
          /\ e.day_of_year = d_datetime.day_of_year /\ e.sec = d_datetime.sec
          /\ e.min = d_datetime.min /\ e.hour = d_datetime.hour /\ e.day_of_week = d_datetime.day_of_week
      BY <1>1 DEF Datetime
    <2>2. d_datetime' = [e EXCEPT !.daylight_saving = FALSE]
      BY <1>1
    <2> HIDE DEF e
    <2> QED
      BY <2>1, <2>2 DEF Datetime
  <1> HIDE DEF m, n
  <1>5. MonthStands'
    BY <1>1, <1>2, <1>3, <1>4 DEF MonthStands
  <1>6. YearStands'
    BY <1>1, <1>4 DEF YearStands, DateInv
  <1> QED
    BY <1>1, <1>4, <1>5, <1>6 DEF DateInv, TimeOfDay, D!NoDayLost

LEMMA ReturnKeeps ==
    ASSUME D!Return
    PROVE  DateInv'
  BY DEF D!Return, DateInv, Datetime, D!Cleared, TimeOfDay, YearStands, MonthStands, D!NoDayLost

LEMMA DateStep ==
    ASSUME DateInv, [D!Next]_(D!vars)
    PROVE  DateInv'
  <1>1. CASE UNCHANGED D!vars
    BY <1>1 DEF D!vars, DateInv, TimeOfDay, YearStands, MonthStands, D!NoDayLost
  <1> QED
    BY <1>1, TimeDecodeKeeps, NextYearKeeps, YearFoundKeeps, NextMonthKeeps, MonthFoundKeeps,
       ReturnKeeps DEF D!Next

\* At the end the invariant is what the fields promise.
LEMMA FieldsTrue ==
    ASSUME DateInv
    PROVE  D!DateTrue
  <1> SUFFICES ASSUME d_pc = "done" PROVE D!DateTrue
    BY DEF D!DateTrue
  <1> DEFINE d == d_datetime
  <1>1. /\ d_year \in Nat /\ d \in Datetime /\ d.month \in 0 .. 11 /\ d.year + 1900 = d_year
        /\ d_timestamp \in Nat \X Nat
        /\ d_timestamp[1] = d.day_of_year + D!DaysBefore(d_year)
        /\ d.day_of_month \in 1 .. D!DaysIn(d_year, d.month)
        /\ d.day_of_year = d.day_of_month - 1 + D!DaysBeforeMonth(d_year, d.month)
        /\ d.sec < 60 /\ d.min < 60 /\ d_timestamp[2] = d.hour * 3600 + d.min * 60 + d.sec
        /\ d.day_of_week = (d_timestamp[1] + 4) % 7
    BY DEF DateInv, Datetime, TimeOfDay, YearStands, MonthStands
  <1> DEFINE y == IF d.month < 2 THEN d.year + 1899 ELSE d.year + 1900
             m == IF d.month < 2 THEN d.month + 13 ELSE d.month + 1
  <1>2. y = (IF d.month < 2 THEN d_year - 1 ELSE d_year)
    <2>1. d.year \in Int /\ d.month \in 0 .. 11
      BY <1>1 DEF Datetime
    <2> QED
      BY <1>1, <2>1
  <1>3. D!DaysBefore(d_year) \in Int /\ D!DaysBeforeMonth(d_year, d.month) \in Int /\ d.day_of_month \in Int
    <2>1. d.month \in 0 .. 12
      BY <1>1
    <2> QED
      BY <1>1, <2>1, CalendarRanges DEF Datetime
  <1>4. D!Weekday(d_timestamp[1]) = Congruence(d.day_of_month, m, y)
    <2> DEFINE month == d.month
               day == d.day_of_month
               n == d_timestamp[1]
    <2>1. d_year \in Nat /\ month \in 0 .. 11 /\ day \in Int
          /\ n = D!DaysBefore(d_year) + D!DaysBeforeMonth(d_year, month) + day - 1
      BY <1>1, <1>3
    <2>2. y = (IF month < 2 THEN d_year - 1 ELSE d_year) /\ m = IF month < 2 THEN month + 13 ELSE month + 1
      BY <1>2
    <2> HIDE DEF month, day, y, m, n
    <2>3. D!Weekday(n) = Congruence(day, m, y)
      BY ONLY <2>1, <2>2, Zeller
    <2> QED
      BY <2>3 DEF month, day, n
  <1> QED
    BY <1>1, <1>4 DEF D!DateTrue, D!Weekday, Congruence

\* For every timestamp no day is lost while years and months are counted, the
\* fields name the second, and the weekday is that of Zeller's congruence
\* (date.c:158-180).
THEOREM CalendarIsTrue == UnitsSpec => []DateTrue
  <1>1. DateInv => DateTrue
    BY FieldsTrue DEF DateTrue, DateInv
  <1>2. D!Spec => []DateTrue
    BY <1>1, DateInit, DateStep, PTL DEF D!Spec
  <1> QED
    BY <1>2, EachByItself, PTL
----------------------------------------------------------------------------
\* The flag of an earlier transfer may be set while the master is idle, but then
\* it was seen, and the next access of SPDR clears it.
SpiInv ==
    /\ p_pc \in {"off", "idle", "wait_write", "wait_read", "take"}
    /\ p_pc \in {"off", "idle"} => ~ p_transfer /\ (p_SPIF => p_seen)
    /\ p_pc \in {"wait_write", "wait_read"} =>
          /\ p_transfer => ~ p_SPIF
          /\ ~ p_transfer => p_SPDR = p_count
    /\ p_pc = "take" => (p_SPIF => p_seen)
    /\ P!OwnAnswer

LEMMA SpiStep ==
    ASSUME SpiInv, [P!Next]_(P!vars)
    PROVE  SpiInv'
  <1> USE DEF SpiInv, P!OwnAnswer
  <1>1. CASE UNCHANGED P!vars
    BY <1>1 DEF P!vars
  <1>2. CASE P!spi_init
    BY <1>2 DEF P!spi_init
  <1>3. CASE P!Begin("wait_write")
    BY <1>3 DEF P!Begin, P!WriteSPDR
  <1>4. CASE P!Begin("wait_read")
    BY <1>4 DEF P!Begin, P!WriteSPDR
  <1>5. CASE P!Wait
    BY <1>5 DEF P!Wait, P!Ended
  <1>6. CASE P!Take
    BY <1>6 DEF P!Take
  <1>7. CASE P!Shifted
    BY <1>7 DEF P!Shifted
  <1> QED
    BY <1>1, <1>2, <1>3, <1>4, <1>5, <1>6, <1>7 DEF P!Next

\* However the transfers, the polls and the accesses of SPDR interleave with the
\* hardware, a read returns the answer to its own transfer.
THEOREM AnswersAreOwn == UnitsSpec => []OwnAnswer
  <1>1. P!Init => SpiInv
    BY DEF P!Init, SpiInv, P!OwnAnswer
  <1>2. SpiInv /\ [P!Next]_(P!vars) => SpiInv'
    BY SpiStep
  <1>3. SpiInv => OwnAnswer
    BY DEF SpiInv, OwnAnswer
  <1> QED
    BY <1>1, <1>2, <1>3, EachByItself, PTL DEF P!Spec
----------------------------------------------------------------------------
Counters == [N!Directions -> 0 .. COUNT_MOD - 1]

\* What a counter has counted since the display is its distance from the saved
\* one, both being numbers of the same width.
StatusInv ==
    /\ n_bytes \in Counters /\ n_saved \in Counters
    /\ n_since \in [N!Directions -> Nat]
    /\ \A d \in N!Directions : N!Rate(n_bytes[d], n_saved[d]) = n_since[d] % COUNT_MOD

\* Adding to a counter adds to its distance.
LEMMA RateCounts ==
    ASSUME NEW m \in Nat \ {0}, NEW b \in Int, NEW s \in Int, NEW n \in Int, NEW j \in Int,
           (b - s) % m = n % m
    PROVE  (((b + j) % m) - s) % m = (n + j) % m
  <1> DEFINE c   == b + j
             e   == b - s
             p   == c \div m
             q   == e \div m
             r   == n \div m
             new == c % m
             z   == q - r - p
  <1>1. c \in Int /\ e \in Int /\ c = e + s + j
    OBVIOUS
  <1> HIDE DEF c, e
  <1>2. /\ p \in Int /\ new \in 0 .. m - 1 /\ c = m * p + new
        /\ q \in Int /\ (e % m) \in 0 .. m - 1 /\ e = m * q + (e % m)
        /\ r \in Int /\ (n % m) \in 0 .. m - 1 /\ n = m * r + (n % m)
    BY ONLY m \in Nat \ {0}, n \in Int, <1>1, DivMod
  <1>3. e % m = n % m
    BY DEF e
  <1> HIDE DEF p, q, r, new
  <1>4. m * z = m * q - m * r - m * p /\ m * q \in Int /\ m * r \in Int /\ m * p \in Int /\ z \in Int
    BY <1>2
  <1> HIDE DEF z
  <1>5. new - s = (n + j) + m * z
    BY <1>1, <1>2, <1>3, <1>4
  <1>6. ((n + j) + m * z) % m = (n + j) % m
    <2> DEFINE f == n + j
    <2>1. f \in Int
      OBVIOUS
    <2> HIDE DEF f
    <2>2. (f + m * z) % m = f % m
      BY <1>4, <2>1, ModShift
    <2> QED
      BY <2>2 DEF f
  <1> QED
    BY <1>5, <1>6 DEF new, c

\* A number is shown in its unit, rounded down.
LEMMA UnitsName ==
    ASSUME NEW n \in Nat
    PROVE  N!Names(N!InUnits(n), n)
  <1>1. ASSUME NEW u \in Nat \ {0}
        PROVE  n \div u \in Int /\ (n \div u) * u <= n /\ n < ((n \div u) + 1) * u /\ (u <= n => n \div u > 0)
    <2> DEFINE q == n \div u
    <2>1. q \in Int /\ n % u \in 0 .. u - 1 /\ n = u * q + (n % u)
      BY DivMod
    <2> HIDE DEF q
    <2>2. q * u = u * q /\ (q + 1) * u = u * q + u /\ u * q \in Int
      BY <2>1
    <2>3. q * u <= n /\ n < (q + 1) * u
      BY <2>1, <2>2
    <2>4. u <= n => q > 0
      <3> SUFFICES ASSUME u <= n, q <= 0 PROVE FALSE
        BY <2>1
      <3>1. u * q <= u * 0
        BY <2>1, ProductOrder
      <3> QED
        BY <2>1, <2>2, <3>1
    <2> QED
      BY <2>1, <2>3, <2>4 DEF q
  <1> QED
    BY <1>1, UnitsAssumption DEF N!Names, N!InUnits

\* StatusInv holds at first, and counting and displaying keep it.
LEMMA StatusInit ==
    ASSUME N!Init
    PROVE  StatusInv
  <1>1. 0 \in 0 .. COUNT_MOD - 1 /\ (0 - 0) % COUNT_MOD = 0 % COUNT_MOD
    BY UnitsAssumption
  <1> QED
    BY <1>1 DEF N!Init, N!None, StatusInv, Counters, N!Rate

\* A frame and an answer count in both, each in its direction.
LEMMA HandleKeeps ==
    ASSUME StatusInv, NEW n \in Lengths, NEW m \in Lengths, N!Handle(n, m)
    PROVE  StatusInv'
  <1> DEFINE added == [d \in N!Directions |-> IF d = "received" THEN n ELSE m]
  <1>1. n \in Nat /\ m \in Nat /\ COUNT_MOD \in Nat \ {0}
    BY UnitsAssumption
  <1>2. n_saved' = n_saved
    BY DEF N!Handle
  <1>3. ASSUME NEW d \in N!Directions
        PROVE  /\ n_bytes'[d] = (n_bytes[d] + added[d]) % COUNT_MOD
               /\ n_since'[d] = n_since[d] + added[d]
    BY DEF N!Handle, N!Counted, N!Directions, StatusInv, Counters
  <1> HIDE DEF added
  <1>4. \A d \in N!Directions : added[d] \in Nat
    BY <1>1 DEF added, N!Directions
  <1>5. ASSUME NEW f \in [N!Directions -> Int], NEW d \in N!Directions, NEW j \in Nat
        PROVE  N!Counted(f, d, j) \in [N!Directions -> Int]
    <2>1. (f[d] + j) % COUNT_MOD \in Int
      BY <1>1, DivMod
    <2> QED
      BY <2>1 DEF N!Counted
  <1>6. n_bytes' \in [N!Directions -> Int]
    <2>1. n_bytes \in [N!Directions -> Int] /\ "sent" \in N!Directions /\ "received" \in N!Directions
      BY <1>1 DEF StatusInv, Counters, N!Directions
    <2>2. N!Counted(n_bytes, "received", n) \in [N!Directions -> Int]
      BY <1>1, <1>5, <2>1
    <2>3. N!Counted(N!Counted(n_bytes, "received", n), "sent", m) \in [N!Directions -> Int]
      BY <1>1, <1>5, <2>1, <2>2
    <2> QED
      BY <2>3 DEF N!Handle
  <1>7. n_since' \in [N!Directions -> Nat]
    <2>1. n_since \in [N!Directions -> Nat] /\ n_since["received"] + n \in Nat /\ n_since["sent"] + m \in Nat
      BY <1>1 DEF StatusInv, N!Directions
    <2> QED
      BY <2>1 DEF N!Handle
  <1>8. ASSUME NEW d \in N!Directions
        PROVE  /\ n_bytes'[d] \in 0 .. COUNT_MOD - 1
               /\ N!Rate(n_bytes'[d], n_saved[d]) = n_since'[d] % COUNT_MOD
    <2> DEFINE b == n_bytes[d]
               s == n_saved[d]
               c == n_since[d]
               j == added[d]
    <2>1. b \in Int /\ s \in Int /\ c \in Int /\ j \in Int /\ b + j \in Int
      BY <1>1, <1>4 DEF StatusInv, Counters
    <2>2. (b - s) % COUNT_MOD = c % COUNT_MOD
      BY DEF StatusInv, N!Rate
    <2> HIDE DEF b, s, c, j
    <2>3. (((b + j) % COUNT_MOD) - s) % COUNT_MOD = (c + j) % COUNT_MOD
      BY ONLY <1>1, <2>1, <2>2, RateCounts, SMTT(30)
    <2>4. (b + j) % COUNT_MOD \in 0 .. COUNT_MOD - 1
      BY ONLY <1>1, <2>1, DivMod
    <2> QED
      BY <1>3, <2>3, <2>4 DEF N!Rate, b, s, c, j
  <1>9. n_bytes' \in Counters
    BY <1>6, <1>8 DEF Counters
  <1> QED
    BY <1>2, <1>7, <1>8, <1>9 DEF StatusInv

LEMMA DisplayKeeps ==
    ASSUME StatusInv, N!Display
    PROVE  StatusInv'
  <1>1. n_bytes' = n_bytes /\ n_saved' = n_bytes /\ n_since' = [d \in N!Directions |-> 0]
    BY DEF N!Display, N!None
  <1>2. ASSUME NEW d \in N!Directions
        PROVE  N!Rate(n_bytes[d], n_bytes[d]) = 0 % COUNT_MOD
    <2>1. n_bytes[d] \in Int
      BY UnitsAssumption DEF StatusInv, Counters
    <2>2. n_bytes[d] - n_bytes[d] = 0
      BY <2>1
    <2> QED
      BY <2>2 DEF N!Rate
  <1> QED
    BY <1>1, <1>2 DEF StatusInv

\* What a display shows as rates, while no counter has wrapped twice.
LEMMA DisplayShowsRates ==
    ASSUME StatusInv, N!Display,
           NEW d \in N!Directions, n_since[d] < COUNT_MOD
    PROVE  N!Names(n_shown'[d].rate, n_since[d])
  <1>1. n_shown'[d].rate = N!InUnits(N!Rate(n_bytes[d], n_saved[d]))
    BY DEF N!Display
  <1>2. n_since[d] \in Nat /\ n_since[d] \in 0 .. COUNT_MOD - 1
    BY UnitsAssumption DEF StatusInv
  <1>3. n_since[d] % COUNT_MOD = n_since[d]
    BY <1>2, ModSmall, UnitsAssumption
  <1>4. N!Rate(n_bytes[d], n_saved[d]) = n_since[d]
    BY <1>3 DEF StatusInv
  <1> QED
    BY <1>1, <1>2, <1>4, UnitsName

\* What is shown as a rate is what was sent or received since the display before,
\* for every width of the counters and every number of bytes below it.
THEOREM RatesAreTrue == UnitsSpec => RateTrue
  <1>1. N!Init => StatusInv
    BY StatusInit
  <1>2. StatusInv /\ [N!Next]_(N!vars) => StatusInv'
    <2>1. CASE UNCHANGED N!vars
      BY <2>1 DEF N!vars, StatusInv
    <2> QED
      BY <2>1, HandleKeeps, DisplayKeeps DEF N!Next
  <1>3. StatusInv /\ [N!Next]_(N!vars) =>
          [n_shown' # N!NotShown =>
              \A d \in N!Directions : n_since[d] < COUNT_MOD => N!Names(n_shown'[d].rate, n_since[d])]_(N!vars)
    <2>1. ASSUME NEW n \in Lengths, NEW m \in Lengths, N!Handle(n, m) PROVE n_shown' = N!NotShown
      BY <2>1 DEF N!Handle
    <2> QED
      BY <2>1, DisplayShowsRates DEF N!Next
  <1> QED
    BY <1>1, <1>2, <1>3, EachByItself, PTL DEF N!Spec, N!RateTrue, RateTrue
----------------------------------------------------------------------------
\* THE SERIAL LINE, first its input.
Bytes == Characters \cup {NUL}

\* A read that runs has stored no NUL and is not past its limit.
SerialInv ==
    /\ s_rx \in Seq(Bytes)
    /\ s_read \in [runs : BOOLEAN, limit : Nat, data : Seq(Bytes)]
    /\ s_read.runs => Len(s_read.data) <= s_read.limit
                      /\ \A n \in DOMAIN s_read.data : s_read.data[n] # NUL
    /\ S!ReadTerminated

LEMMA SerialStep ==
    ASSUME SerialInv, [S!Next]_(S!vars)
    PROVE  SerialInv'
  <1> USE DEF SerialInv
  <1>1. CASE UNCHANGED <<s_rx, s_read>>
    BY <1>1 DEF S!ReadTerminated
  <1>2. ASSUME NEW byte \in Bytes, S!Received(byte) PROVE SerialInv'
    <2>1. s_read' = s_read /\ s_rx' \in Seq(Bytes)
      BY <1>2 DEF S!Received
    <2> QED
      BY <2>1 DEF S!ReadTerminated
  <1>3. ASSUME NEW max_length \in Limits, S!uart_read(max_length) PROVE SerialInv'
    <2>1. s_rx' = s_rx /\ s_read' = [runs |-> TRUE, limit |-> max_length, data |-> << >>]
      BY <1>3 DEF S!uart_read
    <2>2. max_length \in Nat
      BY UnitsAssumption DEF S!SerialAssumption
    <2> QED
      BY <2>1, <2>2 DEF S!ReadTerminated
  <1>4. CASE S!uart_read_byte
    <2> DEFINE byte == Head(s_rx)
               data == Append(s_read.data, byte)
    <2>1. /\ s_read.runs /\ Len(s_read.data) < s_read.limit /\ s_rx # << >>
          /\ s_read' = [s_read EXCEPT !.data = data, !.runs = byte # NUL] /\ s_rx' = Tail(s_rx)
      BY <1>4 DEF S!uart_read_byte
    <2>2. byte \in Bytes /\ s_rx' \in Seq(Bytes)
      BY <2>1
    <2>3. /\ data \in Seq(Bytes) /\ Len(data) = Len(s_read.data) + 1
          /\ \A n \in DOMAIN s_read.data : data[n] = s_read.data[n]
          /\ data[Len(data)] = byte
      BY <2>2
    <2> HIDE DEF byte, data
    <2>4. /\ s_read' \in [runs : BOOLEAN, limit : Nat, data : Seq(Bytes)]
          /\ s_read'.data = data /\ s_read'.limit = s_read.limit /\ (s_read'.runs <=> byte # NUL)
      BY <2>1, <2>3
    <2>5. \A n \in DOMAIN data : n # Len(data) => data[n] # NUL
      BY <2>1, <2>3
    <2>6. S!ReadTerminated'
      BY <2>1, <2>3, <2>4, <2>5 DEF S!ReadTerminated
    <2> QED
      BY <2>1, <2>2, <2>3, <2>4, <2>5, <2>6
  <1>5. CASE S!ReadFull
    <2> DEFINE data == Append(s_read.data, NUL)
    <2>1. /\ s_read.runs /\ Len(s_read.data) = s_read.limit /\ s_rx' = s_rx
          /\ s_read' = [s_read EXCEPT !.data = data, !.runs = FALSE]
      BY <1>5 DEF S!ReadFull
    <2>2. NUL \in Bytes
      BY DEF Bytes
    <2>3. /\ data \in Seq(Bytes) /\ Len(data) = Len(s_read.data) + 1
          /\ \A n \in DOMAIN s_read.data : data[n] = s_read.data[n]
          /\ data[Len(data)] = NUL
      BY <2>2
    <2> HIDE DEF data
    <2>4. /\ s_read' \in [runs : BOOLEAN, limit : Nat, data : Seq(Bytes)]
          /\ s_read'.data = data /\ s_read'.limit = s_read.limit /\ ~ s_read'.runs
      BY <2>1, <2>3
    <2>5. \A n \in DOMAIN data : n # Len(data) => data[n] # NUL
      BY <2>1, <2>3
    <2>6. S!ReadTerminated'
      BY <2>1, <2>3, <2>4, <2>5 DEF S!ReadTerminated
    <2> QED
      BY <2>1, <2>3, <2>4, <2>6
  <1>6. ASSUME S!TtyInit \/ (\E c \in Characters : S!tty_write(c)) \/ (\E data \in Chunks : S!uart_write(data))
                 \/ S!uart_write_byte \/ S!Load \/ S!Transmitted \/ UNCHANGED S!vars
        PROVE  UNCHANGED <<s_rx, s_read>>
    BY <1>6 DEF S!TtyInit, S!tty_write, S!uart_write, S!uart_write_byte, S!Load, S!Transmitted, S!vars
  <1> QED
    BY <1>1, <1>2, <1>3, <1>4, <1>5, <1>6 DEF S!Next, Bytes

\* And its output.  FiniteSets is part of the instance S too.
LEMMA SerialSizes ==
    ASSUME NEW Q
    PROVE  S!Cardinality(Q) = Cardinality(Q)
  BY DEF S!Cardinality, S!IsFiniteSet, Cardinality, IsFiniteSet

\* Characters stay at their places when more are printed.
LEMMA PlacesStay ==
    ASSUME NEW A, NEW t \in Seq(A), NEW d \in Seq(A), NEW n \in 0 .. Len(t)
    PROVE  S!Place(t \o d, n) = S!Place(t, n)
  <1>1. \A m \in 1 .. n : (t \o d)[m] = t[m]
    <2>1. Len(t) \in Nat /\ Len(d) \in Nat
      BY LenProperties
    <2> QED
      BY <2>1, ConcatProperties
  <1>2. {m \in 1 .. n : (t \o d)[m] = LF} = {m \in 1 .. n : t[m] = LF}
    BY <1>1
  <1> QED
    BY <1>2 DEF S!Place

\* The next character has the next place, or, if it is a line feed, the one after.
LEMMA NextPlace ==
    ASSUME NEW t, NEW n \in Nat
    PROVE  /\ S!Place(t, 0) = 0
           /\ S!Place(t, n) \in Nat /\ S!Place(t, n) >= n
           /\ S!Place(t, n + 1) = S!Place(t, n) + (IF t[n + 1] = LF THEN 2 ELSE 1)
  <1> DEFINE Feeds(l) == {m \in 1 .. l : t[m] = LF}
  <1>1. IsFiniteSet(Feeds(n)) /\ Cardinality(Feeds(n)) \in Nat
    <2>1. IsFiniteSet(1 .. n) /\ Feeds(n) \in SUBSET (1 .. n)
      BY FS_Interval
    <2> QED
      BY <2>1, FS_Subset, FS_CardinalityType
  <1>2. S!Place(t, 0) = 0
    <2>1. Feeds(0) = {}
      OBVIOUS
    <2>2. Cardinality(Feeds(0)) = 0
      BY <2>1, FS_EmptySet
    <2> QED
      BY <2>2, SerialSizes DEF S!Place
  <1>3. S!Place(t, n) = n + Cardinality(Feeds(n)) /\ S!Place(t, n + 1) = n + 1 + Cardinality(Feeds(n + 1))
    BY SerialSizes DEF S!Place
  <1>4. CASE t[n + 1] = LF
    <2>1. Feeds(n + 1) = Feeds(n) \cup {n + 1} /\ n + 1 \notin Feeds(n)
      BY <1>4
    <2>2. Cardinality(Feeds(n + 1)) = Cardinality(Feeds(n)) + 1
      BY <1>1, <2>1, FS_AddElement
    <2> HIDE DEF Feeds
    <2> QED
      BY <1>1, <1>2, <1>3, <1>4, <2>2
  <1>5. CASE t[n + 1] # LF
    <2>1. Feeds(n + 1) = Feeds(n)
      BY <1>5
    <2> HIDE DEF Feeds
    <2> QED
      BY <1>1, <1>2, <1>3, <1>5, <2>1
  <1> QED
    BY <1>4, <1>5

\* Places come one after the other, that of a line feed not first.
LEMMA PlaceOrder ==
    ASSUME NEW t, NEW n \in Nat, NEW m \in 1 .. n
    PROVE  /\ S!Place(t, m) \in 1 .. S!Place(t, n)
           /\ t[m] = LF => S!Place(t, m) - 1 \in 1 .. S!Place(t, n)
  <1> DEFINE Feeds(l) == {h \in 1 .. l : t[h] = LF}
  <1>1. Cardinality(Feeds(m)) \in Nat /\ Cardinality(Feeds(n)) \in Nat
        /\ Cardinality(Feeds(m)) <= Cardinality(Feeds(n))
    <2>1. IsFiniteSet(1 .. n) /\ Feeds(n) \in SUBSET (1 .. n) /\ Feeds(m) \in SUBSET Feeds(n)
      BY FS_Interval
    <2> HIDE DEF Feeds
    <2>2. IsFiniteSet(Feeds(n))
      BY <2>1, FS_Subset
    <2>3. IsFiniteSet(Feeds(m)) /\ Cardinality(Feeds(m)) <= Cardinality(Feeds(n))
      BY <2>1, <2>2, FS_Subset
    <2> QED
      BY <2>2, <2>3, FS_CardinalityType
  <1>2. S!Place(t, m) = m + Cardinality(Feeds(m)) /\ S!Place(t, n) = n + Cardinality(Feeds(n))
    BY SerialSizes DEF S!Place
  <1> HIDE DEF Feeds
  <1>3. t[m] = LF => S!Place(t, m) >= 2
    <2>1. m - 1 \in Nat /\ (m - 1) + 1 = m
      OBVIOUS
    <2>2. S!Place(t, m - 1) \in Nat
          /\ S!Place(t, m) = S!Place(t, m - 1) + (IF t[m] = LF THEN 2 ELSE 1)
      <3>1. /\ S!Place(t, m - 1) \in Nat
            /\ S!Place(t, (m - 1) + 1) = S!Place(t, m - 1) + (IF t[(m - 1) + 1] = LF THEN 2 ELSE 1)
        BY <2>1, NextPlace
      <3> QED
        BY <2>1, <3>1
    <2> QED
      BY <2>2
  <1> QED
    BY <1>1, <1>2, <1>3

\* The elements of two sequences, one after the other.
LEMMA Joined ==
    ASSUME NEW A, NEW t \in Seq(A), NEW d \in Seq(A)
    PROVE  /\ Len(t \o d) = Len(t) + Len(d)
           /\ \A h \in 1 .. Len(t) : (t \o d)[h] = t[h]
           /\ \A h \in 1 .. Len(d) : (t \o d)[Len(t) + h] = d[h]
  <1>1. /\ Len(t \o d) = Len(t) + Len(d)
        /\ \A h \in 1 .. Len(t) + Len(d) : (t \o d)[h] = IF h <= Len(t) THEN t[h] ELSE d[h - Len(t)]
    BY ConcatProperties
  <1>2. Len(t) \in Nat /\ Len(d) \in Nat
    BY LenProperties
  <1>3. ASSUME NEW h \in 1 .. Len(t) PROVE (t \o d)[h] = t[h]
    BY <1>1, <1>2
  <1>4. ASSUME NEW h \in 1 .. Len(d) PROVE (t \o d)[Len(t) + h] = d[h]
    <2>1. Len(t) + h \in 1 .. Len(t) + Len(d) /\ ~ (Len(t) + h <= Len(t)) /\ (Len(t) + h) - Len(t) = h
      BY <1>2
    <2>2. (t \o d)[Len(t) + h] = IF Len(t) + h <= Len(t) THEN t[Len(t) + h] ELSE d[(Len(t) + h) - Len(t)]
      BY <1>1, <2>1, Zenon
    <2> QED
      BY <2>1, <2>2
  <1> QED
    BY <1>1, <1>3, <1>4

\* What has been printed is still carried when more is.
LEMMA StillCarries ==
    ASSUME NEW A, NEW bytes \in Seq(A), NEW t \in Seq(A), NEW d \in Seq(A), NEW e \in Seq(A),
           S!Carries(bytes, t), NEW m \in 1 .. Len(t)
    PROVE  S!CarriesAt(bytes \o e, t \o d, m)
  <1> DEFINE n == Len(t)
             p == S!Place(t, n)
  <1>1. n \in Nat /\ m \in 0 .. Len(t) /\ m \in 1 .. n
    BY LenProperties
  <1>2. (t \o d)[m] = t[m] /\ S!Place(t \o d, m) = S!Place(t, m)
    BY <1>1, Joined, PlacesStay
  <1>3. Len(bytes) = p /\ bytes[S!Place(t, m)] = t[m] /\ (t[m] = LF => bytes[S!Place(t, m) - 1] = CR)
    BY DEF S!Carries, S!CarriesAt
  <1> HIDE DEF n
  <1>4. S!Place(t, m) \in 1 .. p /\ (t[m] = LF => S!Place(t, m) - 1 \in 1 .. p)
    BY <1>1, PlaceOrder
  <1> HIDE DEF p
  <1>5. \A h \in 1 .. p : (bytes \o e)[h] = bytes[h]
    BY <1>3, Joined
  <1> QED
    BY <1>2, <1>3, <1>4, <1>5 DEF S!CarriesAt

\* If bytes carry t, then bytes and a character carry t and this character, and
\* those and a chunk without line feeds.
LEMMA CarriesCharacter ==
    ASSUME NEW A, NEW bytes \in Seq(A), NEW t \in Seq(A), NEW c \in A, CR \in A, S!Carries(bytes, t)
    PROVE  S!Carries(bytes \o S!Encoded(c), Append(t, c))
  <1> DEFINE u == Append(t, c)
             e == S!Encoded(c)
             w == bytes \o e
             n == Len(t)
             p == S!Place(t, n)
             last == <<c>>
  <1>1. /\ n \in Nat /\ u \in Seq(A) /\ Len(u) = n + 1 /\ u[n + 1] = c
        /\ last \in Seq(A) /\ u = t \o last /\ \A m \in 1 .. n : u[m] = t[m]
    OBVIOUS
  <1>2. e \in Seq(A) /\ Len(e) = (IF c = LF THEN 2 ELSE 1) /\ e[Len(e)] = c /\ (c = LF => e[1] = CR)
    BY DEF S!Encoded
  <1>3. Len(bytes) = p /\ n = Len(t) /\ p = S!Place(t, n) /\ w = bytes \o e
    BY DEF S!Carries
  <1>4. S!Carries(w, u) <=>
          /\ Len(w) = S!Place(u, Len(u))
          /\ \A m \in 1 .. Len(u) : S!CarriesAt(w, u, m)
    BY DEF S!Carries
  <1> SUFFICES S!Carries(w, u)
    OBVIOUS
  <1> HIDE DEF e, u, n, p, w, last
  <1>5. p \in Nat
    BY <1>1, <1>3, NextPlace
  <1>6. \A m \in 0 .. n : S!Place(u, m) = S!Place(t, m)
    BY <1>1, <1>3, PlacesStay
  <1>7. S!Place(u, n + 1) = p + Len(e)
    <2>1. n \in Nat /\ n \in 0 .. n
      BY <1>1
    <2>2. S!Place(u, n + 1) = S!Place(u, n) + (IF u[n + 1] = LF THEN 2 ELSE 1)
      BY <2>1, NextPlace
    <2>3. S!Place(u, n) = p
      BY <1>3, <1>6, <2>1
    <2> QED
      BY <1>1, <1>2, <1>5, <2>2, <2>3
  <1>8. /\ Len(w) = p + Len(e)
        /\ \A h \in 1 .. p : w[h] = bytes[h]
        /\ \A h \in 1 .. Len(e) : w[p + h] = e[h]
    <2>1. /\ Len(bytes \o e) = Len(bytes) + Len(e)
          /\ \A h \in 1 .. Len(bytes) : (bytes \o e)[h] = bytes[h]
          /\ \A h \in 1 .. Len(e) : (bytes \o e)[Len(bytes) + h] = e[h]
      BY <1>2, Joined
    <2> QED
      BY <1>3, <2>1, Zenon
  <1>9. ASSUME NEW m \in 1 .. n + 1
        PROVE  S!CarriesAt(w, u, m)
    <2>1. CASE m = n + 1
      <3>1. Len(e) \in 1 .. Len(e) /\ (c = LF => 1 \in 1 .. Len(e) /\ (p + Len(e)) - 1 = p + 1)
        BY <1>2, <1>5
      <3>2. w[p + Len(e)] = e[Len(e)] /\ (c = LF => w[p + 1] = e[1])
        BY <1>8, <3>1
      <3>3. S!Place(u, m) = p + Len(e) /\ u[m] = c
        BY <1>1, <1>7, <2>1
      <3>4. w[S!Place(u, m)] = u[m]
        BY <1>2, <3>2, <3>3
      <3>5. c = LF => S!Place(u, m) - 1 = p + 1
        BY ONLY <3>1, <3>3
      <3>6. c = LF => w[S!Place(u, m) - 1] = CR
        BY <1>2, <3>2, <3>5
      <3> QED
        BY <3>3, <3>4, <3>6 DEF S!CarriesAt
    <2>2. CASE m # n + 1
      <3>1. m \in 1 .. Len(t)
        BY <1>1, <1>3, <2>2
      <3> QED
        BY <1>1, <1>2, <1>3, <3>1, StillCarries
    <2> QED
      BY <2>1, <2>2
  <1> QED
    BY <1>1, <1>4, <1>7, <1>8, <1>9

LEMMA CarriesChunk ==
    ASSUME NEW A, NEW bytes \in Seq(A), NEW t \in Seq(A), NEW d \in Seq(A \ {LF}), S!Carries(bytes, t)
    PROVE  S!Carries(bytes \o d, t \o d)
  <1> DEFINE u == t \o d
             w == bytes \o d
             n == Len(t)
             p == S!Place(t, n)
             l == Len(d)
  <1>1. d \in Seq(A) /\ n \in Nat /\ l \in Nat /\ \A h \in 1 .. l : d[h] # LF
    <2>1. d \in Seq(A)
      BY SeqMonotonic
    <2>2. \A h \in 1 .. l : d[h] \in A \ {LF}
      BY ElementOfSeq
    <2> QED
      BY <2>1, <2>2, LenProperties
  <1>2. Len(bytes) = p /\ n = Len(t) /\ p = S!Place(t, n) /\ l = Len(d) /\ u = t \o d /\ w = bytes \o d
    BY DEF S!Carries
  <1>3. S!Carries(w, u) <=>
          /\ Len(w) = S!Place(u, Len(u))
          /\ \A m \in 1 .. Len(u) : S!CarriesAt(w, u, m)
    BY DEF S!Carries
  <1> SUFFICES S!Carries(w, u)
    OBVIOUS
  <1> HIDE DEF u, n, p, w, l
  <1>4. p \in Nat
    BY <1>1, <1>2, NextPlace
  <1>5. /\ Len(u) = n + l /\ Len(w) = p + l
        /\ \A h \in 1 .. n : u[h] = t[h]
        /\ \A h \in 1 .. l : u[n + h] = d[h] /\ w[p + h] = d[h]
    <2>1. /\ Len(bytes \o d) = Len(bytes) + Len(d)
          /\ \A h \in 1 .. Len(d) : (bytes \o d)[Len(bytes) + h] = d[h]
      BY <1>1, Joined
    <2>2. /\ Len(t \o d) = Len(t) + Len(d)
          /\ \A h \in 1 .. Len(t) : (t \o d)[h] = t[h]
          /\ \A h \in 1 .. Len(d) : (t \o d)[Len(t) + h] = d[h]
      BY <1>1, Joined
    <2> QED
      BY <1>2, <2>1, <2>2, Zenon
  <1>6. ASSUME NEW h \in 0 .. l PROVE S!Place(u, n + h) = p + h
    <2>1. {m \in 1 .. n + h : u[m] = LF} = {m \in 1 .. n : t[m] = LF}
      <3>1. ASSUME NEW m \in 1 .. n + h, u[m] = LF PROVE m \in 1 .. n
        <4> SUFFICES ASSUME ~ (m <= n) PROVE FALSE
          BY <1>1
        <4>1. m - n \in 1 .. l /\ n + (m - n) = m
          BY <1>1
        <4> QED
          BY <1>1, <1>5, <3>1, <4>1
      <3>2. 1 .. n \subseteq 1 .. n + h
        BY <1>1
      <3> QED
        BY <1>5, <3>1, <3>2
    <2>2. S!Place(u, n + h) = n + h + Cardinality({m \in 1 .. n : t[m] = LF})
          /\ p = n + Cardinality({m \in 1 .. n : t[m] = LF})
      BY <1>2, <2>1, SerialSizes DEF S!Place
    <2> DEFINE feeds == Cardinality({m \in 1 .. n : t[m] = LF})
    <2>3. feeds \in Nat
      <3>1. IsFiniteSet(1 .. n)
        <4>1. 1 \in Int /\ n \in Int
          BY <1>1
        <4> QED
          BY ONLY <4>1, FS_Interval
      <3>2. {m \in 1 .. n : t[m] = LF} \in SUBSET (1 .. n)
        OBVIOUS
      <3> QED
        BY <3>1, <3>2, FS_Subset, FS_CardinalityType
    <2> HIDE DEF feeds
    <2>4. S!Place(u, n + h) = n + h + feeds /\ p = n + feeds
      BY <2>2 DEF feeds
    <2> QED
      BY <1>1, <2>3, <2>4
  <1>7. ASSUME NEW m \in 1 .. n + l
        PROVE  S!CarriesAt(w, u, m)
    <2>1. CASE m \in 1 .. n
      BY <1>1, <1>2, <2>1, StillCarries
    <2>2. CASE m \notin 1 .. n
      <3>1. m - n \in 1 .. l /\ m - n \in 0 .. l /\ n + (m - n) = m
        BY <1>1, <2>2
      <3>2. S!Place(u, m) = p + (m - n) /\ u[m] = d[m - n] /\ w[p + (m - n)] = d[m - n]
        BY <1>5, <1>6, <3>1
      <3> QED
        BY <1>1, <3>1, <3>2 DEF S!CarriesAt
    <2> QED
      BY <2>1, <2>2
  <1>8. l \in 0 .. l
    BY <1>1
  <1> QED
    BY <1>3, <1>5, <1>6, <1>7, <1>8

LEMMA CarriesNothing == S!Carries(<< >>, << >>)
  <1>1. Len(<< >>) = 0 /\ S!Place(<< >>, 0) = 0
    BY NextPlace
  <1> QED
    BY <1>1 DEF S!Carries


\* What is carried, by the line and by the registers and bytes before it.
Wire == Characters \cup {CR}

LineInv ==
    /\ s_todo \in Seq(Wire) /\ s_udr \in Seq(Wire) /\ s_shift \in Seq(Wire) /\ s_line \in Seq(Wire)
    /\ s_text \in Seq(Wire)
    /\ S!PrintedInOrder

\* Bytes move on without a change of what is on the way.
LEMMA BytesMoveOn ==
    ASSUME LineInv, S!uart_write_byte \/ S!Load \/ S!Transmitted
    PROVE  LineInv'
  <1>1. /\ s_todo \in Seq(Wire) /\ s_udr \in Seq(Wire) /\ s_shift \in Seq(Wire) /\ s_line \in Seq(Wire)
        /\ s_text \in Seq(Wire)
        /\ s_line \o s_shift \in Seq(Wire) /\ << >> \in Seq(Wire)
    BY ConcatProperties DEF LineInv
  <1> SUFFICES /\ s_todo' \in Seq(Wire) /\ s_udr' \in Seq(Wire) /\ s_shift' \in Seq(Wire)
               /\ s_line' \in Seq(Wire) /\ s_text' = s_text
               /\ S!OnTheWay' = S!OnTheWay
    BY <1>1 DEF LineInv, S!PrintedInOrder, S!Carries, S!CarriesAt, S!Place
  <1>2. CASE S!uart_write_byte
    <2> DEFINE head == <<Head(s_todo)>>
    <2>1. /\ s_todo # << >> /\ s_udr = << >> /\ s_udr' = head /\ s_todo' = Tail(s_todo)
          /\ s_line' = s_line /\ s_shift' = s_shift /\ s_text' = s_text
      BY <1>2 DEF S!uart_write_byte, S!DataRegisterEmpty
    <2>2. head \in Seq(Wire) /\ Tail(s_todo) \in Seq(Wire)
      BY <1>1, <2>1, HeadTailProperties
    <2>3. head \o Tail(s_todo) = s_todo
      BY <1>1, <2>1, HeadTailProperties
    <2> HIDE DEF head
    <2>4. (s_line \o s_shift \o << >>) \o s_todo = s_line \o s_shift \o s_todo
      BY <1>1, ConcatEmptySeq
    <2>5. ((s_line \o s_shift) \o head) \o Tail(s_todo) = (s_line \o s_shift) \o s_todo
      <3>1. ((s_line \o s_shift) \o head) \o Tail(s_todo) = (s_line \o s_shift) \o (head \o Tail(s_todo))
        <4> DEFINE sent == s_line \o s_shift
                   rest == Tail(s_todo)
        <4>1. sent \in Seq(Wire) /\ head \in Seq(Wire) /\ rest \in Seq(Wire)
          BY <1>1, <2>2
        <4> HIDE DEF sent, rest
        <4>2. (sent \o head) \o rest = sent \o (head \o rest)
          BY <4>1, ConcatAssociative
        <4> QED
          BY <4>2 DEF sent, rest
      <3> QED
        BY <2>3, <3>1
    <2> QED
      BY <1>1, <2>1, <2>2, <2>4, <2>5 DEF S!OnTheWay
  <1>3. CASE S!Load
    <2>1. /\ s_shift = << >> /\ s_shift' = s_udr /\ s_udr' = << >>
          /\ s_line' = s_line /\ s_todo' = s_todo /\ s_text' = s_text
      BY <1>3 DEF S!Load
    <2>2. (s_line \o << >>) \o s_udr = (s_line \o s_udr) \o << >>
      <3>1. s_line \o s_udr \in Seq(Wire)
        BY <1>1, ConcatProperties
      <3> QED
        BY <1>1, <3>1, ConcatEmptySeq
    <2> QED
      BY <1>1, <2>1, <2>2 DEF S!OnTheWay
  <1>4. CASE S!Transmitted
    <2>1. /\ s_line' = s_line \o s_shift /\ s_shift' = << >>
          /\ s_todo' = s_todo /\ s_udr' = s_udr /\ s_text' = s_text
      BY <1>4 DEF S!Transmitted
    <2>2. (s_line \o s_shift) \o << >> = s_line \o s_shift
      BY <1>1, ConcatEmptySeq
    <2> QED
      BY <1>1, <2>1, <2>2 DEF S!OnTheWay
  <1> QED
    BY <1>2, <1>3, <1>4

LEMMA PrintKeeps ==
    ASSUME LineInv,
           (\E c \in Characters : S!tty_write(c)) \/ (\E data \in Chunks : S!uart_write(data))
    PROVE  LineInv'
  <1> DEFINE sent == s_line \o s_shift \o s_udr
  <1>1. /\ s_todo \in Seq(Wire) /\ s_udr \in Seq(Wire) /\ s_shift \in Seq(Wire) /\ s_line \in Seq(Wire)
        /\ s_text \in Seq(Wire)
        /\ s_line \o s_shift \in Seq(Wire) /\ sent \in Seq(Wire) /\ CR \in Wire
    BY ConcatProperties DEF LineInv, Wire
  <1>2. s_todo = << >> /\ s_udr' = s_udr /\ s_shift' = s_shift /\ s_line' = s_line
    BY DEF S!tty_write, S!uart_write, S!Ready
  <1>3. S!Carries(sent, s_text)
    <2>1. sent \o << >> = sent
      BY <1>1, ConcatEmptySeq
    <2> QED
      BY <1>2, <2>1 DEF LineInv, S!PrintedInOrder, S!OnTheWay
  <1>4. S!OnTheWay' = sent \o s_todo'
    BY <1>2 DEF S!OnTheWay
  <1> HIDE DEF sent
  <1>5. ASSUME s_todo' \in Seq(Wire), s_text' \in Seq(Wire), S!Carries(sent \o s_todo', s_text')
        PROVE  LineInv'
    BY <1>1, <1>2, <1>4, <1>5 DEF LineInv, S!PrintedInOrder, S!Carries, S!CarriesAt, S!Place
  <1>6. ASSUME NEW c \in Characters, S!tty_write(c) PROVE LineInv'
    <2>1. s_todo' = S!Encoded(c) /\ s_text' = Append(s_text, c) /\ c \in Wire
      BY <1>6 DEF S!tty_write, Wire
    <2>2. s_todo' \in Seq(Wire) /\ s_text' \in Seq(Wire)
      BY <1>1, <2>1 DEF S!Encoded
    <2>3. S!Carries(sent \o S!Encoded(c), Append(s_text, c))
      BY <1>1, <1>3, <2>1, CarriesCharacter
    <2> QED
      BY <1>5, <2>1, <2>2, <2>3
  <1>7. ASSUME NEW data \in Chunks, S!uart_write(data) PROVE LineInv'
    <2>1. s_todo' = data /\ s_text' = s_text \o data
      BY <1>7 DEF S!uart_write
    <2>2. data \in Seq(Wire \ {LF}) /\ data \in Seq(Wire)
      <3>1. data \in Seq(Characters \ {LF})
        BY UnitsAssumption DEF S!SerialAssumption
      <3>2. Characters \ {LF} \subseteq Wire \ {LF} /\ Characters \ {LF} \subseteq Wire
        BY DEF Wire
      <3> QED
        BY <3>1, <3>2, SeqMonotonic
    <2>3. s_text \o data \in Seq(Wire)
      BY <1>1, <2>2, ConcatProperties
    <2>4. S!Carries(sent \o data, s_text \o data)
      BY <1>1, <1>3, <2>2, CarriesChunk
    <2> QED
      BY <1>5, <2>1, <2>2, <2>3, <2>4
  <1> QED
    BY <1>6, <1>7

LEMMA LineStep ==
    ASSUME LineInv, [S!Next]_(S!vars)
    PROVE  LineInv'
  <1>1. ASSUME UNCHANGED <<s_todo, s_udr, s_shift, s_line, s_text>> PROVE LineInv'
    BY <1>1 DEF LineInv, S!PrintedInOrder, S!OnTheWay, S!Carries, S!CarriesAt, S!Place
  <1>2. ASSUME S!TtyInit \/ (\E byte \in Characters \cup {NUL} : S!Received(byte))
                 \/ (\E max_length \in Limits : S!uart_read(max_length))
                 \/ S!uart_read_byte \/ S!ReadFull \/ UNCHANGED S!vars
        PROVE  LineInv'
    BY <1>1, <1>2 DEF S!TtyInit, S!Received, S!uart_read, S!uart_read_byte, S!ReadFull, S!vars
  <1> QED
    BY <1>2, BytesMoveOn, PrintKeeps DEF S!Next

LEMMA LineInit ==
    ASSUME S!Init
    PROVE  LineInv
  <1>1. << >> \in Seq(Wire) /\ S!OnTheWay = << >> /\ s_text = << >>
    <2>1. << >> \in Seq(Wire) /\ << >> \o << >> = << >>
      BY EmptySeq, ConcatEmptySeq
    <2> QED
      BY <2>1 DEF S!Init, S!OnTheWay
  <1> QED
    BY <1>1, CarriesNothing DEF S!Init, LineInv, S!PrintedInOrder

\* The terminal gets what was printed, a carriage return before each line feed, and
\* whatever bytes come meanwhile, a read that has returned left a string, at most
\* one byte longer than it was asked for (uart.c:116, uart.c:100).
THEOREM SerialIsKept == UnitsSpec => []SerialKept
  <1>1. S!Init => SerialInv
    BY DEF S!Init, S!NoRead, SerialInv, S!ReadTerminated
  <1>2. SerialInv /\ LineInv => SerialKept
    BY DEF SerialInv, LineInv, SerialKept
  <1> QED
    BY <1>1, <1>2, SerialStep, LineInit, LineStep, EachByItself, PTL DEF S!Spec
----------------------------------------------------------------------------
\* CHECKSUMS.  The widths of words and long words, and that all the words of a
\* packet fit a long one, which is why the loop over words loses no carry.
LEMMA WidthsFit ==
    /\ BYTE \in Nat /\ BYTE >= 8 /\ C!WORD \in Nat /\ C!WORD >= 8 * BYTE /\ C!LONG \in Nat
    /\ C!LONG = (C!WORD - 1) * (C!WORD + 1) + 1
    /\ LENGTH_MOD \in Nat \ {0} /\ LENGTH_MOD % 2 = 0 /\ LENGTH_MOD <= C!WORD
    /\ \A n \in 0 .. C!WORD - 1 : n * (C!WORD - BYTE) \in Nat /\ n * (C!WORD - BYTE) + 7 * C!WORD + 17 < C!LONG
  <1>1. BYTE \in Nat /\ BYTE >= 8 /\ LENGTH_MOD \in Nat \ {0} /\ LENGTH_MOD % 2 = 0 /\ LENGTH_MOD <= C!WORD
    BY UnitsAssumption DEF C!ChecksumAssumption, C!WORD
  <1>2. C!WORD \in Nat /\ BYTE * 8 <= C!WORD
    BY <1>1, ProductOrder DEF C!WORD
  <1>3. C!WORD >= 8 * BYTE
    BY <1>1, <1>2
  <1>4. C!LONG \in Nat /\ C!LONG = (C!WORD - 1) * (C!WORD + 1) + 1
    BY <1>2 DEF C!LONG
  <1>5. ASSUME NEW n \in 0 .. C!WORD - 1
        PROVE  n * (C!WORD - BYTE) \in Nat /\ n * (C!WORD - BYTE) + 7 * C!WORD + 17 < C!LONG
    <2> DEFINE d == C!WORD - BYTE
               e == BYTE * C!WORD
    <2>1. d \in Nat \ {0} /\ e \in Nat /\ C!WORD * 8 <= e
      <3>1. C!WORD \in Nat \ {0}
        BY <1>1, <1>2, <1>3
      <3>2. C!WORD * 8 <= C!WORD * BYTE /\ C!WORD * BYTE = e
        BY <1>1, <3>1, ProductOrder
      <3> QED
        BY <1>1, <1>2, <1>3, <3>2
    <2>2. d * n <= d * (C!WORD - 1)
      BY <1>1, <1>2, <1>3, <2>1, ProductOrder
    <2>3. d * (C!WORD - 1) = C!LONG - e - C!WORD + BYTE
      BY <1>1, <1>2 DEF C!LONG
    <2>4. n * d = d * n /\ d * n \in Nat
      BY <2>1
    <2> HIDE DEF d, e
    <2>5. d * n + 7 * C!WORD + 17 < C!LONG
      BY <1>1, <1>2, <1>3, <1>4, <2>1, <2>2, <2>3, <2>4
    <2> QED
      BY <2>4, <2>5 DEF d
  <1> QED
    BY <1>1, <1>2, <1>3, <1>4, <1>5

\* The sums of the first values of w, up to m of them.
Sums(w, g, m) ==
    /\ g \in [0 .. m -> Nat]
    /\ \A n \in 0 .. m : g[n] = IF n = 0 THEN 0 ELSE g[n - 1] + w[n - 1]

LEMMA SumsExist ==
    ASSUME NEW size \in Nat, NEW w \in [0 .. size - 1 -> Nat]
    PROVE  \E g : g = [n \in 0 .. size |-> IF n = 0 THEN 0 ELSE g[n - 1] + w[n - 1]]
  <1> DEFINE Good == {m \in Nat : m <= size => \E g : Sums(w, g, m)}
  <1>1. 0 \in Good
    <2>1. Sums(w, [n \in 0 .. 0 |-> 0], 0)
      BY DEF Sums
    <2> QED
      BY <2>1
  <1>2. ASSUME NEW m \in Nat, m \in Good PROVE m + 1 \in Good
    <2> SUFFICES ASSUME m + 1 <= size PROVE \E g : Sums(w, g, m + 1)
      OBVIOUS
    <2>1. PICK g : Sums(w, g, m)
      BY <1>2
    <2> DEFINE next == g[m] + w[m]
               h == [n \in 0 .. m + 1 |-> IF n = m + 1 THEN next ELSE g[n]]
    <2>2. next \in Nat
      <3>1. m \in 0 .. m /\ m \in 0 .. size - 1
        OBVIOUS
      <3>2. g[m] \in Nat /\ w[m] \in Nat
        BY <2>1, <3>1 DEF Sums
      <3> QED
        BY <3>2
    <2> HIDE DEF next
    <2>3. h \in [0 .. m + 1 -> Nat]
      <3> SUFFICES ASSUME NEW n \in 0 .. m + 1 PROVE (IF n = m + 1 THEN next ELSE g[n]) \in Nat
        OBVIOUS
      <3>1. n # m + 1 => n \in 0 .. m
        OBVIOUS
      <3> QED
        BY <2>1, <2>2, <3>1 DEF Sums
    <2>4. ASSUME NEW n \in 0 .. m + 1
          PROVE  h[n] = IF n = 0 THEN 0 ELSE h[n - 1] + w[n - 1]
      <3>1. CASE n = m + 1
        <4>1. n - 1 = m /\ m \in 0 .. m + 1 /\ m # m + 1 /\ n # 0
          BY <3>1
        <4>2. h[n] = next /\ h[n - 1] = g[m]
          BY <3>1, <4>1
        <4> QED
          BY <4>1, <4>2 DEF next
      <3>2. CASE n # m + 1
        <4>1. n \in 0 .. m /\ (n # 0 => n - 1 \in 0 .. m + 1 /\ n - 1 # m + 1)
          BY <3>2
        <4>2. h[n] = g[n] /\ (n # 0 => h[n - 1] = g[n - 1])
          BY <3>2, <4>1
        <4> QED
          BY <2>1, <4>1, <4>2 DEF Sums
      <3> QED
        BY <3>1, <3>2
    <2> HIDE DEF h
    <2>5. Sums(w, h, m + 1)
      BY <2>3, <2>4 DEF Sums
    <2> QED
      BY <2>5
  <1> HIDE DEF Good
  <1>3. Nat \subseteq Good
    BY <1>1, <1>2, InductionOnNat
  <1>4. \E g : Sums(w, g, size)
    BY <1>3 DEF Good
  <1>5. PICK g : Sums(w, g, size)
    BY <1>4
  <1>6. g = [n \in 0 .. size |-> IF n = 0 THEN 0 ELSE g[n - 1] + w[n - 1]]
    BY <1>5 DEF Sums
  <1> QED
    BY <1>6

\* SumOf adds the bytes one by one, and each weighs less than a word.
LEMMA SumsAre ==
    ASSUME NEW bytes \in Packets
    PROVE  /\ C!SumOf(bytes)[0] = 0
           /\ \A n \in 0 .. LENGTH_MOD - 1 :
                 C!SumOf(bytes)[n + 1] = C!SumOf(bytes)[n] + bytes[n] * C!ByteWeight(n)
           /\ \A n \in 0 .. LENGTH_MOD : C!SumOf(bytes)[n] \in 0 .. n * (C!WORD - BYTE)
  <1> DEFINE last == LENGTH_MOD
             d == C!WORD - BYTE
             w == [n \in 0 .. last - 1 |-> bytes[n] * C!ByteWeight(n)]
             body(f, n) == IF n = 0 THEN 0 ELSE f[n - 1] + bytes[n - 1] * C!ByteWeight(n - 1)
             total == CHOOSE f : f = [n \in 0 .. last |-> body(f, n)]
  <1>1. bytes \in [0 .. last - 1 -> 0 .. BYTE - 1] /\ last \in Nat \ {0} /\ BYTE \in Nat /\ BYTE >= 8
        /\ d \in Nat
    BY WidthsFit, UnitsAssumption DEF C!ChecksumAssumption
  <1>2. ASSUME NEW n \in 0 .. last - 1 PROVE bytes[n] * C!ByteWeight(n) \in 0 .. d
    <2>1. bytes[n] \in 0 .. BYTE - 1
      BY <1>1
    <2>2. BYTE * bytes[n] <= BYTE * (BYTE - 1) /\ BYTE * (BYTE - 1) = d
      <3>1. BYTE \in Nat \ {0} /\ bytes[n] \in Int /\ BYTE - 1 \in Int /\ bytes[n] <= BYTE - 1
        BY <1>1, <2>1
      <3>2. BYTE * bytes[n] <= BYTE * (BYTE - 1)
        BY <3>1, ProductOrder
      <3>3. BYTE * (BYTE - 1) = BYTE * BYTE - BYTE
        BY <1>1
      <3> QED
        BY <3>2, <3>3 DEF C!WORD
    <2>3. bytes[n] <= BYTE * bytes[n] /\ bytes[n] * BYTE = BYTE * bytes[n] /\ BYTE * bytes[n] \in Nat
      BY <1>1, <2>1
    <2> HIDE DEF d
    <2>4. CASE n % 2 = 0
      BY <1>1, <2>2, <2>3, <2>4 DEF C!ByteWeight
    <2>5. CASE n % 2 # 0
      <3>1. bytes[n] * C!ByteWeight(n) = bytes[n]
        BY <2>1, <2>5 DEF C!ByteWeight
      <3> QED
        BY <1>1, <2>1, <2>2, <2>3, <3>1
    <2> QED
      BY <2>4, <2>5
  <1>3. w \in [0 .. last - 1 -> Nat]
    BY <1>1, <1>2
  <1>4. PICK g : g = [n \in 0 .. last |-> IF n = 0 THEN 0 ELSE g[n - 1] + w[n - 1]]
    BY <1>1, <1>3, SumsExist
  <1>5. ASSUME NEW n \in 0 .. last
        PROVE  (IF n = 0 THEN 0 ELSE g[n - 1] + w[n - 1]) = body(g, n)
    <2>1. n # 0 => n - 1 \in 0 .. last - 1
      BY <1>1
    <2> QED
      BY <2>1
  <1>6. g = [n \in 0 .. last |-> body(g, n)]
    BY <1>4, <1>5
  <1>7. total = [n \in 0 .. last |-> body(total, n)]
    BY <1>6
  <1>8. C!SumOf(bytes) = total
    BY DEF C!SumOf
  <1> HIDE DEF total, d
  <1>9. total[0] = 0
    BY <1>1, <1>7
  <1>10. ASSUME NEW n \in 0 .. last - 1 PROVE total[n + 1] = total[n] + bytes[n] * C!ByteWeight(n)
    <2>1. n + 1 \in 0 .. last /\ n + 1 # 0 /\ (n + 1) - 1 = n
      BY <1>1
    <2>2. total[n + 1] = body(total, n + 1)
      BY <1>7, <2>1
    <2> QED
      BY <2>1, <2>2
  <1> DEFINE Good == {n \in Nat : n <= last => total[n] \in 0 .. n * d}
  <1>11. 0 \in Good
    BY <1>1, <1>9
  <1>12. ASSUME NEW n \in Nat, n \in Good PROVE n + 1 \in Good
    <2> SUFFICES ASSUME n + 1 <= last PROVE total[n + 1] \in 0 .. (n + 1) * d
      OBVIOUS
    <2>1. n \in 0 .. last - 1 /\ total[n] \in 0 .. n * d
      BY <1>1, <1>12
    <2>2. bytes[n] * C!ByteWeight(n) \in 0 .. d /\ total[n + 1] = total[n] + bytes[n] * C!ByteWeight(n)
      BY <1>2, <1>10, <2>1
    <2>3. (n + 1) * d = n * d + d /\ n * d \in Nat
      BY <1>1
    <2> HIDE DEF Good
    <2> QED
      BY <1>1, <2>1, <2>2, <2>3
  <1> HIDE DEF Good
  <1>13. Nat \subseteq Good
    BY <1>11, <1>12, InductionOnNat
  <1>14. \A n \in 0 .. last : total[n] \in 0 .. n * d
    BY <1>1, <1>13 DEF Good
  <1> QED
    BY <1>8, <1>9, <1>10, <1>14 DEF d
\* What the loop starts from.
Start(c) ==
    IF C!HasPseudoHeader(c.function) THEN (c.length + C!Protocol[c.function]) % C!WORD ELSE 0

\* A number that is what the code should add up, up to the known error and to
\* multiples of the largest word, which folding takes away.
Congruent(c, n) ==
    /\ n \in Nat
    /\ \E carries \in 0 .. C!CarriesAtStake(c) : \E j \in Int : C!TotalOf(c) + C!Beyond(c) - carries = n + (C!WORD - 1) * j
    /\ C!CarriesAtStake(c) = 0 => (n = 0 <=> C!TotalOf(c) + C!Beyond(c) = 0)

ChecksumCalls == [function : {"udp", "tcp", "ip", "icmp"}, length : 0 .. LENGTH_MOD - 1,
                  packet : Packets, src : Addresses, dest : Addresses]

\* The inductive invariant: the sum so far, by the place in the function.
SumInv ==
    /\ c_pc \in {"idle", "words", "addresses", "fold", "done"}
    /\ c_pc # "idle" => c_call \in ChecksumCalls
    /\ c_pc = "words" =>
          /\ c_i \in 0 .. LENGTH_MOD - 1 /\ c_i % 2 = 0
          /\ c_call.length # LENGTH_MOD - 1 =>
                c_i <= c_call.length + 1 /\ c_sum = Start(c_call) + C!SumOf(c_call.packet)[c_i]
    /\ c_pc \in {"addresses", "fold", "done"} => c_call.length # LENGTH_MOD - 1
    /\ c_pc = "addresses" =>
          /\ C!HasPseudoHeader(c_call.function)
          /\ c_sum = Start(c_call) + C!SumOf(c_call.packet)[c_call.length] + C!Beyond(c_call)
    /\ c_pc = "fold" => Congruent(c_call, c_sum)
    /\ c_pc = "done" => c_result \in 0 .. C!WORD - 1 /\ Congruent(c_call, C!WORD - 1 - c_result)

\* The numbers that a call is about.
LEMMA CallNumbers ==
    ASSUME NEW c \in ChecksumCalls
    PROVE  /\ c.length \in 0 .. LENGTH_MOD - 1 /\ c.packet \in Packets
           /\ \A n \in 0 .. LENGTH_MOD - 1 : c.packet[n] \in 0 .. BYTE - 1
           /\ Start(c) \in 0 .. C!WORD - 1
           /\ C!Wraps(c) \in 0 .. 1
           /\ C!HasPseudoHeader(c.function) =>
                 c.length + C!Protocol[c.function] = C!WORD * C!Wraps(c) + Start(c)
           /\ C!Beyond(c) \in 0 .. C!WORD - 1
           /\ c.length % 2 = 1 => C!Beyond(c) = c.packet[c.length] * BYTE + c.packet[c.length]
           /\ \A a \in {c.src, c.dest} :
                 /\ C!Octets(a) \in 0 .. 2 * C!WORD - 2 /\ C!Signs(a) \in 0 .. 2
                 /\ C!SignedAddress(a) = C!Octets(a) - C!WORD * C!Signs(a)
  <1>1. BYTE \in Nat /\ BYTE >= 8 /\ C!WORD \in Nat /\ LENGTH_MOD \in Nat \ {0}
    BY WidthsFit
  <1>2. c.length \in 0 .. LENGTH_MOD - 1 /\ c.packet \in Packets /\ c.src \in Addresses /\ c.dest \in Addresses
        /\ c.function \in {"udp", "tcp", "ip", "icmp"}
    BY DEF ChecksumCalls
  <1>3. \A n \in 0 .. LENGTH_MOD - 1 : c.packet[n] \in 0 .. BYTE - 1
    BY <1>2, UnitsAssumption DEF C!ChecksumAssumption
  <1>4. /\ Start(c) \in 0 .. C!WORD - 1 /\ C!Wraps(c) \in 0 .. 1
        /\ C!HasPseudoHeader(c.function) =>
              c.length + C!Protocol[c.function] = C!WORD * C!Wraps(c) + Start(c)
    <2>1. CASE ~ C!HasPseudoHeader(c.function)
      BY <1>1, <2>1, WidthsFit DEF Start, C!Wraps
    <2>2. CASE C!HasPseudoHeader(c.function)
      <3> DEFINE n == c.length + C!Protocol[c.function]
                 q == n \div C!WORD
                 r == n % C!WORD
      <3>1. C!Protocol[c.function] \in 6 .. 17
        BY <2>2 DEF C!Protocol, C!HasPseudoHeader
      <3>2. n \in Nat /\ n <= C!WORD + 16 /\ C!WORD >= 64 /\ C!WORD \in Nat \ {0}
        BY <1>1, <1>2, <3>1, WidthsFit
      <3>3. Start(c) = r /\ C!Wraps(c) = q
        BY <2>2 DEF Start, C!Wraps
      <3> HIDE DEF n
      <3>4. q \in Int /\ r \in 0 .. C!WORD - 1 /\ n = C!WORD * q + r
        BY <3>2, DivMod
      <3> HIDE DEF q, r
      <3>5. q >= 0
        <4> SUFFICES ASSUME q <= - 1 PROVE FALSE
          BY <3>4
        <4>1. C!WORD * q <= C!WORD * (- 1)
          BY <3>2, <3>4, ProductOrder
        <4> QED
          BY <3>2, <3>4, <4>1
      <3>6. q <= 1
        <4> SUFFICES ASSUME 2 <= q PROVE FALSE
          BY <3>4
        <4>1. C!WORD * 2 <= C!WORD * q
          BY <3>2, <3>4, ProductOrder
        <4> QED
          BY <3>2, <3>4, <4>1
      <3>7. C!HasPseudoHeader(c.function) => c.length + C!Protocol[c.function] = C!WORD * q + r
        BY <3>4 DEF n
      <3> QED
        BY <3>3, <3>4, <3>5, <3>6, <3>7
    <2> QED
      BY <2>1, <2>2
  <1>5. ASSUME NEW x \in 0 .. BYTE - 1
        PROVE  /\ x * (BYTE + 1) = x * BYTE + x /\ x * BYTE + x \in 0 .. C!WORD - 1
               /\ x * BYTE \in 0 .. C!WORD - BYTE
    <2>1. x * (BYTE + 1) = x * BYTE + x /\ x * BYTE = BYTE * x /\ BYTE * x \in Nat
      BY <1>1
    <2>2. BYTE * x <= BYTE * (BYTE - 1)
      BY <1>1, ProductOrder
    <2>3. BYTE * (BYTE - 1) = C!WORD - BYTE
      BY <1>1 DEF C!WORD
    <2> QED
      BY <1>1, <2>1, <2>2, <2>3
  <1>6. C!Beyond(c) \in 0 .. C!WORD - 1 /\ (c.length % 2 = 1 => C!Beyond(c) = c.packet[c.length] * BYTE + c.packet[c.length])
    <2>1. CASE c.length % 2 = 1
      BY <1>2, <1>3, <1>5, <2>1 DEF C!Beyond
    <2>2. CASE c.length % 2 # 1
      BY <1>1, <2>2, WidthsFit DEF C!Beyond
    <2> QED
      BY <2>1, <2>2
  <1>7. ASSUME NEW a \in Addresses
        PROVE  /\ C!Octets(a) \in 0 .. 2 * C!WORD - 2 /\ C!Signs(a) \in 0 .. 2
               /\ C!SignedAddress(a) = C!Octets(a) - C!WORD * C!Signs(a)
    <2>1. a[0] \in 0 .. BYTE - 1 /\ a[1] \in 0 .. BYTE - 1 /\ a[2] \in 0 .. BYTE - 1 /\ a[3] \in 0 .. BYTE - 1
      BY UnitsAssumption DEF C!ChecksumAssumption
    <2>2. a[0] * BYTE \in 0 .. C!WORD - BYTE /\ a[2] * BYTE \in 0 .. C!WORD - BYTE
      BY <1>5, <2>1
    <2>3. (a[0] + a[2]) * BYTE = a[0] * BYTE + a[2] * BYTE
      BY <1>1, <2>1
    <2>4. C!Octets(a) = a[0] * BYTE + a[2] * BYTE + a[1] + a[3]
      BY <2>3 DEF C!Octets
    <2> DEFINE p == a[0] * BYTE
               q == a[2] * BYTE
               s == IF a[0] >= BYTE \div 2 THEN 1 ELSE 0
               t == IF a[2] >= BYTE \div 2 THEN 1 ELSE 0
    <2>5. C!Octets(a) = p + q + a[1] + a[3] /\ C!Signs(a) = s + t
      BY <2>4 DEF C!Signs
    <2>6. C!SignedAddress(a) = (p + a[1] - (IF s = 1 THEN C!WORD ELSE 0)) + (q + a[3] - (IF t = 1 THEN C!WORD ELSE 0))
      BY DEF C!SignedAddress, C!SignedWord
    <2>7. s \in {0, 1} /\ t \in {0, 1} /\ p \in 0 .. C!WORD - BYTE /\ q \in 0 .. C!WORD - BYTE
      BY <2>2
    <2> HIDE DEF p, q, s, t
    <2>8. C!Octets(a) \in 0 .. 2 * C!WORD - 2
      BY <1>1, <2>1, <2>5, <2>7
    <2> DEFINE u == IF s = 1 THEN C!WORD ELSE 0
               v == IF t = 1 THEN C!WORD ELSE 0
    <2>9. C!WORD * C!Signs(a) = u + v /\ u \in Int /\ v \in Int
      <3>1. C!WORD * C!Signs(a) = C!WORD * s + C!WORD * t
        BY <1>1, <2>5, <2>7
      <3>2. C!WORD * s = u /\ C!WORD * t = v /\ u \in Int /\ v \in Int
        BY <1>1, <2>7
      <3> QED
        BY <3>1, <3>2
    <2>10. C!SignedAddress(a) = C!Octets(a) - C!WORD * C!Signs(a)
      <3>1. C!SignedAddress(a) = (p + a[1] - u) + (q + a[3] - v)
        BY <2>6
      <3> HIDE DEF u, v
      <3>2. p \in Int /\ q \in Int /\ a[1] \in Int /\ a[3] \in Int
        BY <1>1, <2>1, <2>7
      <3> QED
        BY <2>5, <2>9, <3>1, <3>2
    <2> QED
      BY <2>5, <2>7, <2>8, <2>10
  <1> QED
    BY <1>2, <1>3, <1>4, <1>6, <1>7

\* A sum of words leaves room in a long word for the padding and the addresses.
LEMMA SumLeavesRoom ==
    ASSUME NEW c \in ChecksumCalls, NEW n \in 0 .. LENGTH_MOD - 1
    PROVE  LET x == Start(c) + C!SumOf(c.packet)[n] IN x \in Nat /\ x + 6 * C!WORD < C!LONG
  <1>1. C!WORD \in Nat /\ C!LONG \in Nat /\ LENGTH_MOD \in Nat \ {0} /\ LENGTH_MOD <= C!WORD
        /\ n \in 0 .. C!WORD - 1
    BY WidthsFit
  <1>2. n * (C!WORD - BYTE) \in Nat /\ n * (C!WORD - BYTE) + 7 * C!WORD + 17 < C!LONG
    BY <1>1, WidthsFit
  <1>3. C!SumOf(c.packet)[n] \in 0 .. n * (C!WORD - BYTE)
    BY <1>1, SumsAre, CallNumbers
  <1>4. Start(c) \in 0 .. C!WORD - 1
    BY CallNumbers
  <1> QED
    BY <1>1, <1>2, <1>3, <1>4

LEMMA TotalIsNumber ==
    ASSUME NEW c \in ChecksumCalls
    PROVE  C!TotalOf(c) \in Int
  <1>1. c.length \in 0 .. LENGTH_MOD - 1 /\ c.packet \in Packets /\ Start(c) \in 0 .. C!WORD - 1
        /\ \A a \in {c.src, c.dest} : C!Octets(a) \in 0 .. 2 * C!WORD - 2
    BY CallNumbers
  <1>2. LENGTH_MOD \in Nat /\ c.length \in 0 .. LENGTH_MOD /\ C!WORD \in Nat
    BY <1>1, WidthsFit
  <1> DEFINE total == C!SumOf(c.packet)[c.length]
  <1>3. total \in 0 .. c.length * (C!WORD - BYTE)
    BY <1>1, <1>2, SumsAre
  <1>4. total \in Int
    BY <1>3
  <1> HIDE DEF total
  <1>5. CASE C!HasPseudoHeader(c.function)
    <2>1. c.length \in Int
      BY <1>2
    <2>2. c.function \in {"udp", "tcp", "ip", "icmp"}
      BY DEF ChecksumCalls
    <2>3. C!Protocol[c.function] \in Int
      BY <2>2 DEF C!Protocol
    <2>4. C!Octets(c.src) \in Int /\ C!Octets(c.dest) \in Int
      BY <1>1, <1>2
    <2>5. C!TotalOf(c) = total + (c.length + C!Protocol[c.function] + C!Octets(c.src) + C!Octets(c.dest))
      BY <1>5 DEF C!TotalOf, total
    <2> QED
      BY <1>4, <2>1, <2>3, <2>4, <2>5
  <1>6. CASE ~ C!HasPseudoHeader(c.function)
    <2>1. C!TotalOf(c) = total + 0
      BY <1>6 DEF C!TotalOf, total
    <2> QED
      BY <1>4, <2>1
  <1> QED
    BY <1>5, <1>6

LEMMA CongruentIf ==
    ASSUME NEW c \in ChecksumCalls, NEW n \in Nat,
           NEW x, x = C!TotalOf(c) + C!Beyond(c),
           NEW carries \in 0 .. C!CarriesAtStake(c), NEW j \in Int, x - carries = n + (C!WORD - 1) * j,
           C!CarriesAtStake(c) = 0 => (n = 0 <=> x = 0)
    PROVE  Congruent(c, n)
  <1>1. C!TotalOf(c) + C!Beyond(c) - carries = n + (C!WORD - 1) * j
    <2>1. C!TotalOf(c) \in Int /\ C!Beyond(c) \in 0 .. C!WORD - 1 /\ C!WORD \in Nat
      BY TotalIsNumber, CallNumbers, WidthsFit
    <2> DEFINE total == C!TotalOf(c)
               b     == C!Beyond(c)
               y     == n + (C!WORD - 1) * j
    <2>2. total \in Int /\ b \in Int /\ carries \in Int /\ x = total + b /\ x - carries = y
      BY <2>1
    <2> HIDE DEF total, b, y
    <2>3. total + b - carries = y
      BY <2>2
    <2> QED
      BY <2>3 DEF total, b, y
  <1>2. \E h \in 0 .. C!CarriesAtStake(c) : \E l \in Int : C!TotalOf(c) + C!Beyond(c) - h = n + (C!WORD - 1) * l
    BY <1>1, Zenon
  <1> QED
    BY <1>2 DEF Congruent

LEMMA CallKeeps ==
    ASSUME SumInv, C!Calls
    PROVE  SumInv'
  <1>1. PICK f \in DOMAIN C!Protocol, len \in 0 .. LENGTH_MOD - 1,
             bytes \in Packets, src \in Addresses, dest \in Addresses :
                C!Call(f, len, bytes, src, dest)
    BY DEF C!Calls
  <1>2. c_call' \in ChecksumCalls /\ c_pc' = "words" /\ c_i' = 0 /\ c_sum' = Start(c_call')
        /\ c_call'.packet = bytes
    BY <1>1 DEF C!Call, ChecksumCalls, Start, C!Protocol
  <1>3. C!SumOf(bytes)[0] = 0 /\ LENGTH_MOD \in Nat \ {0} /\ Start(c_call') \in Nat
    BY <1>2, SumsAre, CallNumbers, WidthsFit
  <1>4. c_sum' = Start(c_call') + C!SumOf(c_call'.packet)[0]
    BY <1>2, <1>3
  <1>5. 0 <= c_call'.length + 1
    BY <1>2 DEF ChecksumCalls
  <1> QED
    BY <1>2, <1>3, <1>4, <1>5 DEF SumInv

LEMMA AddWordKeeps ==
    ASSUME SumInv, C!AddWord
    PROVE  SumInv'
  <1>1. /\ c_pc = "words" /\ c_pc' = "words" /\ c_call' = c_call /\ c_call \in ChecksumCalls
        /\ c_i \in 0 .. LENGTH_MOD - 1 /\ c_i % 2 = 0 /\ c_i < c_call.length
        /\ c_i' = (c_i + 2) % LENGTH_MOD
        /\ c_sum' = (c_sum + c_call.packet[c_i] * BYTE + c_call.packet[c_i + 1]) % C!LONG
    BY DEF SumInv, C!AddWord, C!More
  <1>2. LENGTH_MOD \in Nat \ {0} /\ LENGTH_MOD % 2 = 0 /\ c_call.length \in 0 .. LENGTH_MOD - 1
        /\ C!WORD \in Nat /\ C!LONG \in Nat \ {0} /\ BYTE \in Nat
    BY <1>1, WidthsFit, CallNumbers
  <1>3. c_i + 2 <= LENGTH_MOD
    BY <1>1, <1>2
  <1>4. c_i' \in 0 .. LENGTH_MOD - 1 /\ c_i' % 2 = 0 /\ (c_i + 2 < LENGTH_MOD => c_i' = c_i + 2)
    <2>1. CASE c_i + 2 = LENGTH_MOD
      <3>1. LENGTH_MOD % LENGTH_MOD = 0
        BY <1>2
      <3> QED
        BY <1>1, <1>2, <2>1, <3>1
    <2>2. CASE c_i + 2 # LENGTH_MOD
      <3>1. c_i + 2 \in 0 .. LENGTH_MOD - 1
        BY <1>1, <1>2, <1>3, <2>2
      <3>2. (c_i + 2) % LENGTH_MOD = c_i + 2
        BY <1>2, <3>1, ModSmall
      <3> QED
        BY <1>1, <1>2, <3>1, <3>2
    <2> QED
      BY <2>1, <2>2
  <1>5. ASSUME c_call.length # LENGTH_MOD - 1
        PROVE  c_i' <= c_call.length + 1 /\ c_sum' = Start(c_call) + C!SumOf(c_call.packet)[c_i']
    <2> DEFINE total == C!SumOf(c_call.packet)
               b == c_call.packet[c_i] * BYTE + c_call.packet[c_i + 1]
    <2>1. c_sum = Start(c_call) + total[c_i]
      BY <1>1, <1>5 DEF SumInv
    <2>2. c_i + 2 <= c_call.length + 1 /\ c_i + 2 \in 0 .. LENGTH_MOD - 1 /\ c_i' = c_i + 2
      <3> HIDE DEF total, b
      <3>1. c_i \in Nat /\ c_call.length \in Nat /\ c_i < c_call.length /\ c_call.length < LENGTH_MOD - 1
        BY <1>1, <1>2, <1>5
      <3>2. c_i + 2 <= c_call.length + 1 /\ c_i + 2 < LENGTH_MOD
        BY <1>2, <3>1
      <3> QED
        BY <1>2, <1>4, <3>1, <3>2
    <2>3. total[c_i + 2] = total[c_i] + b
      <3>1. c_i \in 0 .. LENGTH_MOD - 1 /\ c_i + 1 \in 0 .. LENGTH_MOD - 1 /\ (c_i + 1) + 1 = c_i + 2
            /\ (c_i + 1) % 2 = 1
        BY <1>1, <1>2, <2>2
      <3>2. c_call.packet \in Packets /\ c_call.packet[c_i] \in Int /\ c_call.packet[c_i + 1] \in Int
        BY <1>1, <3>1, CallNumbers
      <3>3. total[c_i + 1] = total[c_i] + c_call.packet[c_i] * C!ByteWeight(c_i)
        BY <3>1, <3>2, SumsAre
      <3>4. total[c_i + 2] = total[c_i + 1] + c_call.packet[c_i + 1] * C!ByteWeight(c_i + 1)
        BY <3>1, <3>2, SumsAre
      <3>5. C!ByteWeight(c_i) = BYTE /\ C!ByteWeight(c_i + 1) = 1
        BY <1>1, <3>1 DEF C!ByteWeight
      <3>6. total[c_i] \in Int
        <4>1. c_i \in 0 .. LENGTH_MOD
          BY <1>1, <1>2
        <4>2. total[c_i] \in 0 .. c_i * (C!WORD - BYTE)
          BY <3>2, <4>1, SumsAre
        <4> QED
          BY <4>2
      <3>7. c_call.packet[c_i] * BYTE \in Int
        BY <1>2, <3>2
      <3> QED
        BY <3>2, <3>3, <3>4, <3>5, <3>6, <3>7
    <2>4. Start(c_call) + total[c_i + 2] \in 0 .. C!LONG - 1
      <3>1. Start(c_call) + total[c_i + 2] \in Nat /\ Start(c_call) + total[c_i + 2] + 6 * C!WORD < C!LONG
        BY <1>1, <2>2, SumLeavesRoom
      <3> QED
        BY <1>2, <3>1
    <2>5. c_sum + c_call.packet[c_i] * BYTE + c_call.packet[c_i + 1] = Start(c_call) + total[c_i + 2]
      <3>1. c_call.packet[c_i] \in Int /\ c_call.packet[c_i + 1] \in Int /\ Start(c_call) \in Int
        BY <1>1, <2>2, CallNumbers, <1>2
      <3>2. total[c_i] \in Int
        <4>1. c_i \in 0 .. LENGTH_MOD /\ c_call.packet \in Packets
          BY <1>1, <1>2, CallNumbers
        <4>2. total[c_i] \in 0 .. c_i * (C!WORD - BYTE)
          BY <4>1, SumsAre
        <4> QED
          BY <4>2
      <3>3. c_call.packet[c_i] * BYTE \in Int
        BY <1>2, <3>1
      <3> QED
        BY <2>1, <2>3, <3>1, <3>2, <3>3
    <2> HIDE DEF total, b
    <2>6. c_sum' = Start(c_call) + total[c_i + 2]
      BY <1>1, <1>2, <2>4, <2>5, ModSmall
    <2> QED
      BY <2>2, <2>6 DEF total
  <1> QED
    BY <1>1, <1>4, <1>5 DEF SumInv

\* The last word: where the loop stops, and the byte after data of odd length.
LEMMA AddPaddingKeeps ==
    ASSUME SumInv, C!AddPadding
    PROVE  SumInv'
  <1>1. /\ c_pc = "words" /\ c_call' = c_call /\ c_call \in ChecksumCalls
        /\ c_i \in 0 .. LENGTH_MOD - 1 /\ c_i % 2 = 0 /\ ~ (c_i < c_call.length)
        /\ c_pc' = IF C!HasPseudoHeader(c_call.function) THEN "addresses" ELSE "fold"
        /\ c_sum' = IF c_call.length % 2 = 1 THEN (c_sum + c_call.packet[c_call.length] * BYTE) % C!LONG ELSE c_sum
    BY DEF SumInv, C!AddPadding, C!More
  <1>2. LENGTH_MOD \in Nat \ {0} /\ LENGTH_MOD % 2 = 0 /\ c_call.length \in 0 .. LENGTH_MOD - 1
        /\ C!WORD \in Nat /\ C!LONG \in Nat \ {0} /\ BYTE \in Nat
    BY <1>1, WidthsFit, CallNumbers
  <1>3. c_call.length # LENGTH_MOD - 1
    BY <1>1, <1>2
  <1> DEFINE total == C!SumOf(c_call.packet)[c_call.length]
             b == c_call.packet[c_call.length]
  <1>4. c_i <= c_call.length + 1 /\ c_sum = Start(c_call) + C!SumOf(c_call.packet)[c_i]
    BY <1>1, <1>3 DEF SumInv
  <1>5. /\ total \in Int /\ b \in Int /\ b * BYTE \in Nat /\ Start(c_call) \in Int
        /\ C!Beyond(c_call) \in 0 .. C!WORD - 1 /\ c_call.packet \in Packets
        /\ Start(c_call) + total \in Nat /\ Start(c_call) + total + 6 * C!WORD < C!LONG
    <2>1. c_call.packet \in Packets /\ b \in 0 .. BYTE - 1 /\ Start(c_call) \in Int
          /\ C!Beyond(c_call) \in 0 .. C!WORD - 1
      BY <1>1, <1>2, CallNumbers
    <2>2. total \in 0 .. c_call.length * (C!WORD - BYTE)
      <3>1. c_call.length \in 0 .. LENGTH_MOD
        BY <1>2
      <3> QED
        BY <2>1, <3>1, SumsAre
    <2>3. Start(c_call) + total \in Nat /\ Start(c_call) + total + 6 * C!WORD < C!LONG
      BY <1>1, <1>2, SumLeavesRoom
    <2>4. b * BYTE \in Nat
      BY <1>2, <2>1
    <2> QED
      BY <2>1, <2>2, <2>3, <2>4
  <1>6. c_sum' = Start(c_call) + total + C!Beyond(c_call)
    <2>1. CASE c_call.length % 2 = 1
      <3>1. c_i = c_call.length + 1
        BY <1>1, <1>2, <1>4, <2>1
      <3>2. C!SumOf(c_call.packet)[c_call.length + 1] = total + b
        <4>1. C!SumOf(c_call.packet)[c_call.length + 1] = total + b * C!ByteWeight(c_call.length)
          BY <1>2, <1>5, SumsAre
        <4>2. C!ByteWeight(c_call.length) = 1
          BY <2>1 DEF C!ByteWeight
        <4> QED
          BY <1>5, <4>1, <4>2
      <3>3. C!Beyond(c_call) = b * BYTE + b
        BY <1>1, <2>1, CallNumbers
      <3> HIDE DEF total, b
      <3>4. c_sum + b * BYTE = Start(c_call) + total + C!Beyond(c_call)
        BY <1>4, <1>5, <3>1, <3>2, <3>3
      <3>5. c_sum + b * BYTE \in 0 .. C!LONG - 1
        BY <1>2, <1>5, <3>4
      <3>6. c_sum' = (c_sum + b * BYTE) % C!LONG
        BY <1>1, <2>1 DEF b
      <3> QED
        BY <1>2, <3>4, <3>5, <3>6, ModSmall
    <2>2. CASE c_call.length % 2 # 1
      <3>1. c_i = c_call.length /\ C!Beyond(c_call) = 0
        BY <1>1, <1>2, <1>4, <2>2 DEF C!Beyond
      <3>2. c_sum' = Start(c_call) + total
        BY <1>1, <1>4, <2>2, <3>1
      <3> QED
        BY <1>5, <3>1, <3>2
    <2> QED
      BY <2>1, <2>2
  <1>7. CASE C!HasPseudoHeader(c_call.function)
    <2>1. c_pc' = "addresses"
      BY <1>1, <1>7
    <2> QED
      BY <1>1, <1>3, <1>6, <1>7, <2>1 DEF SumInv
  <1>8. CASE ~ C!HasPseudoHeader(c_call.function)
    <2>1. c_pc' = "fold" /\ Start(c_call) = 0 /\ C!CarriesAtStake(c_call) = 0 /\ C!TotalOf(c_call) = total + 0
      BY <1>1, <1>8 DEF Start, C!CarriesAtStake, C!SignsOf, C!Wraps, C!TotalOf
    <2>2. c_sum' \in Nat /\ C!TotalOf(c_call) + C!Beyond(c_call) = c_sum'
      BY <1>5, <1>6, <2>1
    <2>3. Congruent(c_call, c_sum')
      <3>1. c_sum' - 0 = c_sum' + (C!WORD - 1) * 0
        <4>1. (C!WORD - 1) * 0 = 0
          BY <1>2
        <4> QED
          BY <2>2, <4>1
      <3>2. 0 \in Int /\ 0 \in 0 .. C!CarriesAtStake(c_call)
        BY <2>1
      <3> QED
        BY <1>1, <2>2, <3>1, <3>2, CongruentIf
    <2> QED
      BY <1>1, <1>3, <2>1, <2>3 DEF SumInv
  <1> QED
    BY <1>7, <1>8

\* A sign takes a word away, which costs one carry, and so does a length that
\* wraps; if the uint32_t wraps below
\* zero, the wrap gives one of these carries back.
LEMMA AddAddressesKeeps ==
    ASSUME SumInv, C!AddAddresses
    PROVE  SumInv'
  <1>1. /\ c_pc' = "fold" /\ c_call' = c_call /\ c_call \in ChecksumCalls
        /\ c_call.length # LENGTH_MOD - 1 /\ C!HasPseudoHeader(c_call.function)
        /\ c_sum = Start(c_call) + C!SumOf(c_call.packet)[c_call.length] + C!Beyond(c_call)
        /\ c_sum' = (c_sum + C!SignedAddress(c_call.src) + C!SignedAddress(c_call.dest)) % C!LONG
    BY DEF SumInv, C!AddAddresses
  <1> DEFINE total == C!SumOf(c_call.packet)[c_call.length]
             x == C!TotalOf(c_call) + C!Beyond(c_call)
             w == C!Wraps(c_call)
             s == C!CarriesAtStake(c_call)
  <1>2. /\ C!WORD \in Nat /\ C!WORD >= 64 /\ C!LONG \in Nat \ {0} /\ C!LONG = (C!WORD - 1) * (C!WORD + 1) + 1
    BY WidthsFit
  <1>3. /\ Start(c_call) + total \in Nat /\ Start(c_call) + total + 6 * C!WORD < C!LONG
        /\ C!Beyond(c_call) \in 0 .. C!WORD - 1 /\ w \in 0 .. 1
        /\ c_call.length + C!Protocol[c_call.function] = C!WORD * w + Start(c_call)
        /\ C!Octets(c_call.src) \in 0 .. 2 * C!WORD - 2 /\ C!Octets(c_call.dest) \in 0 .. 2 * C!WORD - 2
        /\ C!Signs(c_call.src) \in 0 .. 2 /\ C!Signs(c_call.dest) \in 0 .. 2
        /\ C!SignedAddress(c_call.src) = C!Octets(c_call.src) - C!WORD * C!Signs(c_call.src)
        /\ C!SignedAddress(c_call.dest) = C!Octets(c_call.dest) - C!WORD * C!Signs(c_call.dest)
    <2>1. c_call.length \in 0 .. LENGTH_MOD - 1
      BY <1>1, CallNumbers
    <2> QED
      BY <1>1, <2>1, CallNumbers, SumLeavesRoom
  <1>4. s = C!Signs(c_call.src) + C!Signs(c_call.dest) + w
    BY <1>1 DEF C!CarriesAtStake, C!SignsOf
  <1>5. total \in Int /\ Start(c_call) \in Int
    <2>1. c_call.packet \in Packets /\ c_call.length \in 0 .. LENGTH_MOD - 1 /\ Start(c_call) \in 0 .. C!WORD - 1
      BY <1>1, CallNumbers
    <2>2. LENGTH_MOD \in Nat /\ c_call.length \in 0 .. LENGTH_MOD
      BY <2>1, WidthsFit
    <2>3. total \in 0 .. c_call.length * (C!WORD - BYTE)
      BY <2>1, <2>2, SumsAre
    <2> QED
      BY <2>1, <2>2, <2>3
  <1>6. x = total + Start(c_call) + C!WORD * w + C!Octets(c_call.src) + C!Octets(c_call.dest) + C!Beyond(c_call)
    <2>1. C!TotalOf(c_call) = total + (c_call.length + C!Protocol[c_call.function] + C!Octets(c_call.src) + C!Octets(c_call.dest))
      BY <1>1 DEF C!TotalOf
    <2>2. C!WORD * w + Start(c_call) = c_call.length + C!Protocol[c_call.function] /\ C!WORD * w \in Int
      BY <1>2, <1>3
    <2>3. C!Protocol[c_call.function] \in Int /\ c_call.length \in Int
      <3>1. c_call.length \in 0 .. LENGTH_MOD - 1
        BY <1>1, CallNumbers
      <3>2. c_call.function \in {"udp", "tcp", "ip", "icmp"}
        BY <1>1 DEF ChecksumCalls
      <3> QED
        BY <3>1, <3>2, WidthsFit DEF C!Protocol
    <2> HIDE DEF total, w
    <2> QED
      BY <1>3, <1>5, <2>1, <2>2, <2>3
  <1>7. x \in 0 .. C!LONG - 1 /\ s \in 0 .. 5
    <2>1. s \in 0 .. 5
      BY <1>3, <1>4
    <2> HIDE DEF total, x, s, w
    <2>2. x \in 0 .. C!LONG - 1
      <3>1. C!WORD * w \in 0 .. C!WORD
        <4>1. C!WORD * 0 = 0 /\ C!WORD * 1 = C!WORD
          BY <1>2
        <4>2. w = 0 \/ w = 1
          BY <1>3
        <4>3. CASE w = 0
          BY <1>2, <4>1, <4>3
        <4>4. CASE w = 1
          BY <1>2, <4>1, <4>4
        <4> QED
          BY <4>2, <4>3, <4>4
      <3> QED
        BY <1>2, <1>3, <1>5, <1>6, <3>1
    <2> QED
      BY <2>1, <2>2
  <1>8. /\ C!WORD * s = C!WORD * C!Signs(c_call.src) + C!WORD * C!Signs(c_call.dest) + C!WORD * w
        /\ C!WORD * w \in Int
        /\ C!WORD * C!Signs(c_call.src) \in Int /\ C!WORD * C!Signs(c_call.dest) \in Int
        /\ C!WORD * s \in 0 .. 5 * C!WORD /\ (C!WORD - 1) * s = C!WORD * s - s
        /\ (s = 0 => C!WORD * s = 0)
    <2>1. C!WORD * s = C!WORD * C!Signs(c_call.src) + C!WORD * C!Signs(c_call.dest) + C!WORD * w
          /\ C!WORD * C!Signs(c_call.src) \in Int /\ C!WORD * C!Signs(c_call.dest) \in Int
          /\ C!WORD * w \in Int
      <3> HIDE DEF s, w
      <3> DEFINE a == C!Signs(c_call.src)
                 b == C!Signs(c_call.dest)
      <3>1. a \in Int /\ b \in Int /\ w \in Int /\ s = a + b + w
        BY <1>3, <1>4
      <3> HIDE DEF a, b
      <3>2. C!WORD * s = C!WORD * a + C!WORD * b + C!WORD * w
            /\ C!WORD * a \in Int /\ C!WORD * b \in Int /\ C!WORD * w \in Int
        BY <1>2, <3>1
      <3> QED
        BY <3>2 DEF a, b
    <2> HIDE DEF s
    <2>2. C!WORD * s \in 0 .. 5 * C!WORD /\ (C!WORD - 1) * s = C!WORD * s - s /\ (s = 0 => C!WORD * s = 0)
      BY <1>2, <1>7
    <2> QED
      BY <2>1, <2>2
  <1>9. c_sum' = (x - C!WORD * s) % C!LONG
    <2> HIDE DEF total, x, s, w
    <2>1. c_sum + C!SignedAddress(c_call.src) + C!SignedAddress(c_call.dest) = x - C!WORD * s
      <3>1. c_sum = Start(c_call) + total + C!Beyond(c_call)
        BY <1>1 DEF total
      <3> QED
        BY <1>3, <1>5, <1>6, <1>8, <3>1
    <2> QED
      BY <1>1, <2>1
  <1> HIDE DEF total
  <1>10. Congruent(c_call, c_sum')
    <2>1. CASE x >= C!WORD * s
      <3> HIDE DEF x, s
      <3>1. x - C!WORD * s \in 0 .. C!LONG - 1
        BY <1>2, <1>7, <1>8, <2>1
      <3>2. c_sum' = x - C!WORD * s
        BY <1>2, <1>9, <3>1, ModSmall
      <3>3. x - s = c_sum' + (C!WORD - 1) * s
        BY <1>2, <1>7, <1>8, <3>2
      <3>4. c_sum' \in Nat /\ s \in 0 .. s /\ s \in Int /\ (s = 0 => c_sum' = x)
        BY <1>2, <1>7, <1>8, <3>1, <3>2
      <3>5. x = C!TotalOf(c_call) + C!Beyond(c_call) /\ s = C!CarriesAtStake(c_call)
        BY DEF x, s
      <3> QED
        BY <1>1, <3>3, <3>4, <3>5, CongruentIf
    <2>2. CASE x < C!WORD * s
      <3> DEFINE j == s - (C!WORD + 1)
      <3>1. (C!WORD - 1) * j = (C!WORD - 1) * s - (C!WORD - 1) * (C!WORD + 1)
        <4> HIDE DEF s
        <4>1. s \in Int
          BY <1>7
        <4> QED
          BY <1>2, <4>1
      <3> HIDE DEF x, s, j
      <3>2. 5 * C!WORD < C!LONG
        BY <1>2, <1>3
      <3>3. x - C!WORD * s + C!LONG \in 0 .. C!LONG - 1
        BY <1>2, <1>7, <1>8, <2>2, <3>2
      <3>4. c_sum' = x - C!WORD * s + C!LONG
        <4> DEFINE r == x - C!WORD * s + C!LONG
        <4>1. x - C!WORD * s = C!LONG * (- 1) + r /\ r \in 0 .. C!LONG - 1
          BY <1>2, <1>7, <1>8, <3>3
        <4> HIDE DEF r
        <4>2. (C!LONG * (- 1) + r) % C!LONG = r
          BY <1>2, <4>1, ModUnique
        <4> QED
          BY <1>9, <4>1, <4>2 DEF r
      <3>5. s # 0 /\ s - 1 \in 0 .. s /\ j \in Int
        BY <1>2, <1>7, <1>8, <2>2 DEF j
      <3>6. x - (s - 1) = c_sum' + (C!WORD - 1) * j
        <4> DEFINE p == (C!WORD - 1) * (C!WORD + 1)
        <4>1. p \in Int
          BY <1>2
        <4>2. C!LONG = p + 1 /\ (C!WORD - 1) * j = C!WORD * s - s - p
          BY <1>2, <1>8, <3>1
        <4> HIDE DEF p
        <4> QED
          BY <1>7, <1>8, <3>4, <4>1, <4>2
      <3>7. c_sum' \in Nat
        BY <1>2, <3>3, <3>4
      <3>8. x = C!TotalOf(c_call) + C!Beyond(c_call) /\ s = C!CarriesAtStake(c_call)
        BY DEF x, s
      <3> QED
        BY <1>1, <3>5, <3>6, <3>7, <3>8, CongruentIf
    <2> QED
      BY <1>2, <1>7, <1>8, <2>1, <2>2
  <1> QED
    BY <1>1, <1>10 DEF SumInv

\* Folding takes multiples of the largest word away, and never reaches zero.
LEMMA FoldKeeps ==
    ASSUME SumInv, C!Fold
    PROVE  SumInv'
  <1>1. c_pc = "fold" /\ c_pc' = "fold" /\ c_call' = c_call /\ c_call \in ChecksumCalls
        /\ c_call.length # LENGTH_MOD - 1
        /\ Congruent(c_call, c_sum) /\ c_sum >= C!WORD /\ c_sum' = C!Folded(c_sum)
    BY DEF SumInv, C!Fold
  <1>2. C!WORD \in Nat \ {0} /\ c_sum \in Nat
    BY <1>1, WidthsFit DEF Congruent
  <1> DEFINE q == c_sum \div C!WORD
             r == c_sum % C!WORD
  <1>3. q \in Int /\ r \in 0 .. C!WORD - 1 /\ c_sum = C!WORD * q + r /\ c_sum' = r + q
    BY <1>1, <1>2, DivMod DEF C!Folded
  <1> HIDE DEF q, r
  <1>4. q >= 1
    BY <1>1, <1>2, <1>3
  <1>5. c_sum' \in Nat /\ c_sum' # 0 /\ c_sum # 0
    BY <1>1, <1>2, <1>3, <1>4
  <1>6. PICK carries \in 0 .. C!CarriesAtStake(c_call), j \in Int :
           C!TotalOf(c_call) + C!Beyond(c_call) - carries = c_sum + (C!WORD - 1) * j
    BY <1>1 DEF Congruent
  <1>7. C!TotalOf(c_call) + C!Beyond(c_call) - carries = c_sum' + (C!WORD - 1) * (q + j) /\ q + j \in Int
    <2>1. (C!WORD - 1) * (q + j) = (C!WORD - 1) * q + (C!WORD - 1) * j
      BY <1>2, <1>3, <1>6
    <2>2. (C!WORD - 1) * q = C!WORD * q - q /\ C!WORD * q \in Int /\ (C!WORD - 1) * j \in Int
      BY <1>2, <1>3, <1>6
    <2>3. c_sum + (C!WORD - 1) * j = c_sum' + (C!WORD - 1) * (q + j)
      BY <1>2, <1>3, <2>1, <2>2
    <2> QED
      BY <1>3, <1>6, <2>3
  <1>8. Congruent(c_call, c_sum')
    BY <1>1, <1>5, <1>6, <1>7 DEF Congruent
  <1> QED
    BY <1>1, <1>8 DEF SumInv

LEMMA ComplementKeeps ==
    ASSUME SumInv, C!Complement
    PROVE  SumInv'
  <1>1. c_pc' = "done" /\ c_call' = c_call /\ c_call \in ChecksumCalls
        /\ c_call.length # LENGTH_MOD - 1
        /\ Congruent(c_call, c_sum) /\ c_sum < C!WORD /\ c_result' = C!WORD - 1 - c_sum
    BY DEF SumInv, C!Complement
  <1>2. C!WORD \in Nat /\ c_sum \in Nat
    BY <1>1, WidthsFit DEF Congruent
  <1>3. c_result' \in 0 .. C!WORD - 1 /\ C!WORD - 1 - c_result' = c_sum
    BY <1>1, <1>2
  <1> QED
    BY <1>1, <1>3 DEF SumInv

LEMMA SumStep ==
    ASSUME SumInv, C!Next \/ UNCHANGED C!vars
    PROVE  SumInv'
  <1>1. CASE C!Return
    BY <1>1 DEF SumInv, C!Return
  <1>2. CASE UNCHANGED C!vars
    BY <1>2 DEF SumInv, C!vars
  <1> QED
    BY <1>1, <1>2, CallKeeps, AddWordKeeps, AddPaddingKeeps, AddAddressesKeeps, FoldKeeps, ComplementKeeps
       DEF C!Next, C!Run

LEMMA SumInvSuffices ==
    ASSUME SumInv
    PROVE  C!SumExact /\ C!ErrorBounded
  <1> SUFFICES ASSUME c_pc = "done" PROVE C!SumExact /\ C!ErrorBounded
    BY DEF C!SumExact, C!ErrorBounded
  <1>1. c_call \in ChecksumCalls /\ c_result \in 0 .. C!WORD - 1 /\ Congruent(c_call, C!WORD - 1 - c_result)
    BY DEF SumInv
  <1>2. C!WORD \in Nat /\ C!WORD >= 64
    BY WidthsFit
  <1>3. PICK carries \in 0 .. C!CarriesAtStake(c_call) : \E j \in Int :
           C!TotalOf(c_call) + C!Beyond(c_call) - carries = C!WORD - 1 - c_result + (C!WORD - 1) * j
    BY <1>1 DEF Congruent
  <1>4. PICK j \in Int : C!TotalOf(c_call) + C!Beyond(c_call) - carries = C!WORD - 1 - c_result + (C!WORD - 1) * j
    BY <1>3
  <1>5. C!CarriesAtStake(c_call) = 0 => (C!WORD - 1 - c_result = 0 <=> C!TotalOf(c_call) + C!Beyond(c_call) = 0)
    BY <1>1 DEF Congruent
  <1> DEFINE n == C!WORD - 1 - c_result
             m == C!WORD - 1
             x == C!TotalOf(c_call) + C!Beyond(c_call)
  <1>6. m \in Nat \ {0} /\ n \in 0 .. m /\ c_result = m - n /\ m * j \in Int
    BY <1>1, <1>2
  <1>7. x - carries = n + m * j /\ C!TotalOf(c_call) \in Int /\ C!Beyond(c_call) \in Int /\ x \in Int /\ carries \in Int
    <2>1. C!TotalOf(c_call) \in Int /\ C!Beyond(c_call) \in 0 .. C!WORD - 1
      BY <1>1, TotalIsNumber, CallNumbers
    <2>2. C!Beyond(c_call) \in Int
      BY <1>2, <2>1
    <2> QED
      BY <1>4, <2>1, <2>2
  <1>8. C!ErrorBounded
    <2>1. (x - carries - n) % m = 0
      <3> HIDE DEF n, m, x
      <3>1. x - carries - n = m * j + 0 /\ 0 \in 0 .. m - 1
        BY <1>6, <1>7
      <3>2. (m * j + 0) % m = 0
        BY <1>6, <3>1, ModUnique
      <3> QED
        BY <3>1, <3>2
    <2>2. (C!TotalOf(c_call) + C!Beyond(c_call) - carries - (C!WORD - 1 - c_result)) % (C!WORD - 1) = 0
      <3>1. C!TotalOf(c_call) + C!Beyond(c_call) - carries - (C!WORD - 1 - c_result) = x - carries - n
        <4> DEFINE total == C!TotalOf(c_call)
                   b     == C!Beyond(c_call)
        <4>1. total \in Int /\ b \in Int /\ x = total + b /\ n = C!WORD - 1 - c_result /\ n \in Int
          BY <1>2, <1>6, <1>7
        <4> HIDE DEF total, b, x, n
        <4>2. total + b - carries - n = x - carries - n
          BY <1>7, <4>1
        <4> QED
          BY <4>1, <4>2 DEF total, b
      <3> QED
        BY <2>1, <3>1
    <2>3. \E h \in 0 .. C!CarriesAtStake(c_call) :
             (C!TotalOf(c_call) + C!Beyond(c_call) - h - (C!WORD - 1 - c_result)) % (C!WORD - 1) = 0
      BY <2>2, Zenon
    <2> QED
      BY <2>3 DEF C!ErrorBounded
  <1>9. ASSUME C!PaddingIsZero(c_call), C!CarriesAtStake(c_call) = 0
        PROVE  c_result = C!WORD - 1 - C!OnesSum(C!TotalOf(c_call))
    <2>1. C!Beyond(c_call) = 0
      <3>1. 0 * (BYTE + 1) = 0
        BY WidthsFit
      <3> QED
        BY <1>9, <3>1 DEF C!PaddingIsZero, C!Beyond
    <2>3. carries = 0 /\ (n = 0 <=> x = 0)
      BY <1>5, <1>9
    <2>4. C!TotalOf(c_call) \in Int /\ C!TotalOf(c_call) = x
      <3>1. C!TotalOf(c_call) \in Int
        BY <1>1, TotalIsNumber
      <3> QED
        BY <2>1, <3>1
    <2>5. x = n + m * j
      <3> HIDE DEF n, m, x
      <3> QED
        BY <1>7, <2>3
    <2>6. CASE x = 0
      BY <1>6, <2>3, <2>4, <2>6 DEF C!OnesSum
    <2>7. CASE x # 0
      <3> HIDE DEF n, x
      <3>1. n - 1 \in 0 .. m - 1 /\ x - 1 = m * j + (n - 1)
        <4> HIDE DEF m
        <4>1. m * j \in Int
          BY <1>6
        <4> QED
          BY <1>6, <2>3, <2>5, <2>7, <4>1
      <3>2. (x - 1) % m = n - 1
        <4> HIDE DEF m
        <4> QED
          BY <1>6, <3>1, ModUnique
      <3>3. C!OnesSum(x) = 1 + (n - 1)
        BY <2>7, <3>2 DEF C!OnesSum
      <3> QED
        BY <1>6, <2>4, <3>3
    <2> QED
      BY <2>6, <2>7
  <1> QED
    BY <1>8, <1>9 DEF C!SumExact

\* However often a sum is folded, a checksum is that of RFC 1071, unless the
\* byte after odd data, the sign of an address octet or a length to which the
\* protocol number cannot be added in 16 bits counts, and then the error is known:
\* for every width of a byte and every length at which the function returns
\* (udp.c:48-78 and its copies).
THEOREM ChecksumsAreTrue == UnitsSpec => []SumTrue
  <1>1. C!Init => SumInv
    BY DEF C!Init, SumInv
  <1>2. SumInv => SumTrue
    BY SumInvSuffices DEF SumTrue
  <1> QED
    BY <1>1, <1>2, SumStep, EachByItself, PTL DEF C!Spec
----------------------------------------------------------------------------
\* RECEPTION.  EthRxProofs with the constants and variables that R has; what
\* follows unfolds the definitions of R to those of RingLaws.
RingLaws == INSTANCE EthRxProofs WITH Lengths <- FrameLengths, pc <- r_pc

\* FiniteSets is part of each instance too.
LEMMA SameSizes ==
    ASSUME NEW Q
    PROVE  (R!IsFiniteSet(Q) <=> RingLaws!IsFiniteSet(Q)) /\ R!Cardinality(Q) = RingLaws!Cardinality(Q)
  BY DEF R!Cardinality, RingLaws!Cardinality, R!IsFiniteSet, RingLaws!IsFiniteSet

\* The ring of Units is one that EthRxProofs speaks of.
LEMMA RingLawsApply == RingLaws!RingAssumption
  BY UnitsAssumption, SameSizes DEF R!RingAssumption, RingLaws!RingAssumption

\* The same bytes are unread, and the same frames stored.
LEMMA SameQueue == R!Unread = RingLaws!Unread /\ R!FramesStored = RingLaws!FramesStored
  BY Zenon DEF R!Unread, R!FramesStored, R!After, R!Starts, R!Waiting, R!InHand,
               RingLaws!Unread, RingLaws!FramesStored, RingLaws!After, RingLaws!Starts,
               RingLaws!Waiting, RingLaws!InHand

\* Steps, behaviours and properties are the same.
LEMMA SameSteps == [R!Next]_(R!vars) => [RingLaws!Next]_(RingLaws!vars)
  <1>1. ASSUME NEW len, NEW ok PROVE R!HwReceive(len, ok) => RingLaws!HwReceive(len, ok)
    BY SameQueue, SameSizes, Zenon
       DEF R!HwReceive, R!NextStart, R!Even, R!After, R!Distance, R!FreeSpace, R!Ring, R!Vector, R!Data,
           RingLaws!HwReceive, RingLaws!NextStart, RingLaws!Even, RingLaws!After, RingLaws!Distance,
           RingLaws!FreeSpace, RingLaws!Ring, RingLaws!Vector, RingLaws!Data
  <1>2. R!EthReceivePacket => RingLaws!EthReceivePacket
    BY DEF R!EthReceivePacket, R!CheckCount, R!ReadVector, R!CopyByte, R!CopyEnd, R!SetReadPointer,
           R!SetReadPointerErrata, R!PacketDecrement, R!Limit, R!After, R!BeforePointer, R!hw,
           RingLaws!EthReceivePacket, RingLaws!CheckCount, RingLaws!ReadVector, RingLaws!CopyByte,
           RingLaws!CopyEnd, RingLaws!SetReadPointer, RingLaws!SetReadPointerErrata,
           RingLaws!PacketDecrement, RingLaws!Limit, RingLaws!After, RingLaws!BeforePointer, RingLaws!hw
  <1> QED
    BY <1>1, <1>2 DEF R!Next, R!vars, RingLaws!Next, RingLaws!vars

LEMMA SameSpec == R!Spec => RingLaws!Spec
  <1>1. R!Init => RingLaws!Init
    BY DEF R!Init, R!Ring, R!Empty, RingLaws!Init, RingLaws!Ring, RingLaws!Empty
  <1> QED
    BY <1>1, SameSteps, PTL DEF R!Spec, RingLaws!Spec

LEMMA SameProperties ==
    /\ RingLaws!TypeOK => R!TypeOK
    /\ RingLaws!FitsBuffer => R!FitsBuffer
    /\ RingLaws!UnreadKept => R!UnreadKept
  BY DEF R!TypeOK, R!Ring, R!FitsBuffer, R!UnreadKept,
         RingLaws!TypeOK, RingLaws!Ring, RingLaws!FitsBuffer, RingLaws!UnreadKept

LEMMA SameRefinement == RingLaws!Refinement => R!Refinement
  <1>1. RingLaws!Fifo!Init => R!Fifo!Init
    BY SameQueue DEF R!Fifo!Init, RingLaws!Fifo!Init
  <1>2. R!FramesStored' = RingLaws!FramesStored'
    BY DEF R!FramesStored, R!Starts, R!Waiting, R!InHand,
           RingLaws!FramesStored, RingLaws!Starts, RingLaws!Waiting, RingLaws!InHand
  <1>3. [RingLaws!Fifo!Next]_(RingLaws!Fifo!vars) => [R!Fifo!Next]_(R!Fifo!vars)
    BY <1>2, SameQueue
    DEF R!Fifo!Next, R!Fifo!vars, R!Fifo!HandOver, R!Fifo!Receive, R!Fifo!DataOf, R!Fifo!Shorter,
        RingLaws!Fifo!Next, RingLaws!Fifo!vars, RingLaws!Fifo!HandOver, RingLaws!Fifo!Receive,
        RingLaws!Fifo!DataOf, RingLaws!Fifo!Shorter
  <1> QED
    BY <1>1, <1>3, PTL DEF R!Refinement, RingLaws!Refinement, R!Fifo!Spec, RingLaws!Fifo!Spec

\* Types and widths stay, pointers in the ring and frames in the caller's buffer,
\* if no frame arrives between the writes of eth.c:584 and eth.c:590 while the next
\* packet starts at address 0 of a ring with an even last address.
THEOREM PointersAndWidthsKept == UnitsSpec /\ RingLaws!Quiet => []UnitsTypeOK
  <1>1. RingLaws!Spec /\ RingLaws!Quiet => [](RingLaws!TypeOK /\ RingLaws!FitsBuffer)
    BY RingLawsApply, RingLaws!PointersInRing, RingLaws!FramesFit, PTL
  <1>2. Spec => []TypeOK
    BY WidthsKept, UnitsAssumption
  <1>3. TypeOK /\ RingLaws!TypeOK /\ RingLaws!FitsBuffer => UnitsTypeOK
    BY SameProperties DEF UnitsTypeOK
  <1> QED
    BY <1>1, <1>2, <1>3, EachByItself, SameSpec, PTL

\* Nor is, then, a frame overwritten that was not read (eth.c:583-596).
THEOREM UnreadFramesKept == UnitsSpec /\ RingLaws!Quiet => []UnreadKept
  <1>1. RingLaws!Spec /\ RingLaws!Quiet => []RingLaws!UnreadKept
    BY RingLawsApply, RingLaws!UnreadFramesKept
  <1>2. RingLaws!UnreadKept => UnreadKept
    BY SameProperties DEF UnreadKept
  <1> QED
    BY <1>1, <1>2, EachByItself, SameSpec, PTL

\* And eth_receive_packet takes the frames in the order in which they were stored,
\* each once (eth.c:537).
THEOREM RingImplementsQueue == UnitsSpec /\ RingLaws!Quiet => Refinement
  <1>1. RingLaws!Spec /\ RingLaws!Quiet => RingLaws!Refinement
    BY RingLawsApply, RingLaws!RingImplementsQueue
  <1> QED
    BY <1>1, EachByItself, SameSpec, SameRefinement, PTL DEF Refinement

\* With an odd last address, as the run units has it, all three hold whenever
\* frames arrive.
THEOREM OddRingNeedsNothing ==
    ASSUME RX_STOP % 2 = 1
    PROVE  UnitsSpec => [](UnitsTypeOK /\ UnreadKept) /\ Refinement
  <1>1. RingLaws!QuietStep
    BY DEF RingLaws!QuietStep
  <1>2. UnitsSpec => RingLaws!Quiet
    BY <1>1, PTL DEF RingLaws!Quiet
  <1> QED
    BY <1>2, PointersAndWidthsKept, UnreadFramesKept, RingImplementsQueue, PTL
============================================================================
