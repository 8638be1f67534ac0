---------------------------- MODULE EthRxProofs ----------------------------
(***************************************************************************)
(* Theorems about reception, for a ring of any size, frames of any lengths *)
(* and any number of them.  The hardware may store a frame between any two *)
(* register accesses, except that, when the last address of the ring is    *)
(* even, none arrives between the two writes of ERXRDPT while the next     *)
(* packet starts at address 0: there the ring of the code loses frames.    *)
(***************************************************************************)
EXTENDS EthRx, NatLemmas, FiniteSetTheorems, TLAPS

\* The step does not store a frame in that window (eth.c:584-596).
QuietStep == RX_STOP % 2 = 0 /\ pc = "errata" /\ eth_packet_pointer = 0 => UNCHANGED hw

Quiet == [][QuietStep]_vars

\* Where the oldest frame that is not copied yet starts.
Base == IF InHand THEN erdpt ELSE eth_packet_pointer

At(offset) == mem[After(Base, offset)]

Vectors == [id : Ids, k : {0}, next : Ring, len : Lengths, ok : BOOLEAN]

\* Frame k starts o[k] bytes after the oldest, and the next to arrive after all
\* of them: each is whole, and its vector leads to the next.
IsChain(o) ==
    /\ o \in [0 .. Waiting -> Ring]
    /\ o[0] = 0
    /\ \A i, j \in 0 .. Waiting : i <= j => o[i] <= o[j]
    /\ \A k \in 0 .. Waiting - 1 :
          /\ At(o[k]) \in Vectors
          /\ o[k] + 1 + At(o[k]).len <= o[k + 1]
          /\ At(o[k]).next = After(Base, o[k + 1])
          /\ \A j \in 1 .. At(o[k]).len : At(o[k] + j) = Data(At(o[k]).id, j)
    /\ After(Base, o[Waiting]) = erxwrpt

\* All frames start at even addresses.
IsEven(o) == \A k \in 0 .. Waiting : After(Base, o[k]) % 2 = 0

\* From the read pointer to the oldest frame and on to the write pointer is less
\* than once around.  Between its two writes the read pointer is a byte ahead,
\* and would go back onto a write pointer that has caught up.
IsWithin(o) ==
    /\ Distance(erxrdpt, Base) + o[Waiting] <= RX_STOP
    /\ pc = "free" => Distance(erxrdpt, Base) > 0
    /\ pc = "errata" => o[Waiting] < RX_STOP

ChainInv == \E o : IsChain(o) /\ IsEven(o) /\ IsWithin(o)

\* What is left to copy of the frame in hand.
CopyInv ==
    /\ pc = "copy" =>
          /\ eth_packet_pointer = mem[erdpt].next
          /\ length = IF mem[erdpt].ok THEN Limit(mem[erdpt].len) ELSE 0
          /\ \E m \in 0 .. length : copied = [j \in 1 .. m |-> <<mem[erdpt].id, j>>]
    /\ pc # "copy" => copied = << >>

TypeInv ==
    /\ TypeOK
    /\ pc # "idle" => epktcnt > 0

IInv == TypeInv /\ ChainInv /\ CopyInv /\ UnreadKept
----------------------------------------------------------------------------
LEMMA Sizes ==
    ASSUME RingAssumption
    PROVE  /\ RX_STOP \in Nat \ {0} /\ MAX_LENGTH \in Nat \ {0} /\ MaxCount \in Nat
           /\ \A len \in Lengths : len \in Nat /\ 1 <= len /\ len + 2 <= RX_STOP
           /\ Cardinality(Ids) \in Nat /\ MaxCount < Cardinality(Ids)
           /\ Ids = 0 .. Cardinality(Ids) - 1
  <1>1. IsFiniteSet(Ids) => Cardinality(Ids) \in Nat
    BY FS_CardinalityType
  <1> QED
    BY <1>1 DEF RingAssumption

\* Addresses around the ring, without remainders.
LEMMA Around ==
    ASSUME RingAssumption, NEW a \in Ring
    PROVE  /\ \A n \in 0 .. RX_STOP + 1 :
                 After(a, n) = IF a + n <= RX_STOP THEN a + n ELSE a + n - (RX_STOP + 1)
           /\ \A b \in Ring : Distance(a, b) = IF a <= b THEN b - a ELSE b - a + RX_STOP + 1
  <1> DEFINE N == RX_STOP + 1
  <1>1. RX_STOP \in Nat /\ N \in Nat \ {0} /\ N = RX_STOP + 1 /\ a \in 0 .. N - 1
    BY DEF RingAssumption, Ring
  <1> HIDE DEF N
  <1>2. ASSUME NEW x \in 0 .. N - 1 PROVE x % N = x /\ (x + N) % N = x /\ (x - N) % N = x
    <2>1. x % N = x
      BY <1>1, ModSmall
    <2>2. ASSUME NEW k \in Int PROVE (x + N * k) % N = x % N
      <3>1. x \in Int
        BY <1>1
      <3> QED
        BY <1>1, <3>1, ModShift
    <2>3. (x + N * 1) % N = x % N /\ (x + N * (-1)) % N = x % N
      BY <2>2
    <2>4. x + N * 1 = x + N /\ x + N * (-1) = x - N
      BY <1>1
    <2> QED
      BY <2>1, <2>3, <2>4
  <1>3. ASSUME NEW n \in 0 .. RX_STOP + 1
        PROVE  After(a, n) = IF a + n <= RX_STOP THEN a + n ELSE a + n - (RX_STOP + 1)
    <2>1. CASE a + n <= RX_STOP
      <3>1. a + n \in 0 .. N - 1
        BY <1>1, <2>1
      <3> QED
        BY <1>1, <1>2, <2>1, <3>1 DEF After
    <2>2. CASE a + n > RX_STOP
      <3>1. a + n - N \in 0 .. N - 1 /\ (a + n - N) + N = a + n
        BY <1>1, <2>2
      <3>2. (a + n) % N = a + n - N
        BY <1>2, <3>1
      <3> QED
        BY <1>1, <2>2, <3>2 DEF After
    <2> QED
      BY <1>1, <2>1, <2>2
  <1>4. ASSUME NEW b \in Ring
        PROVE  Distance(a, b) = IF a <= b THEN b - a ELSE b - a + RX_STOP + 1
    <2>1. b \in 0 .. N - 1
      BY <1>1 DEF Ring
    <2>2. CASE a <= b
      <3>1. b - a \in 0 .. N - 1
        BY <1>1, <2>1, <2>2
      <3> QED
        BY <1>1, <1>2, <2>2, <3>1 DEF Distance
    <2>3. CASE a > b
      <3>1. b - a + N \in 0 .. N - 1 /\ (b - a + N) - N = b - a
        BY <1>1, <2>1, <2>3
      <3>2. (b - a) % N = b - a + N
        BY <1>2, <3>1
      <3> QED
        BY <1>1, <2>1, <2>3, <3>2 DEF Distance
    <2> QED
      BY <1>1, <2>1, <2>2, <2>3
  <1> QED
    BY <1>3, <1>4

\* Steps around the ring add up, and the distance is what was stepped.
LEMMA Steps ==
    ASSUME RingAssumption, NEW b \in Ring, NEW x \in Ring
    PROVE  /\ After(b, 0) = b
           /\ After(b, x) \in Ring
           /\ Distance(b, After(b, x)) = x
           /\ \A y \in Nat : x + y <= RX_STOP => After(After(b, x), y) = After(b, x + y)
           /\ \A y \in Ring : After(b, x) = After(b, y) => x = y
           /\ \A a \in Ring : After(b, Distance(b, a)) = a /\ Distance(b, a) \in Ring
  <1>1. RX_STOP \in Nat /\ b \in 0 .. RX_STOP /\ x \in 0 .. RX_STOP
    BY DEF RingAssumption, Ring
  <1>2. ASSUME NEW y \in Ring PROVE After(b, y) \in Ring /\ Distance(b, After(b, y)) = y
    <2>1. After(b, y) = IF b + y <= RX_STOP THEN b + y ELSE b + y - (RX_STOP + 1)
      BY <1>1, Around DEF Ring
    <2>2. After(b, y) \in Ring
      BY <1>1, <2>1 DEF Ring
    <2>3. Distance(b, After(b, y)) =
             IF b <= After(b, y) THEN After(b, y) - b ELSE After(b, y) - b + RX_STOP + 1
      BY <2>2, Around
    <2> QED
      BY <1>1, <2>1, <2>2, <2>3 DEF Ring
  <1>3. After(b, 0) = b
    BY <1>1, Around
  <1>4. ASSUME NEW y \in Nat, x + y <= RX_STOP PROVE After(After(b, x), y) = After(b, x + y)
    <2>1. After(b, x) = IF b + x <= RX_STOP THEN b + x ELSE b + x - (RX_STOP + 1)
      BY <1>1, Around
    <2>2. After(b, x + y) = IF b + (x + y) <= RX_STOP THEN b + (x + y) ELSE b + (x + y) - (RX_STOP + 1)
      <3>1. x + y \in 0 .. RX_STOP + 1
        BY <1>1, <1>4
      <3> QED
        BY <3>1, Around
    <2>3. After(After(b, x), y) = IF After(b, x) + y <= RX_STOP THEN After(b, x) + y
                                  ELSE After(b, x) + y - (RX_STOP + 1)
      <3>1. y \in 0 .. RX_STOP + 1
        BY <1>1, <1>4
      <3> QED
        BY <1>2, <3>1, Around
    <2> QED
      BY <1>1, <1>4, <2>1, <2>2, <2>3
  <1>5. ASSUME NEW a \in Ring PROVE After(b, Distance(b, a)) = a /\ Distance(b, a) \in Ring
    <2>1. Distance(b, a) = IF b <= a THEN a - b ELSE a - b + RX_STOP + 1
      BY Around
    <2>2. Distance(b, a) \in 0 .. RX_STOP
      BY <1>1, <2>1 DEF Ring
    <2>3. After(b, Distance(b, a)) = IF b + Distance(b, a) <= RX_STOP THEN b + Distance(b, a)
                                     ELSE b + Distance(b, a) - (RX_STOP + 1)
      BY <1>1, <2>2, Around
    <2> QED
      BY <1>1, <2>1, <2>2, <2>3 DEF Ring
  <1> QED
    BY <1>2, <1>3, <1>4, <1>5

\* Less than once around, distances add up.
LEMMA Span ==
    ASSUME RingAssumption, NEW a \in Ring, NEW b \in Ring, NEW x \in Ring,
           Distance(a, b) + x <= RX_STOP
    PROVE  Distance(a, After(b, x)) = Distance(a, b) + x
  <1>1. RX_STOP \in Nat /\ Distance(a, b) \in 0 .. RX_STOP /\ x \in 0 .. RX_STOP
    BY Steps DEF RingAssumption, Ring
  <1>2. After(a, Distance(a, b)) = b
    BY Steps
  <1>3. After(b, x) = After(a, Distance(a, b) + x)
    BY <1>1, <1>2, Steps DEF Ring
  <1>4. Distance(a, b) + x \in Ring
    BY <1>1 DEF Ring
  <1> QED
    BY <1>3, <1>4, Steps

\* The next frame starts behind this one, after a byte of padding if need be.
LEMMA NextStarts ==
    ASSUME RingAssumption, NEW w \in Ring, NEW len \in Lengths
    PROVE  /\ NextStart(w, len) % 2 = 0
           /\ \E d \in {1 + len, 2 + len} : d \in Ring /\ NextStart(w, len) = After(w, d)
  <1>1. RX_STOP \in Nat /\ len \in Nat /\ 2 + len <= RX_STOP
    BY DEF RingAssumption
  <1>2. 1 + len \in Ring /\ 2 + len \in Ring
    BY <1>1 DEF Ring
  <1> DEFINE a == After(w, 1 + len)
  <1>3. a \in Ring /\ After(a, 1) = After(w, 2 + len)
    <2>1. (1 + len) + 1 = 2 + len /\ 1 \in Nat
      BY <1>1
    <2> QED
      BY <1>1, <1>2, <2>1, Steps
  <1>4. CASE a % 2 = 0
    <2>1. NextStart(w, len) = After(w, 1 + len)
      BY <1>4 DEF NextStart, Even
    <2> QED
      BY <1>2, <1>4, <2>1
  <1>5. CASE a % 2 # 0
    <2>1. NextStart(w, len) = After(w, 2 + len) /\ NextStart(w, len) = After(a, 1)
      BY <1>3, <1>5 DEF NextStart, Even
    <2>2. After(a, 1) = IF a + 1 <= RX_STOP THEN a + 1 ELSE a + 1 - (RX_STOP + 1)
      BY <1>1, <1>2, <1>3, Around DEF Ring
    <2> HIDE DEF a
    <2>3. a \in 0 .. RX_STOP
      BY <1>3 DEF Ring
    <2>4. After(a, 1) % 2 = 0
      BY <1>1, <1>5, <2>2, <2>3
    <2> QED
      BY <1>2, <2>1, <2>4
  <1> QED
    BY <1>4, <1>5
----------------------------------------------------------------------------
\* Following the vectors from the oldest frame finds the frames of the chain.
LEMMA StartsAre ==
    RingAssumption /\ TypeInv =>
        \A o : IsChain(o) => \A n \in 0 .. Waiting - 1 : Starts[n] = After(Base, o[n])
  <1> SUFFICES ASSUME RingAssumption, TypeInv, NEW o, IsChain(o), NEW m \in 0 .. Waiting - 1
               PROVE  Starts[m] = After(Base, o[m])
    OBVIOUS
  <1> DEFINE body(f, n) == IF n = 0 THEN IF InHand THEN erdpt ELSE eth_packet_pointer
                           ELSE IF n < Waiting THEN mem[f[n - 1]].next ELSE f[n - 1]
             found == [n \in 0 .. MaxCount |-> After(Base, o[IF n < Waiting THEN n ELSE Waiting - 1])]
             start == CHOOSE f : f = [n \in 0 .. MaxCount |-> body(f, n)]
  <1>1. MaxCount \in Nat /\ Waiting \in Nat /\ 0 < Waiting /\ Waiting <= MaxCount
    BY DEF TypeInv, TypeOK, Waiting, RingAssumption
  <1>2. Base \in Ring
    BY DEF TypeInv, TypeOK, Base
  <1>3. found = [n \in 0 .. MaxCount |-> body(found, n)]
    <2>1. ASSUME NEW n \in 0 .. MaxCount PROVE found[n] = body(found, n)
      <3>1. CASE n = 0
        <4>1. found[n] = After(Base, 0)
          BY <1>1, <3>1 DEF IsChain
        <4>2. After(Base, 0) = Base
          BY <1>2, Steps
        <4> QED
          BY <3>1, <4>1, <4>2 DEF Base
      <3>2. CASE n # 0 /\ n < Waiting
        <4>1. n - 1 \in 0 .. Waiting - 1 /\ n - 1 \in 0 .. MaxCount /\ n - 1 < Waiting /\ (n - 1) + 1 = n
          BY <1>1, <3>2
        <4>2. found[n - 1] = After(Base, o[n - 1])
          BY <4>1
        <4>3. mem[After(Base, o[n - 1])].next = After(Base, o[n])
          BY <4>1 DEF IsChain, At
        <4> QED
          BY <3>2, <4>2, <4>3
      <3>3. CASE n # 0 /\ ~ (n < Waiting)
        <4>1. n - 1 \in 0 .. MaxCount /\ (n - 1 < Waiting => n - 1 = Waiting - 1)
          BY <1>1, <3>3
        <4> QED
          BY <3>3, <4>1
      <3> QED
        BY <3>1, <3>2, <3>3
    <2> QED
      BY <2>1
  <1>4. start = [n \in 0 .. MaxCount |-> body(start, n)]
    <2>1. \E f : f = [n \in 0 .. MaxCount |-> body(f, n)]
      BY <1>3
    <2> QED
      BY <2>1
  <1>5. Starts = start
    BY DEF Starts
  <1> HIDE DEF start, found
  <1> DEFINE Same == {n \in Nat : n <= MaxCount => start[n] = found[n]}
  <1>6. 0 \in Same
    BY <1>1, <1>3, <1>4
  <1>7. ASSUME NEW n \in Nat, n \in Same PROVE n + 1 \in Same
    <2> SUFFICES ASSUME n + 1 <= MaxCount PROVE start[n + 1] = found[n + 1]
      OBVIOUS
    <2>1. start[n] = found[n] /\ n + 1 \in 0 .. MaxCount /\ (n + 1) - 1 = n /\ n + 1 # 0
      BY <1>1, <1>7
    <2>2. start[n + 1] = body(start, n + 1) /\ found[n + 1] = body(found, n + 1)
      BY <1>3, <1>4, <2>1
    <2> QED
      BY <2>1, <2>2
  <1> HIDE DEF Same
  <1>8. Nat \subseteq Same
    BY <1>6, <1>7, InductionOnNat
  <1>9. m \in Nat /\ m < Waiting /\ m \in 0 .. MaxCount
    BY <1>1
  <1>10. start[m] = found[m]
    BY <1>8, <1>9 DEF Same
  <1> QED
    BY <1>5, <1>9, <1>10 DEF found

FrameOf(v) == [id |-> v.id, len |-> v.len, ok |-> v.ok]

\* The queue that FrameQueue sees is the chain.
QueueInv ==
    \A o : IsChain(o) => FramesStored = [n \in 1 .. Waiting |-> FrameOf(At(o[n - 1]))]

LEMMA FramesAre == RingAssumption /\ TypeInv => QueueInv
  <1> SUFFICES ASSUME RingAssumption, TypeInv, NEW o, IsChain(o)
               PROVE  FramesStored = [n \in 1 .. Waiting |-> FrameOf(At(o[n - 1]))]
    BY DEF QueueInv
  <1>1. Waiting \in Int
    BY DEF TypeInv, TypeOK, Waiting
  <1>2. ASSUME NEW n \in 1 .. Waiting PROVE mem[Starts[n - 1]] = At(o[n - 1])
    <2>1. n - 1 \in 0 .. Waiting - 1
      BY <1>1
    <2> QED
      BY <2>1, StartsAre DEF At
  <1> QED
    BY <1>2 DEF FramesStored, FrameOf

\* Unread bytes lie before the write pointer.
LEMMA UnreadBefore ==
    ASSUME RingAssumption, TypeInv, NEW o, IsChain(o), NEW a \in Unread
    PROVE  \E x \in Ring : x < o[Waiting] /\ a = After(Base, x)
  <1>1. PICK n \in 0 .. Waiting - 1 : a \in {After(Starts[n], k) : k \in 0 .. mem[Starts[n]].len}
    BY DEF Unread
  <1>2. Starts[n] = After(Base, o[n])
    BY StartsAre
  <1>3. PICK k \in 0 .. At(o[n]).len : a = After(After(Base, o[n]), k)
    BY <1>1, <1>2 DEF At
  <1>4. RX_STOP \in Nat /\ Waiting \in Nat /\ Base \in Ring
    BY DEF TypeInv, TypeOK, Waiting, Base, RingAssumption
  <1>5. /\ n \in 0 .. Waiting /\ n + 1 \in 0 .. Waiting /\ Waiting \in 0 .. Waiting
        /\ n + 1 <= Waiting
    BY <1>4
  <1>6. o[n] \in Ring /\ o[n + 1] \in Ring /\ o[Waiting] \in Ring /\ o[n + 1] <= o[Waiting]
    BY <1>5 DEF IsChain
  <1>7. At(o[n]).len \in Nat /\ o[n] + 1 + At(o[n]).len <= o[n + 1]
    <2>1. At(o[n]) \in Vectors /\ o[n] + 1 + At(o[n]).len <= o[n + 1]
      BY DEF IsChain
    <2>2. At(o[n]).len \in Lengths
      BY <2>1 DEF Vectors
    <2> QED
      BY <2>1, <2>2, Sizes
  <1>8. o[n] + k \in Ring /\ o[n] + k < o[Waiting] /\ k \in Nat /\ o[n] + k <= RX_STOP
    BY <1>4, <1>6, <1>7 DEF Ring
  <1>9. a = After(Base, o[n] + k)
    BY <1>3, <1>4, <1>6, <1>8, Steps
  <1> QED
    BY <1>8, <1>9
----------------------------------------------------------------------------
LEMMA InitOK == RingAssumption /\ Init => IInv
  <1> SUFFICES ASSUME RingAssumption, Init PROVE IInv
    OBVIOUS
  <1>1. RX_STOP \in Nat /\ MAX_LENGTH \in Nat /\ MaxCount \in Nat
        /\ Cardinality(Ids) \in Nat /\ MaxCount < Cardinality(Ids) /\ Ids = 0 .. Cardinality(Ids) - 1
    BY Sizes
  <1>2. TypeInv
    BY <1>1 DEF Init, TypeInv, TypeOK, Ring
  <1>3. Base = 0 /\ Waiting = 0 /\ 0 \in Ring
    BY <1>1 DEF Init, Base, Waiting, InHand, Ring
  <1>4. ChainInv
    <2> DEFINE o == [k \in 0 .. 0 |-> 0]
    <2>1. After(0, 0) = 0 /\ Distance(0, 0) = 0
      BY <1>3, Around, <1>1
    <2>2. IsChain(o)
      BY <1>3, <2>1 DEF IsChain, Init
    <2>3. IsEven(o) /\ IsWithin(o)
      BY <1>1, <1>3, <2>1 DEF IsEven, IsWithin, Init
    <2> QED
      BY <2>2, <2>3 DEF ChainInv
  <1> QED
    BY <1>2, <1>4 DEF IInv, Init, CopyInv, UnreadKept
----------------------------------------------------------------------------
\* The chain stays when neither the ring nor what waits in it changes.
LEMMA ChainStays ==
    ASSUME NEW o, IsChain(o), IsEven(o), UNCHANGED <<mem, erxwrpt>>,
           Base' = Base, Waiting' = Waiting
    PROVE  IsChain(o)' /\ IsEven(o)'
  BY DEF IsChain, IsEven, At

\* The frame in hand is the first of the chain.
LEMMA InHandIsFirst ==
    ASSUME RingAssumption, TypeInv, InHand, NEW o, IsChain(o)
    PROVE  /\ Base = erdpt /\ Waiting = epktcnt /\ 0 \in 0 .. Waiting - 1
           /\ At(o[0]) = mem[erdpt] /\ mem[erdpt] \in Vectors
           /\ 1 + mem[erdpt].len <= o[1]
           /\ mem[erdpt].next = After(Base, o[1]) /\ mem[erdpt].next \in Ring
           /\ \A j \in 1 .. mem[erdpt].len : mem[After(erdpt, j)] = Data(mem[erdpt].id, j)
  <1>1. Base = erdpt /\ Waiting = epktcnt /\ 0 \in 0 .. Waiting - 1 /\ Base \in Ring
    BY Sizes DEF TypeInv, TypeOK, InHand, Base, Waiting
  <1>2. o[0] = 0 /\ At(o[0]) = mem[erdpt]
    BY <1>1, Steps DEF IsChain, At
  <1>3. /\ At(o[0]) \in Vectors
        /\ o[0] + 1 + At(o[0]).len <= o[0 + 1]
        /\ At(o[0]).next = After(Base, o[0 + 1])
        /\ \A j \in 1 .. At(o[0]).len : At(o[0] + j) = Data(At(o[0]).id, j)
    BY <1>1 DEF IsChain
  <1>4. mem[erdpt].len \in Nat /\ mem[erdpt].next \in Ring
    BY <1>2, <1>3, Sizes DEF Vectors
  <1>5. \A j \in 1 .. mem[erdpt].len : At(o[0] + j) = mem[After(erdpt, j)]
    BY <1>1, <1>2, <1>4 DEF At
  <1> QED
    BY <1>1, <1>2, <1>3, <1>4, <1>5

LEMMA CheckCountKeeps == RingAssumption /\ IInv /\ CheckCount => IInv'
  <1> SUFFICES ASSUME RingAssumption, IInv, CheckCount PROVE IInv'
    OBVIOUS
  <1>1. TypeInv'
    BY Sizes DEF IInv, TypeInv, TypeOK, CheckCount, hw
  <1>2. UNCHANGED <<mem, erxwrpt, erxrdpt>> /\ Base' = Base /\ Waiting' = Waiting
    BY DEF CheckCount, hw, Base, Waiting, InHand
  <1>3. ChainInv'
    <2>1. PICK o : IsChain(o) /\ IsEven(o) /\ IsWithin(o)
      BY DEF IInv, ChainInv
    <2>2. IsChain(o)' /\ IsEven(o)'
      BY <1>2, <2>1, ChainStays
    <2>3. IsWithin(o)'
      BY <1>2, <2>1 DEF IsWithin, CheckCount, Distance
    <2> QED
      BY <2>2, <2>3 DEF ChainInv
  <1> QED
    BY <1>1, <1>3 DEF IInv, CopyInv, UnreadKept, CheckCount, hw

LEMMA ReadVectorKeeps == RingAssumption /\ IInv /\ ReadVector => IInv'
  <1> SUFFICES ASSUME RingAssumption, IInv, ReadVector PROVE IInv'
    OBVIOUS
  <1>0. PICK o : IsChain(o) /\ IsEven(o) /\ IsWithin(o)
    BY DEF IInv, ChainInv
  <1>1. mem[erdpt] \in Vectors /\ mem[erdpt].next \in Ring
    BY <1>0, InHandIsFirst DEF IInv, InHand, ReadVector
  <1>2. length' \in 0 .. MAX_LENGTH
    <2>1. mem[erdpt].len \in Nat
      BY <1>1, Sizes DEF Vectors
    <2> QED
      BY <2>1, Sizes DEF ReadVector, Limit
  <1>3. TypeInv'
    BY <1>1, <1>2 DEF IInv, TypeInv, TypeOK, ReadVector, hw
  <1>4. UNCHANGED <<mem, erxwrpt, erxrdpt>> /\ Base' = Base /\ Waiting' = Waiting
    BY DEF ReadVector, hw, Base, Waiting, InHand
  <1>5. ChainInv'
    <2>2. IsChain(o)' /\ IsEven(o)'
      BY <1>0, <1>4, ChainStays
    <2>3. IsWithin(o)'
      BY <1>0, <1>4 DEF IsWithin, ReadVector, Distance
    <2> QED
      BY <2>2, <2>3 DEF ChainInv
  <1>6. CopyInv'
    <2>1. copied' = << >> /\ 0 \in 0 .. length' /\ pc' = "copy"
      BY <1>2, Sizes DEF IInv, CopyInv, ReadVector
    <2>2. copied' = [j \in 1 .. 0 |-> <<mem'[erdpt'].id, j>>]
      BY <2>1
    <2>3. /\ eth_packet_pointer' = mem'[erdpt'].next
          /\ length' = IF mem'[erdpt'].ok THEN Limit(mem'[erdpt'].len) ELSE 0
      BY DEF ReadVector, hw
    <2> QED
      BY <2>1, <2>2, <2>3 DEF CopyInv
  <1> QED
    BY <1>3, <1>5, <1>6 DEF IInv, UnreadKept, ReadVector, hw

LEMMA CopyByteKeeps == RingAssumption /\ IInv /\ CopyByte => IInv'
  <1> SUFFICES ASSUME RingAssumption, IInv, CopyByte PROVE IInv'
    OBVIOUS
  <1>0. PICK o : IsChain(o) /\ IsEven(o) /\ IsWithin(o)
    BY DEF IInv, ChainInv
  <1>1. /\ mem[erdpt].len \in Nat
        /\ \A j \in 1 .. mem[erdpt].len : mem[After(erdpt, j)] = Data(mem[erdpt].id, j)
    BY <1>0, InHandIsFirst, Sizes DEF IInv, InHand, CopyByte, Vectors
  <1>2. TypeInv'
    BY DEF IInv, TypeInv, TypeOK, CopyByte, hw
  <1>3. UNCHANGED <<mem, erxwrpt, erxrdpt>> /\ Base' = Base /\ Waiting' = Waiting
    BY DEF CopyByte, hw, Base, Waiting, InHand
  <1>4. ChainInv'
    <2>2. IsChain(o)' /\ IsEven(o)'
      BY <1>0, <1>3, ChainStays
    <2>3. IsWithin(o)'
      BY <1>0, <1>3 DEF IsWithin, CopyByte, Distance
    <2> QED
      BY <2>2, <2>3 DEF ChainInv
  <1>5. CopyInv'
    <2> DEFINE id == mem[erdpt].id
    <2>1. PICK m \in 0 .. length : copied = [j \in 1 .. m |-> <<id, j>>]
      BY DEF IInv, CopyInv, CopyByte
    <2>2. length \in Nat /\ m \in Nat
      BY Sizes DEF IInv, TypeInv, TypeOK
    <2>3. Len(copied) = m /\ m < length
      BY <2>1, <2>2 DEF CopyByte
    <2>4. length <= mem[erdpt].len
      BY <1>1, <2>2, <2>3, Sizes DEF IInv, CopyInv, CopyByte, Limit
    <2>5. mem[After(erdpt, Len(copied) + 1)] = Data(id, m + 1)
      <3>1. m + 1 \in 1 .. mem[erdpt].len
        BY <1>1, <2>2, <2>3, <2>4
      <3> QED
        BY <1>1, <2>3, <3>1
    <2>6. copied' = Append(copied, <<id, m + 1>>)
      BY <2>5 DEF CopyByte, Data
    <2>7. copied' = [j \in 1 .. m + 1 |-> <<id, j>>]
      BY <2>1, <2>2, <2>6
    <2>8. m + 1 \in 0 .. length
      BY <2>2, <2>3
    <2> QED
      BY <2>7, <2>8 DEF IInv, CopyInv, CopyByte, hw
  <1> QED
    BY <1>2, <1>4, <1>5 DEF IInv, UnreadKept, CopyByte, hw

\* When a frame is copied the second of the chain becomes its first.
LEMMA CopyEndShifts ==
    ASSUME RingAssumption, IInv, CopyEnd, NEW o, IsChain(o), IsEven(o), IsWithin(o)
    PROVE  /\ Waiting > 0 /\ Waiting' = Waiting - 1
           /\ \E p : /\ IsChain(p)' /\ IsEven(p)' /\ IsWithin(p)'
                     /\ \A k \in 0 .. Waiting - 2 : At(p[k])' = At(o[k + 1])
  <1> DEFINE W == Waiting
  <1>0. PICK p : p = [k \in 0 .. W - 1 |-> o[k + 1] - o[1]]
    OBVIOUS
  <1>1. /\ Base = erdpt /\ Base \in Ring /\ W \in Nat /\ W > 0 /\ RX_STOP \in Nat
        /\ 1 + mem[erdpt].len <= o[1] /\ mem[erdpt].len \in Nat
        /\ mem[erdpt].next = After(Base, o[1])
    BY InHandIsFirst, Sizes DEF IInv, TypeInv, TypeOK, InHand, CopyEnd, Vectors
  <1>2. Waiting' = W - 1 /\ UNCHANGED <<mem, erxwrpt, erxrdpt>>
    BY DEF CopyEnd, hw, Waiting
  <1>3. Base' = After(Base, o[1])
    BY <1>1 DEF CopyEnd, Base, InHand, IInv, CopyInv
  <1>4. ASSUME NEW k \in 0 .. W - 1
        PROVE  /\ k + 1 \in 0 .. W /\ p[k] = o[k + 1] - o[1]
               /\ o[1] \in Ring /\ o[k + 1] \in Ring /\ o[1] <= o[k + 1] /\ p[k] \in Ring
               /\ After(Base', p[k]) = After(Base, o[k + 1])
    <2>1. k + 1 \in 0 .. W /\ 1 \in 0 .. W /\ 1 <= k + 1
      BY <1>1
    <2>2. o[1] \in Ring /\ o[k + 1] \in Ring /\ o[1] <= o[k + 1]
      BY <2>1 DEF IsChain
    <2>3. p[k] = o[k + 1] - o[1]
      BY <1>0
    <2>4. p[k] \in Nat /\ p[k] \in Ring /\ o[1] + p[k] <= RX_STOP /\ o[1] + p[k] = o[k + 1]
      BY <1>1, <2>2, <2>3 DEF Ring
    <2>5. After(After(Base, o[1]), p[k]) = After(Base, o[k + 1])
      BY <1>1, <2>2, <2>4, Steps
    <2> QED
      BY <1>3, <2>1, <2>2, <2>3, <2>4, <2>5
  <1>5. p \in [0 .. W - 1 -> Ring]
    BY <1>0, <1>4
  <1>6. p[0] = 0
    BY <1>1, <1>4 DEF Ring
  <1>7. \A i, j \in 0 .. W - 1 : i <= j => p[i] <= p[j]
    <2> SUFFICES ASSUME NEW i \in 0 .. W - 1, NEW j \in 0 .. W - 1, i <= j PROVE p[i] <= p[j]
      OBVIOUS
    <2>1. o[i + 1] <= o[j + 1]
      BY <1>4 DEF IsChain
    <2> QED
      BY <1>1, <1>4, <2>1 DEF Ring
  <1>8. ASSUME NEW k \in 0 .. W - 2
        PROVE  /\ At(p[k])' = At(o[k + 1]) /\ At(p[k])' \in Vectors
               /\ p[k] + 1 + At(p[k])'.len <= p[k + 1]
               /\ At(p[k])'.next = After(Base', p[k + 1])
               /\ \A j \in 1 .. At(p[k])'.len : At(p[k] + j)' = Data(At(p[k])'.id, j)
    <2>1. k \in 0 .. W - 1 /\ k + 1 \in 0 .. W - 1 /\ (k + 1) + 1 = k + 2
      BY <1>1
    <2>2. /\ At(o[k + 1]) \in Vectors
          /\ o[k + 1] + 1 + At(o[k + 1]).len <= o[k + 2]
          /\ At(o[k + 1]).next = After(Base, o[k + 2])
          /\ \A j \in 1 .. At(o[k + 1]).len : At(o[k + 1] + j) = Data(At(o[k + 1]).id, j)
      BY <2>1 DEF IsChain
    <2>3. At(p[k])' = At(o[k + 1])
      BY <1>2, <1>4, <2>1 DEF At
    <2>4. At(o[k + 1]).len \in Nat
      BY <2>2, Sizes DEF Vectors
    <2>5. p[k] + 1 + At(o[k + 1]).len <= p[k + 1]
      BY <1>1, <1>4, <2>1, <2>2, <2>4 DEF Ring
    <2>6. At(o[k + 1]).next = After(Base', p[k + 1])
      BY <1>4, <2>1, <2>2
    <2>7. ASSUME NEW j \in 1 .. At(o[k + 1]).len
          PROVE  At(p[k] + j)' = At(o[k + 1] + j)
      <3>1. /\ p[k] \in Ring /\ o[1] \in Ring /\ o[k + 1] \in Ring /\ p[k] = o[k + 1] - o[1]
            /\ o[k + 2] \in Ring
        BY <1>4, <2>1
      <3>2. p[k] + j \in Nat /\ o[1] + (p[k] + j) = o[k + 1] + j /\ o[k + 1] + j <= RX_STOP
        BY <1>1, <2>2, <2>4, <3>1 DEF Ring
      <3>3. After(After(Base, o[1]), p[k] + j) = After(Base, o[k + 1] + j)
        BY <1>1, <3>1, <3>2, Steps
      <3> QED
        BY <1>2, <1>3, <3>3 DEF At
    <2> QED
      BY <2>2, <2>3, <2>5, <2>6, <2>7
  <1>9. After(Base', p[W - 1]) = erxwrpt'
    <2>1. W - 1 \in 0 .. W - 1 /\ (W - 1) + 1 = W
      BY <1>1
    <2>2. After(Base', p[W - 1]) = After(Base, o[W])
      BY <1>4, <2>1
    <2> QED
      BY <1>2, <2>2 DEF IsChain
  <1>10. IsChain(p)'
    <2>1. (W - 1) - 1 = W - 2
      BY <1>1
    <2> QED
      BY <1>2, <1>5, <1>6, <1>7, <1>8, <1>9, <2>1 DEF IsChain
  <1>11. IsEven(p)'
    BY <1>2, <1>4 DEF IsEven
  <1>12. IsWithin(p)'
    <2>1. W - 1 \in 0 .. W - 1 /\ (W - 1) + 1 = W
      BY <1>1
    <2>2. p[W - 1] = o[W] - o[1] /\ o[1] \in Ring /\ o[W] \in Ring /\ o[1] <= o[W]
      BY <1>4, <2>1
    <2>3. erxrdpt \in Ring /\ Distance(erxrdpt, Base) \in Ring /\ Distance(erxrdpt, Base) + o[W] <= RX_STOP
      BY <1>1, Steps DEF IsWithin, IInv, TypeInv, TypeOK
    <2>4. Distance(erxrdpt, After(Base, o[1])) = Distance(erxrdpt, Base) + o[1]
      <3>1. Distance(erxrdpt, Base) + o[1] <= RX_STOP
        BY <1>1, <2>2, <2>3 DEF Ring
      <3> QED
        BY <1>1, <2>2, <2>3, <3>1, Span
    <2>5. Distance(erxrdpt', Base') = Distance(erxrdpt, Base) + o[1]
      BY <1>2, <1>3, <2>4
    <2>6. Distance(erxrdpt', Base') + p[W - 1] <= RX_STOP /\ Distance(erxrdpt', Base') > 0
      BY <1>1, <2>2, <2>3, <2>5 DEF Ring
    <2> QED
      BY <1>2, <2>6 DEF IsWithin, CopyEnd
  <1> QED
    BY <1>1, <1>2, <1>8, <1>10, <1>11, <1>12

LEMMA CopyEndKeeps == RingAssumption /\ IInv /\ CopyEnd => IInv'
  <1> SUFFICES ASSUME RingAssumption, IInv, CopyEnd PROVE IInv'
    OBVIOUS
  <1>1. TypeInv'
    BY Sizes DEF IInv, TypeInv, TypeOK, CopyEnd, hw
  <1>2. ChainInv'
    <2>1. PICK o : IsChain(o) /\ IsEven(o) /\ IsWithin(o)
      BY DEF IInv, ChainInv
    <2>2. PICK p : IsChain(p)' /\ IsEven(p)' /\ IsWithin(p)'
      BY <2>1, CopyEndShifts
    <2> QED
      BY <2>2 DEF ChainInv
  <1> QED
    BY <1>1, <1>2 DEF IInv, CopyInv, UnreadKept, CopyEnd, hw

\* The steps of the read pointer and of the counter move no frame.
LEMMA FreeKeeps ==
    RingAssumption /\ IInv /\ (SetReadPointer \/ SetReadPointerErrata \/ PacketDecrement) => IInv'
  <1> SUFFICES ASSUME RingAssumption, IInv, SetReadPointer \/ SetReadPointerErrata \/ PacketDecrement
               PROVE  IInv'
    OBVIOUS
  <1>1. PICK o : IsChain(o) /\ IsEven(o) /\ IsWithin(o)
    BY DEF IInv, ChainInv
  <1>2. UNCHANGED <<mem, erxwrpt, lost, eth_packet_pointer, copied>> /\ Base' = Base /\ Waiting' = Waiting
    BY DEF SetReadPointer, SetReadPointerErrata, PacketDecrement, hw, Base, Waiting, InHand
  <1>3. Base = eth_packet_pointer /\ Base \in Ring /\ RX_STOP \in Nat /\ Waiting \in Nat
    BY Sizes DEF SetReadPointer, SetReadPointerErrata, PacketDecrement, Base, InHand, Waiting,
                 IInv, TypeInv, TypeOK
  <1>4. o[Waiting] \in Ring
    BY <1>1, <1>3 DEF IsChain
  <1>5. CASE SetReadPointer
    <2>1. Distance(Base, Base) = 0
      <3>1. Distance(Base, Base) = IF Base <= Base THEN Base - Base ELSE Base - Base + RX_STOP + 1
        BY <1>3, Around
      <3> QED
        BY <1>3, <3>1 DEF Ring
    <2>2. o[Waiting] < RX_STOP
      <3>1. Distance(erxrdpt, Base) \in Ring
        BY <1>3, Steps DEF IInv, TypeInv, TypeOK
      <3> QED
        BY <1>1, <1>3, <1>4, <1>5, <3>1 DEF IsWithin, SetReadPointer, Ring
    <2>3. IsWithin(o)'
      BY <1>2, <1>3, <1>4, <1>5, <2>1, <2>2 DEF IsWithin, SetReadPointer, Ring
    <2>4. TypeInv'
      BY <1>5 DEF SetReadPointer, hw, IInv, TypeInv, TypeOK
    <2> QED
      BY <1>1, <1>2, <1>5, <2>3, <2>4, ChainStays
      DEF SetReadPointer, IInv, ChainInv, CopyInv, UnreadKept
  <1>6. CASE SetReadPointerErrata
    <2>1. BeforePointer \in Ring /\ Distance(BeforePointer, Base) = 1
      <3>1. BeforePointer \in Ring
        BY <1>3 DEF BeforePointer, Ring
      <3>2. Distance(BeforePointer, Base) = IF BeforePointer <= Base THEN Base - BeforePointer
                                            ELSE Base - BeforePointer + RX_STOP + 1
        BY <1>3, <3>1, Around
      <3>3. RX_STOP > 0
        BY Sizes
      <3> QED
        BY <1>3, <3>1, <3>2, <3>3 DEF BeforePointer, Ring
    <2>2. o[Waiting] < RX_STOP
      BY <1>1, <1>6 DEF IsWithin, SetReadPointerErrata
    <2>3. IsWithin(o)'
      BY <1>2, <1>3, <1>4, <1>6, <2>1, <2>2 DEF IsWithin, SetReadPointerErrata, Ring
    <2>4. TypeInv'
      BY <1>6, <2>1 DEF SetReadPointerErrata, hw, IInv, TypeInv, TypeOK
    <2> QED
      BY <1>1, <1>2, <1>6, <2>3, <2>4, ChainStays
      DEF SetReadPointerErrata, IInv, ChainInv, CopyInv, UnreadKept
  <1>7. CASE PacketDecrement
    <2>1. IsWithin(o)'
      BY <1>1, <1>2, <1>7 DEF IsWithin, PacketDecrement
    <2>2. TypeInv'
      BY <1>7, Sizes DEF PacketDecrement, IInv, TypeInv, TypeOK
    <2> QED
      BY <1>1, <1>2, <1>7, <2>1, <2>2, ChainStays
      DEF PacketDecrement, IInv, ChainInv, CopyInv, UnreadKept
  <1> QED
    BY <1>5, <1>6, <1>7

\* A frame that the hardware stores becomes the last of the chain, and no byte
\* of it one that was not read.
LEMMA ReceiveExtends ==
    ASSUME RingAssumption, IInv, QuietStep,
           NEW len \in Lengths, NEW ok \in BOOLEAN, HwReceive(len, ok),
           NEW o, IsChain(o), IsEven(o), IsWithin(o),
           NEW W, W = Waiting
    PROVE  /\ W \in Nat /\ Waiting' = W + 1
           /\ UnreadKept'
           /\ \E p : /\ IsChain(p)' /\ IsEven(p)' /\ IsWithin(p)'
                     /\ \A k \in 0 .. W - 1 : At(p[k])' = At(o[k])
                     /\ At(p[W])' = Vector(number, NextStart(erxwrpt, len), len, ok)
  <1> DEFINE next  == NextStart(erxwrpt, len)
             bytes == {After(erxwrpt, k) : k \in 0 .. len}
             r     == Distance(erxrdpt, Base)
  <1>1. /\ RX_STOP \in Nat /\ len \in Nat /\ 1 <= len /\ W \in Nat
        /\ Base \in Ring /\ erxwrpt \in Ring /\ erxrdpt \in Ring /\ r \in Ring
    <2>1. Base \in Ring /\ erxwrpt \in Ring /\ erxrdpt \in Ring
      BY DEF IInv, TypeInv, TypeOK, Base
    <2>2. W \in Nat
      BY Sizes DEF IInv, TypeInv, TypeOK, Waiting
    <2> QED
      BY <2>1, <2>2, Sizes, Steps
  <1>2. /\ Distance(erxwrpt, next) <= FreeSpace /\ erxwrpt' = next /\ epktcnt' = epktcnt + 1
        /\ mem' = [a \in Ring |->
                      IF a = erxwrpt THEN Vector(number, next, len, ok)
                      ELSE IF a \in bytes THEN Data(number, Distance(erxwrpt, a))
                      ELSE mem[a]]
        /\ lost' = (lost \/ bytes \cap Unread # {})
        /\ UNCHANGED <<erxrdpt, pc, eth_packet_pointer, erdpt>>
    BY DEF HwReceive
  <1>3. Base' = Base /\ Waiting' = W + 1
    BY <1>2 DEF Base, Waiting, InHand, IInv, TypeInv, TypeOK
  <1>4. W \in 0 .. W /\ o[W] \in Ring /\ After(Base, o[W]) = erxwrpt /\ r + o[W] <= RX_STOP
    BY <1>1 DEF IsChain, IsWithin
  <1>5. PICK d \in {1 + len, 2 + len} :
           d \in Ring /\ next = After(erxwrpt, d)
    BY <1>1, NextStarts
  <1>6. r + o[W] + d <= RX_STOP
    <2>1. Distance(erxrdpt, erxwrpt) = r + o[W]
      BY <1>1, <1>4, Span
    <2>2. Distance(erxwrpt, next) = d
      BY <1>1, <1>5, Steps
    <2> QED
      BY <1>1, <1>2, <1>4, <1>5, <2>1, <2>2 DEF FreeSpace, Ring
  <1>7. /\ o[W] + d \in Ring /\ d \in Nat /\ 1 + len <= d /\ o[W] + d <= RX_STOP
        /\ After(Base, o[W] + d) = next
    <2>1. o[W] + d \in Ring /\ d \in Nat /\ 1 + len <= d /\ o[W] + d <= RX_STOP
      BY <1>1, <1>4, <1>5, <1>6 DEF Ring
    <2>2. After(After(Base, o[W]), d) = After(Base, o[W] + d)
      BY <1>1, <1>4, <2>1, Steps
    <2> QED
      BY <1>4, <1>5, <2>1, <2>2
  <1>8. ASSUME NEW k \in 0 .. len
        PROVE  /\ k \in Ring /\ o[W] + k \in Ring
               /\ After(erxwrpt, k) = After(Base, o[W] + k) /\ After(erxwrpt, k) \in Ring
    <2>1. k \in Nat /\ k \in Ring /\ o[W] + k \in Ring /\ o[W] + k <= RX_STOP
      BY <1>1, <1>4, <1>7 DEF Ring
    <2>2. After(After(Base, o[W]), k) = After(Base, o[W] + k)
      <3>1. Base \in Ring /\ o[W] \in Ring
        BY <1>1, <1>4
      <3>2. \A y \in Nat : o[W] + y <= RX_STOP => After(After(Base, o[W]), y) = After(Base, o[W] + y)
        BY <3>1, Steps
      <3> QED
        BY <2>1, <3>2
    <2>3. After(Base, o[W] + k) \in Ring
      BY <1>1, <2>1, Steps
    <2> QED
      BY <1>4, <2>1, <2>2, <2>3
  <1>9. ASSUME NEW x \in Ring, x < o[W]
        PROVE  After(Base, x) \in Ring \ bytes
    <2>1. ASSUME NEW k \in 0 .. len PROVE After(Base, x) # After(erxwrpt, k)
      <3>1. o[W] + k \in Ring /\ x # o[W] + k
        BY <1>1, <1>4, <1>8, <1>9 DEF Ring
      <3> QED
        BY <1>1, <1>8, <3>1, Steps
    <2>2. After(Base, x) \in Ring
      BY <1>1, Steps
    <2> QED
      BY <2>1, <2>2
  <1>10. erxwrpt \in bytes
    <2>1. erxwrpt \in Ring /\ 0 \in 0 .. len
      BY <1>1
    <2>2. After(erxwrpt, 0) = erxwrpt
      BY <2>1, Steps
    <2> QED
      BY <2>1, <2>2
  <1>11. ASSUME NEW x \in Ring, x < o[W] PROVE At(x)' = At(x)
    BY <1>2, <1>3, <1>9, <1>10, <1>11 DEF At
  <1>12. At(o[W])' = Vector(number, next, len, ok)
    BY <1>1, <1>2, <1>3, <1>4 DEF At
  <1>13. ASSUME NEW j \in 1 .. len PROVE At(o[W] + j)' = Data(number, j)
    <2>1. j \in 0 .. len /\ j # 0
      BY <1>1
    <2>2. After(Base, o[W] + j) = After(erxwrpt, j) /\ After(erxwrpt, j) \in Ring \cap bytes
      BY <1>8, <2>1
    <2>3. Distance(erxwrpt, After(erxwrpt, j)) = j /\ Distance(erxwrpt, erxwrpt) = 0
      <3>1. j \in Ring /\ 0 \in Ring /\ After(erxwrpt, 0) = erxwrpt
        BY <1>1, <1>8, <2>1, Steps
      <3> QED
        BY <1>1, <3>1, Steps
    <2>4. After(erxwrpt, j) # erxwrpt
      BY <2>1, <2>3
    <2> QED
      BY <1>2, <1>3, <2>2, <2>3, <2>4 DEF At
  <1> HIDE DEF next, bytes
  <1>14. UnreadKept'
    <2>1. ASSUME NEW a \in Unread PROVE a \notin bytes
      <3>1. PICK x \in Ring : x < o[W] /\ a = After(Base, x)
        BY UnreadBefore DEF IInv
      <3> QED
        BY <1>9, <3>1
    <2>2. bytes \cap Unread = {}
      BY <2>1
    <2> QED
      BY <1>2, <2>2 DEF IInv, UnreadKept
  <1>15. PICK p : p = [k \in 0 .. W + 1 |-> IF k = W + 1 THEN o[W] + d ELSE o[k]]
    OBVIOUS
  <1>16. /\ p[W + 1] = o[W] + d
         /\ \A k \in 0 .. W : p[k] = o[k] /\ p[k] \in Ring /\ p[k] <= o[W]
         /\ p \in [0 .. W + 1 -> Ring]
    <2>1. W + 1 \in 0 .. W + 1
      BY <1>1
    <2>2. ASSUME NEW k \in 0 .. W
          PROVE  p[k] = o[k] /\ o[k] \in Ring /\ o[k] <= o[W]
      <3>1. k \in 0 .. W + 1 /\ k # W + 1 /\ k <= W /\ W \in 0 .. W
        BY <1>1
      <3> QED
        BY <1>15, <3>1 DEF IsChain
    <2>3. ASSUME NEW k \in 0 .. W + 1 PROVE (IF k = W + 1 THEN o[W] + d ELSE o[k]) \in Ring
      <3>1. k = W + 1 \/ k \in 0 .. W
        BY <1>1
      <3> QED
        BY <1>7, <2>2, <3>1
    <2> QED
      BY <1>15, <2>1, <2>2, <2>3
  <1>17. ASSUME NEW k \in 0 .. W - 1
         PROVE  /\ At(p[k])' = At(o[k]) /\ At(p[k])' \in Vectors
                /\ p[k] + 1 + At(p[k])'.len <= p[k + 1]
                /\ At(p[k])'.next = After(Base, p[k + 1])
                /\ \A j \in 1 .. At(p[k])'.len : At(p[k] + j)' = Data(At(p[k])'.id, j)
    <2>1. k \in 0 .. W /\ k + 1 \in 0 .. W
      BY <1>1
    <2>2. /\ At(o[k]) \in Vectors
          /\ o[k] + 1 + At(o[k]).len <= o[k + 1]
          /\ At(o[k]).next = After(Base, o[k + 1])
          /\ \A j \in 1 .. At(o[k]).len : At(o[k] + j) = Data(At(o[k]).id, j)
      BY DEF IsChain
    <2>3. At(o[k]).len \in Nat
      BY <2>2, Sizes DEF Vectors
    <2>4. p[k] = o[k] /\ p[k + 1] = o[k + 1] /\ o[k] \in Ring /\ o[k + 1] \in Ring /\ o[k + 1] <= o[W]
      BY <1>16, <2>1
    <2>5. ASSUME NEW j \in 0 .. At(o[k]).len PROVE At(o[k] + j)' = At(o[k] + j)
      <3>1. o[k] + j \in Ring /\ o[k] + j < o[W]
        BY <1>1, <1>4, <2>2, <2>3, <2>4 DEF Ring
      <3> QED
        BY <1>11, <3>1
    <2>6. At(o[k])' = At(o[k])
      <3>1. o[k] + 0 = o[k] /\ 0 \in 0 .. At(o[k]).len
        BY <1>1, <2>3, <2>4 DEF Ring
      <3> QED
        BY <2>5, <3>1
    <2>7. \A j \in 1 .. At(o[k]).len : At(o[k] + j)' = At(o[k] + j)
      BY <2>3, <2>5
    <2> QED
      BY <2>2, <2>4, <2>6, <2>7
  <1>18. /\ At(p[W])' = Vector(number, next, len, ok) /\ At(p[W])' \in Vectors
         /\ p[W] + 1 + At(p[W])'.len <= p[W + 1]
         /\ At(p[W])'.next = After(Base, p[W + 1])
         /\ \A j \in 1 .. At(p[W])'.len : At(p[W] + j)' = Data(At(p[W])'.id, j)
    <2>1. p[W] = o[W] /\ p[W + 1] = o[W] + d
      BY <1>4, <1>16
    <2>2. next \in Ring
      BY <1>1, <1>5, Steps
    <2>3. Vector(number, next, len, ok) \in Vectors
      BY <2>2 DEF Vector, Vectors, IInv, TypeInv, TypeOK
    <2>4. /\ Vector(number, next, len, ok).len = len
          /\ Vector(number, next, len, ok).next = next
          /\ Vector(number, next, len, ok).id = number
      BY DEF Vector
    <2>5. o[W] + 1 + len <= o[W] + d
      BY <1>1, <1>4, <1>7 DEF Ring
    <2> QED
      BY <1>7, <1>12, <1>13, <2>1, <2>3, <2>4, <2>5
  <1>19. IsChain(p)'
    <2>1. p[0] = 0
      <3>1. 0 \in 0 .. W
        BY <1>1
      <3> QED
        BY <1>16, <3>1 DEF IsChain
    <2>2. \A i, j \in 0 .. W + 1 : i <= j => p[i] <= p[j]
      <3> SUFFICES ASSUME NEW i \in 0 .. W + 1, NEW j \in 0 .. W + 1, i <= j PROVE p[i] <= p[j]
        OBVIOUS
      <3>1. CASE j = W + 1 /\ i \in 0 .. W
        <4>1. p[i] <= o[W] /\ p[i] \in Ring
          BY <1>16, <3>1
        <4> QED
          BY <1>1, <1>4, <1>7, <1>16, <3>1, <4>1 DEF Ring
      <3>2. CASE j \in 0 .. W /\ i \in 0 .. W
        BY <1>16, <3>2 DEF IsChain
      <3>3. CASE i = W + 1 /\ j = W + 1
        BY <1>1, <1>4, <1>7, <1>16, <3>3 DEF Ring
      <3> QED
        BY <1>1, <3>1, <3>2, <3>3
    <2>3. After(Base', p[W + 1]) = erxwrpt'
      BY <1>2, <1>3, <1>7, <1>16
    <2>4. \A k \in 0 .. (W + 1) - 1 : k \in 0 .. W - 1 \/ k = W
      BY <1>1
    <2> QED
      BY <1>3, <1>16, <1>17, <1>18, <2>1, <2>2, <2>3, <2>4 DEF IsChain
  <1>20. IsEven(p)'
    <2>1. \A k \in 0 .. W : After(Base, p[k]) % 2 = 0
      BY <1>16 DEF IsEven
    <2>2. After(Base, p[W + 1]) % 2 = 0
      BY <1>1, <1>7, <1>16, NextStarts DEF next
    <2>3. \A k \in 0 .. W + 1 : k \in 0 .. W \/ k = W + 1
      BY <1>1
    <2> QED
      BY <1>3, <2>1, <2>2, <2>3 DEF IsEven
  <1>21. IsWithin(p)'
    <2>1. Distance(erxrdpt', Base') + p[W + 1] <= RX_STOP
      BY <1>1, <1>2, <1>3, <1>4, <1>6, <1>7, <1>16 DEF Ring
    <2>2. pc' = "free" => Distance(erxrdpt', Base') > 0
      BY <1>2, <1>3 DEF IsWithin
    <2>3. ASSUME pc' = "errata" PROVE p[W + 1] < RX_STOP
      <3>1. epktcnt' # epktcnt
        BY <1>2, Sizes DEF IInv, TypeInv, TypeOK
      <3>2. RX_STOP % 2 = 0 => Base # 0
        BY <1>2, <2>3, <3>1 DEF QuietStep, hw, Base, InHand
      <3>3. Base % 2 = 0 /\ next % 2 = 0 /\ Base \in 0 .. RX_STOP
        <4>1. 0 \in 0 .. W /\ o[0] = 0 /\ After(Base, 0) = Base
          BY <1>1, Steps DEF IsChain
        <4>2. next % 2 = 0
          BY <1>1, NextStarts DEF next
        <4> QED
          BY <1>1, <4>1, <4>2 DEF IsEven, Ring
      <3>4. p[W + 1] \in 0 .. RX_STOP /\ After(Base, p[W + 1]) = next
        BY <1>1, <1>7, <1>16 DEF Ring
      <3>5. ASSUME p[W + 1] = RX_STOP PROVE FALSE
        <4>1. After(Base, RX_STOP) = IF Base + RX_STOP <= RX_STOP THEN Base + RX_STOP
                                     ELSE Base + RX_STOP - (RX_STOP + 1)
          BY <1>1, Around DEF Ring
        <4>2. next = IF Base = 0 THEN RX_STOP ELSE Base - 1
          BY <1>1, <3>3, <3>4, <3>5, <4>1
        <4>3. CASE Base = 0
          BY <3>2, <3>3, <4>2, <4>3
        <4>4. CASE Base # 0
          BY <3>3, <4>2, <4>4
        <4> QED
          BY <4>3, <4>4
      <3> QED
        BY <1>1, <3>4, <3>5
    <2> QED
      BY <1>3, <2>1, <2>2, <2>3 DEF IsWithin
  <1> QED
    BY <1>1, <1>3, <1>14, <1>17, <1>18, <1>19, <1>20, <1>21 DEF next

LEMMA ReceiveKeeps ==
    ASSUME RingAssumption, IInv, QuietStep,
           NEW len \in Lengths, NEW ok \in BOOLEAN, HwReceive(len, ok)
    PROVE  IInv'
  <1>1. PICK o : IsChain(o) /\ IsEven(o) /\ IsWithin(o)
    BY DEF IInv, ChainInv
  <1>2. UnreadKept' /\ \E p : IsChain(p)' /\ IsEven(p)' /\ IsWithin(p)'
    BY <1>1, ReceiveExtends
  <1>3. TypeInv'
    <2>1. erxwrpt' \in Ring
      BY NextStarts, Steps DEF HwReceive, IInv, TypeInv, TypeOK
    <2>2. number' \in Ids
      <3>1. number + 1 \in Int /\ Cardinality(Ids) \in Nat \ {0}
        BY Sizes DEF IInv, TypeInv, TypeOK
      <3>2. (number + 1) % Cardinality(Ids) \in 0 .. Cardinality(Ids) - 1
        BY <3>1
      <3> QED
        BY <3>2, Sizes DEF HwReceive
    <2> QED
      BY <2>1, <2>2, Sizes DEF HwReceive, IInv, TypeInv, TypeOK
  <1>4. CopyInv'
    <2>1. UNCHANGED <<pc, copied, length, erdpt, eth_packet_pointer>>
      BY DEF HwReceive
    <2>2. CASE pc = "copy"
      <3>1. InHand /\ InHand'
        BY <2>1, <2>2 DEF InHand
      <3>2. mem'[erdpt'] = mem[erdpt]
        <4>1. PICK p : IsChain(p)' /\ \A k \in 0 .. Waiting - 1 : At(p[k])' = At(o[k])
          BY <1>1, ReceiveExtends
        <4>2. 0 \in 0 .. Waiting - 1 /\ At(o[0]) = mem[erdpt] /\ o[0] = 0
              /\ erdpt \in Ring /\ Base = erdpt /\ Base' = erdpt
          BY <1>1, <2>1, <3>1, InHandIsFirst DEF IInv, IsChain, TypeInv, TypeOK, Base
        <4>3. At(p[0])' = mem'[erdpt]
          <5>1. p[0] = 0
            BY <4>1 DEF IsChain
          <5> QED
            BY <4>2, <5>1, Steps DEF At
        <4> QED
          BY <2>1, <4>1, <4>2, <4>3
      <3> QED
        BY <2>1, <2>2, <3>2 DEF IInv, CopyInv
    <2>3. CASE pc # "copy"
      BY <2>1, <2>3 DEF IInv, CopyInv
    <2> QED
      BY <2>2, <2>3
  <1> QED
    BY <1>2, <1>3, <1>4 DEF IInv, ChainInv

LEMMA StepKeeps == RingAssumption /\ IInv /\ [Next]_vars /\ [QuietStep]_vars => IInv'
  <1> SUFFICES ASSUME RingAssumption, IInv, [Next]_vars, [QuietStep]_vars PROVE IInv'
    OBVIOUS
  <1>1. ASSUME NEW len \in Lengths, NEW ok \in BOOLEAN, HwReceive(len, ok) PROVE IInv'
    <2>1. epktcnt' # epktcnt
      BY <1>1 DEF HwReceive, IInv, TypeInv, TypeOK
    <2>2. QuietStep
      BY <2>1 DEF vars
    <2> QED
      BY <1>1, <2>2, ReceiveKeeps
  <1>2. CASE CheckCount
    BY <1>2, CheckCountKeeps
  <1>3. CASE ReadVector
    BY <1>3, ReadVectorKeeps
  <1>4. CASE CopyByte
    BY <1>4, CopyByteKeeps
  <1>5. CASE CopyEnd
    BY <1>5, CopyEndKeeps
  <1>6. CASE SetReadPointer \/ SetReadPointerErrata \/ PacketDecrement
    BY <1>6, FreeKeeps
  <1>7. CASE UNCHANGED vars
    <2>1. UNCHANGED <<mem, erxwrpt, erxrdpt, Base, Waiting, pc>>
      BY <1>7 DEF vars, Base, Waiting, InHand
    <2>2. ChainInv'
      <3>1. PICK o : IsChain(o) /\ IsEven(o) /\ IsWithin(o)
        BY DEF IInv, ChainInv
      <3>2. IsChain(o)' /\ IsEven(o)' /\ IsWithin(o)'
        BY <2>1, <3>1, ChainStays DEF IsWithin
      <3> QED
        BY <3>2 DEF ChainInv
    <2>3. TypeInv'
      BY <1>7 DEF IInv, TypeInv, TypeOK, vars
    <2>4. CopyInv' /\ UnreadKept'
      BY <1>7 DEF IInv, CopyInv, UnreadKept, vars
    <2> QED
      BY <2>2, <2>3, <2>4 DEF IInv
  <1> QED
    BY <1>1, <1>2, <1>3, <1>4, <1>5, <1>6, <1>7 DEF Next, EthReceivePacket

\* The inductive invariant holds in every state.
THEOREM Invariance ==
    ASSUME RingAssumption
    PROVE  Spec /\ Quiet => []IInv
  <1>1. Init => IInv
    BY InitOK
  <1>2. IInv /\ [Next]_vars /\ [QuietStep]_vars => IInv'
    BY StepKeeps
  <1> QED
    BY <1>1, <1>2, PTL DEF Spec, Quiet

\* Types stay, and all pointers in the ring, ERXRDPT too when it is set one
\* before the next packet (eth.c:590-596).
THEOREM PointersInRing ==
    ASSUME RingAssumption
    PROVE  Spec /\ Quiet => []TypeOK
  <1>1. IInv => TypeOK
    BY DEF IInv, TypeInv
  <1> QED
    BY <1>1, Invariance, PTL

\* No frame is overwritten before it is read, though space is given back
\* (eth.c:584-596) before the frame is discounted and others arrive meanwhile.
THEOREM UnreadFramesKept ==
    ASSUME RingAssumption
    PROVE  Spec /\ Quiet => []UnreadKept
  <1>1. IInv => UnreadKept
    BY DEF IInv
  <1> QED
    BY <1>1, Invariance, PTL

\* What is copied, and the zero after it, fit the buffer (eth.c:568-570).
THEOREM FramesFit ==
    ASSUME RingAssumption
    PROVE  Spec /\ Quiet => []FitsBuffer
  <1>1. IInv => FitsBuffer
    <2> SUFFICES ASSUME IInv PROVE FitsBuffer
      OBVIOUS
    <2>0. MAX_LENGTH \in Nat \ {0}
      BY Sizes
    <2>1. CASE pc = "copy"
      <3>1. PICK m \in 0 .. length : copied = [j \in 1 .. m |-> <<mem[erdpt].id, j>>]
        BY <2>1 DEF IInv, CopyInv
      <3>2. PICK o : IsChain(o)
        BY DEF IInv, ChainInv
      <3>3. mem[erdpt].len \in Nat
        BY <2>1, <3>2, InHandIsFirst, Sizes DEF IInv, InHand, Vectors
      <3>4. length \in Nat /\ length <= MAX_LENGTH - 1
        BY <2>0, <2>1, <3>3 DEF IInv, CopyInv, Limit
      <3>5. Len(copied) = m
        BY <3>1, <3>4
      <3> QED
        BY <2>0, <3>4, <3>5 DEF FitsBuffer
    <2>2. CASE pc # "copy"
      BY <2>0, <2>2 DEF IInv, CopyInv, FitsBuffer
    <2> QED
      BY <2>1, <2>2
  <1> QED
    BY <1>1, Invariance, PTL
----------------------------------------------------------------------------
\* Steps that leave the chain leave the queue.
LEMMA QueueStays ==
    ASSUME IInv, QueueInv, QueueInv', UNCHANGED <<mem, erxwrpt>>,
           Base' = Base, Waiting' = Waiting
    PROVE  FramesStored' = FramesStored
  <1>1. PICK o : IsChain(o) /\ IsEven(o)
    BY DEF IInv, ChainInv
  <1>2. IsChain(o)'
    BY <1>1, ChainStays
  <1>3. FramesStored = [n \in 1 .. Waiting |-> FrameOf(At(o[n - 1]))]
    BY <1>1 DEF QueueInv
  <1>4. FramesStored' = [n \in 1 .. Waiting' |-> FrameOf(At(o[n - 1])')]
    BY <1>2 DEF QueueInv
  <1>5. \A n : At(o[n - 1])' = At(o[n - 1])
    BY DEF At
  <1> QED
    BY <1>3, <1>4, <1>5

\* A frame that is stored joins the queue.
LEMMA ReceiveImplements ==
    ASSUME RingAssumption, IInv, QueueInv, QueueInv', QuietStep,
           NEW len \in Lengths, NEW ok \in BOOLEAN, HwReceive(len, ok)
    PROVE  Fifo!Next
  <1> DEFINE frame == [id |-> number, len |-> len, ok |-> ok]
  <1>1. PICK o : IsChain(o) /\ IsEven(o) /\ IsWithin(o)
    BY DEF IInv, ChainInv
  <1>2. PICK W : W = Waiting
    OBVIOUS
  <1>3. /\ W \in Nat /\ Waiting' = W + 1
        /\ \E p : /\ IsChain(p)'
                  /\ \A k \in 0 .. W - 1 : At(p[k])' = At(o[k])
                  /\ At(p[W])' = Vector(number, NextStart(erxwrpt, len), len, ok)
    BY <1>1, <1>2, ReceiveExtends
  <1>4. PICK p : /\ IsChain(p)'
                 /\ \A k \in 0 .. W - 1 : At(p[k])' = At(o[k])
                 /\ At(p[W])' = Vector(number, NextStart(erxwrpt, len), len, ok)
    BY <1>3
  <1>5. FramesStored = [n \in 1 .. W |-> FrameOf(At(o[n - 1]))]
    BY <1>1, <1>2 DEF QueueInv
  <1>6. FramesStored' = [n \in 1 .. W + 1 |-> FrameOf(At(p[n - 1])')]
    BY <1>3, <1>4 DEF QueueInv
  <1>7. ASSUME NEW n \in 1 .. W + 1
        PROVE  FrameOf(At(p[n - 1])') = IF n = W + 1 THEN frame ELSE FrameOf(At(o[n - 1]))
    <2>1. CASE n = W + 1
      <3>1. n - 1 = W
        BY <1>3, <2>1
      <3> QED
        BY <1>4, <2>1, <3>1 DEF FrameOf, Vector
    <2>2. CASE n # W + 1
      <3>1. n - 1 \in 0 .. W - 1
        BY <1>3, <2>2
      <3> QED
        BY <1>4, <2>2, <3>1
    <2> QED
      BY <2>1, <2>2
  <1>8. FramesStored' = Append(FramesStored, frame)
    <2> DEFINE before(n) == FrameOf(At(o[n - 1]))
    <2>1. FramesStored' = [n \in 1 .. W + 1 |-> IF n = W + 1 THEN frame ELSE before(n)]
      BY <1>6, <1>7
    <2>2. FramesStored = [n \in 1 .. W |-> before(n)]
      BY <1>5
    <2> HIDE DEF before, frame
    <2>3. Append([n \in 1 .. W |-> before(n)], frame)
             = [n \in 1 .. W + 1 |-> IF n = W + 1 THEN frame ELSE before(n)]
      BY <1>3
    <2> QED
      BY <2>1, <2>2, <2>3
  <1>9. frame \in [id : Ids, len : Lengths, ok : BOOLEAN]
    BY DEF IInv, TypeInv, TypeOK
  <1>10. packet' = packet
    BY DEF HwReceive
  <1> QED
    BY <1>8, <1>9, <1>10 DEF Fifo!Next, Fifo!Receive

\* A frame that is copied to its end leaves the queue, from the front.
LEMMA CopyEndImplements ==
    ASSUME RingAssumption, IInv, QueueInv, QueueInv', CopyEnd
    PROVE  Fifo!HandOver
  <1>1. PICK o : IsChain(o) /\ IsEven(o) /\ IsWithin(o)
    BY DEF IInv, ChainInv
  <1>2. PICK W : W = Waiting
    OBVIOUS
  <1>3. /\ W > 0 /\ Waiting' = W - 1
        /\ \E p : IsChain(p)' /\ \A k \in 0 .. W - 2 : At(p[k])' = At(o[k + 1])
    BY <1>1, <1>2, CopyEndShifts
  <1>4. PICK p : IsChain(p)' /\ \A k \in 0 .. W - 2 : At(p[k])' = At(o[k + 1])
    BY <1>3
  <1>5. W \in Nat
    BY <1>2, Sizes DEF IInv, TypeInv, TypeOK, Waiting
  <1>6. FramesStored = [n \in 1 .. W |-> FrameOf(At(o[n - 1]))]
    BY <1>1, <1>2 DEF QueueInv
  <1>7. FramesStored' = [n \in 1 .. W - 1 |-> FrameOf(At(p[n - 1])')]
    BY <1>3, <1>4 DEF QueueInv
  <1>8. ASSUME NEW n \in 1 .. W - 1 PROVE FrameOf(At(p[n - 1])') = FrameOf(At(o[n]))
    <2>1. n - 1 \in 0 .. W - 2 /\ (n - 1) + 1 = n
      BY <1>5
    <2> QED
      BY <1>4, <2>1
  <1>9. FramesStored' = Tail(FramesStored) /\ FramesStored # << >>
        /\ Head(FramesStored) = FrameOf(At(o[0]))
    <2> DEFINE f(n) == FrameOf(At(o[n]))
    <2>1. FramesStored' = [n \in 1 .. W - 1 |-> f(n)]
      BY <1>7, <1>8
    <2>2. FramesStored = [n \in 1 .. W |-> f(n - 1)]
      BY <1>6
    <2> HIDE DEF f
    <2>3. /\ Tail([n \in 1 .. W |-> f(n - 1)]) = [n \in 1 .. W - 1 |-> f(n)]
          /\ [n \in 1 .. W |-> f(n - 1)] # << >>
          /\ Head([n \in 1 .. W |-> f(n - 1)]) = f(0)
      BY <1>3, <1>5
    <2> QED
      BY <2>1, <2>2, <2>3 DEF f
  <1>10. packet' = Fifo!DataOf(FrameOf(mem[erdpt]))
    <2> DEFINE v == mem[erdpt]
    <2>1. v.len \in Nat
      BY <1>1, InHandIsFirst, Sizes DEF IInv, InHand, CopyEnd, Vectors
    <2>2. MAX_LENGTH \in Nat \ {0}
      BY Sizes
    <2>3. /\ packet' = copied /\ Len(copied) = length
          /\ length = IF v.ok THEN Limit(v.len) ELSE 0
      BY DEF CopyEnd, IInv, CopyInv
    <2>4. PICK m \in 0 .. length : copied = [j \in 1 .. m |-> <<v.id, j>>]
      BY DEF IInv, CopyInv, CopyEnd
    <2>5. length \in Nat /\ m = length
      <3>1. length \in Nat
        BY <2>1, <2>2, <2>3 DEF Limit
      <3>2. m \in Nat
        BY <3>1
      <3>3. Len(copied) = m
        BY <2>4, <3>2
      <3> QED
        BY <2>3, <3>1, <3>3
    <2>6. CASE v.ok
      <3>1. length = Fifo!Shorter(v.len, MAX_LENGTH - 1)
        BY <2>1, <2>2, <2>3, <2>6 DEF Limit, Fifo!Shorter
      <3> QED
        BY <2>3, <2>4, <2>5, <2>6, <3>1 DEF Fifo!DataOf, FrameOf
    <2>7. CASE ~ v.ok
      <3>1. copied = << >>
        BY <2>3, <2>4, <2>5, <2>7
      <3> QED
        BY <2>3, <2>7, <3>1 DEF Fifo!DataOf, FrameOf
    <2> QED
      BY <2>6, <2>7
  <1>11. At(o[0]) = mem[erdpt]
    BY <1>1, InHandIsFirst DEF IInv, InHand, CopyEnd
  <1> QED
    BY <1>9, <1>10, <1>11 DEF Fifo!HandOver

LEMMA StepImplements ==
    RingAssumption /\ IInv /\ QueueInv /\ QueueInv' /\ [Next]_vars /\ [QuietStep]_vars
        => [Fifo!Next]_(Fifo!vars)
  <1> SUFFICES ASSUME RingAssumption, IInv, QueueInv, QueueInv', [Next]_vars, [QuietStep]_vars
               PROVE  Fifo!Next \/ UNCHANGED <<FramesStored, packet>>
    BY DEF Fifo!vars
  <1>1. ASSUME NEW len \in Lengths, NEW ok \in BOOLEAN, HwReceive(len, ok) PROVE Fifo!Next
    <2>1. epktcnt' # epktcnt
      BY <1>1 DEF HwReceive, IInv, TypeInv, TypeOK
    <2>2. QuietStep
      BY <2>1 DEF vars
    <2> QED
      BY <1>1, <2>2, ReceiveImplements
  <1>2. CASE CopyEnd
    BY <1>2, CopyEndImplements DEF Fifo!Next
  <1>3. CASE \/ CheckCount \/ ReadVector \/ CopyByte
             \/ SetReadPointer \/ SetReadPointerErrata \/ PacketDecrement
             \/ UNCHANGED vars
    <2>1. UNCHANGED <<mem, erxwrpt, packet>> /\ Base' = Base /\ Waiting' = Waiting
      BY <1>3 DEF CheckCount, ReadVector, CopyByte, SetReadPointer, SetReadPointerErrata,
                  PacketDecrement, vars, hw, Base, Waiting, InHand
    <2> QED
      BY <2>1, QueueStays
  <1> QED
    BY <1>1, <1>2, <1>3 DEF Next, EthReceivePacket

\* Reception implements the queue of frames: each call of eth_receive_packet
\* takes the oldest, whole or cut, whatever arrives meanwhile (eth.c:537).
THEOREM RingImplementsQueue ==
    ASSUME RingAssumption
    PROVE  Spec /\ Quiet => Refinement
  <1>1. Init => Fifo!Init
    <2> SUFFICES ASSUME Init PROVE FramesStored = << >> /\ packet = << >>
      BY DEF Fifo!Init
    <2>1. Waiting = 0
      BY DEF Init, Waiting
    <2> QED
      BY <2>1 DEF Init, FramesStored
  <1>2. IInv => QueueInv
    BY FramesAre DEF IInv
  <1>3. IInv /\ QueueInv /\ QueueInv' /\ [Next]_vars /\ [QuietStep]_vars => [Fifo!Next]_(Fifo!vars)
    BY StepImplements
  <1> QED
    BY <1>1, <1>2, <1>3, Invariance, PTL DEF Spec, Quiet, Refinement, Fifo!Spec

\* A ring whose last address is odd has no such window: the write pointer, which
\* is even, never comes to be one byte before the next packet.
THEOREM OddRingNeedsNothing ==
    ASSUME RingAssumption, RX_STOP % 2 = 1
    PROVE  Spec => [](TypeOK /\ FitsBuffer /\ UnreadKept) /\ Refinement
  <1>1. QuietStep
    BY DEF QuietStep
  <1>2. Spec => Quiet
    BY <1>1, PTL DEF Quiet
  <1> QED
    BY <1>2, PointersInRing, FramesFit, UnreadFramesKept, RingImplementsQueue, PTL
=============================================================================
