-------------------------- MODULE LegoMount_proofs --------------------------
(***************************************************************************)
(* Theorems about the LEGO telescope of SORT: what the variables of the    *)
(* brick may hold, and that the cables of the azimuth are not wound up,    *)
(* for every calibration, motor and list of goals.                         *)
(***************************************************************************)
EXTENDS LegoMount, TLAPS

\* A variable of the brick is a word of 16 bits.
HalfWord == 2^15

Bits16 == -HalfWord..(HalfWord - 1)

\* The angles that may be written for an axis.
Angle(a) == {g[a] : g \in Goals \cup {Start}}

\* Where the loop may be.
Places == ({"max", "min", "set_max", "set_min"} \X {"el"})
          \cup ({"mod", "set_mod", "home", "wait"} \X {"az"})
          \cup ({"test", "scale", "keep", "drive"} \X Axes)

\* Types: the program of the brick, the motors and sensors, the host.
ProgramTyped ==
    /\ at \in Places
    /\ target \in [Axes -> Bits16] /\ real \in [Axes -> Bits16] /\ prev \in [Axes -> Bits16]
    /\ enc \in [Axes -> Int]
    /\ state \in [Axes -> {"up", "down", "stop"}]
    /\ temp \in -AZIMUTH_MAX..AZIMUTH_MAX
    /\ looped \in BOOLEAN

BodyTyped ==
    /\ encoder \in [Axes -> Int] /\ encoder.el \in Reach.el
    /\ winding \in Reach.az
    /\ (winding - encoder.az + Lead) % Circle < Pressed

HostTyped ==
    /\ actions \in Seq(Goals) /\ Len(actions) <= moves /\ moves \in 0..MaxMoves
    /\ mover \in Axes
    /\ commanded \in [Axes -> Int] /\ \A a \in Axes : commanded[a] \in Angle(a)
    /\ raced \subseteq Axes /\ astray \in BOOLEAN

Typed == ProgramTyped /\ BodyTyped /\ HostTyped

\* Where the loop counts on an azimuth that is less than AZIMUTH_MAX, and where it
\* has scaled its first one.
Reduced == ({"test", "scale"} \X Axes) \cup ({"keep", "drive"} \X {"el"}) \cup {<<"home", "az">>}

Settled == {"keep", "drive", "wait"} \X {"az"}

\* The register holds an azimuth within the limits, in the first round not 0: the
\* memory of the loop begins with 0, and would take that for a target it has seen.
Reducing == at = <<"set_mod", "az">> =>
    temp \in 0..(AZIMUTH_MAX - 1) /\ Clear(temp) /\ (looped \/ temp # 0)

\* Until the first target is scaled, it differs from what the loop remembers.
Unscaled == looped \/ at \in Settled \/ (prev.az = 0 /\ Rem(target.az, AZIMUTH_MAX) # 0)

\* A motor that is on has more than ENC_RANGE to go.
Driven ==
    at = <<"wait", "az">> => /\ state.az = "up" => encoder.az < enc.az - ENC_RANGE
                             /\ state.az = "down" => encoder.az > enc.az + ENC_RANGE

\* The counts of the azimuth that stay below the touch sensor's next place, wherever
\* on its first place they began.
Span == 0..(Circle - Pressed)

\* The azimuth is counted from a place on the touch sensor where the calibration
\* ended, within that turn, and what the loop has of its target leads it nowhere else.
Steady ==
    /\ winding - encoder.az \in -Lead..(Pressed - 1 - Lead)
    /\ encoder.az \in Span
    /\ Clear(target.az)
    /\ Reducing
    /\ at \in Reduced => target.az < AZIMUTH_MAX
    /\ looped \/ at \in Settled => enc.az \in Span
    /\ Unscaled
    /\ Driven

-----------------------------------------------------------------------------
\* The remainder of a division, and what it is of.
LEMMA DivMod ==
    ASSUME NEW n \in Int, NEW d \in Nat \ {0}
    PROVE  /\ n \div d \in Int /\ n % d \in Int
           /\ 0 <= n % d /\ n % d < d /\ n = d * (n \div d) + (n % d)
BY SMT

\* There is one quotient and one remainder.
LEMMA DivisionUnique ==
    ASSUME NEW n \in Int, NEW d \in Nat \ {0}, NEW q \in Int, NEW r \in Int,
           n = d * q + r, 0 <= r, r < d
    PROVE  n \div d = q /\ n % d = r
BY DivMod

\* A quotient of natural numbers.
LEMMA DivNat ==
    ASSUME NEW n \in Nat, NEW d \in Nat \ {0}
    PROVE  /\ n \div d \in Nat /\ n \div d <= n
           /\ d * (n \div d) <= n /\ n < d * (n \div d) + d
BY DivMod

\* Dividing by a number that is not 0 brings no number further from 0.
LEMMA QuotBounds ==
    ASSUME NEW a \in Int, NEW b \in Int \ {0}, NEW m \in Nat, -m <= a, a <= m
    PROVE  Quot(a, b) \in -m..m
<1> DEFINE q(n, d) == IF n >= 0 THEN n \div d ELSE -((-n) \div d)
<1>1. ASSUME NEW d \in Nat \ {0}
      PROVE  q(a, d) \in -m..m
  <2>1. CASE a >= 0
    <3>1. a \in Nat
      BY <2>1
    <3>2. a \div d \in Nat /\ a \div d <= a
      BY <3>1, DivNat
    <3>3. QED
      BY <2>1, <3>2
  <2>2. CASE a < 0
    <3>1. -a \in Nat
      BY <2>2
    <3>2. (-a) \div d \in Nat /\ (-a) \div d <= -a
      BY <3>1, DivNat
    <3>3. QED
      BY <2>2, <3>2
  <2>3. QED
    BY <2>1, <2>2
<1>2. CASE b > 0
  <2>1. b \in Nat \ {0}
    BY <1>2
  <2>2. Quot(a, b) = q(a, b)
    BY <1>2 DEF Quot
  <2>3. QED
    BY <1>1, <2>1, <2>2
<1>3. CASE b < 0
  <2>1. -b \in Nat \ {0}
    BY <1>3
  <2>2. Quot(a, b) = -q(a, -b)
    BY <1>3 DEF Quot
  <2>3. q(a, -b) \in -m..m
    BY <1>1, <2>1
  <2>4. QED
    BY <2>2, <2>3
<1>4. QED
  BY <1>2, <1>3

\* Of natural numbers, the division of the brick is the usual one.
LEMMA QuotNat ==
    ASSUME NEW n \in Nat, NEW d \in Nat \ {0}
    PROVE  Quot(n, d) = n \div d
BY DEF Quot

\* The remainder of the brick has the sign of the dividend.
LEMMA RemBounds ==
    ASSUME NEW n \in Int, NEW d \in Nat \ {0}
    PROVE  Rem(n, d) \in -(d - 1)..(d - 1) /\ (n >= 0 => Rem(n, d) \in 0..(d - 1))
<1>1. CASE n >= 0
  <2>1. n \in Nat
    BY <1>1
  <2>2. n \div d \in Nat /\ d * (n \div d) <= n /\ n < d * (n \div d) + d
    BY <2>1, DivNat
  <2>3. Rem(n, d) = n - d * (n \div d)
    BY <2>1, QuotNat DEF Rem
  <2> DEFINE p == d * (n \div d)
  <2>4. p \in Int
    BY <2>2
  <2> HIDE DEF p
  <2>5. p <= n /\ n < p + d /\ Rem(n, d) = n - p
    BY <2>2, <2>3 DEF p
  <2>6. QED
    BY <2>4, <2>5
<1>2. CASE n < 0
  <2>1. -n \in Nat
    BY <1>2
  <2>2. (-n) \div d \in Nat /\ d * ((-n) \div d) <= -n /\ -n < d * ((-n) \div d) + d
    BY <2>1, DivNat
  <2>3. Rem(n, d) = n - d * (-((-n) \div d))
    BY <1>2 DEF Rem, Quot
  <2> DEFINE k == (-n) \div d
             p == d * k
  <2>4. k \in Nat /\ p \in Int
    BY <2>2
  <2>5. d * (-k) = -p
    BY <2>4, SMT
  <2>6. p <= -n /\ -n < p + d /\ Rem(n, d) = n + p
    BY <2>2, <2>3, <2>5, <2>4
  <2> HIDE DEF p, k
  <2>7. QED
    BY <1>2, <2>4, <2>6
<1>3. QED
  BY <1>1, <1>2

\* A number less than the divisor is left as it is.
LEMMA RemOfReduced ==
    ASSUME NEW d \in Nat \ {0}, NEW n \in 0..(d - 1)
    PROVE  n \div d = 0 /\ n % d = n /\ Rem(n, d) = n
<1>1. n \div d = 0 /\ n % d = n
  BY DivisionUnique
<1>2. Quot(n, d) = 0
  BY <1>1, QuotNat
<1>3. QED
  BY <1>1, <1>2 DEF Rem

\* Words are integers.
LEMMA Word == HalfWord \in Nat \ {0} /\ Bits16 \subseteq Int /\ 0 \in Bits16
<1>1. HalfWord \in Nat \ {0}
  BY SMT DEF HalfWord
<1>2. QED
  BY <1>1 DEF Bits16

\* What is assumed of the constants, each by itself.
LEMMA MountConstants ==
    /\ AZIMUTH_MAX \in Nat \ {0} /\ ELEVATION_MAX \in Nat \ {0} /\ ENC_RANGE \in Nat \ {0}
    /\ Turn \in Nat \ {0} /\ Quarter \in Nat \ {0} /\ Speed \in Nat \ {0} /\ MaxMoves \in Nat
    /\ Circle \in Nat \ {0} /\ Pressed \in Nat \ {0} /\ Pressed < Circle
    /\ Lead \in 0..(Pressed - 1) /\ Circle - Pressed < Turn
    /\ Turn * 10 >= AZIMUTH_MAX /\ Quarter * 100 >= ELEVATION_MAX
    /\ Turn * 10 < HalfWord /\ Quarter * 100 < HalfWord
    /\ Reach.el \subseteq Int /\ Reach.az \subseteq Int /\ 0 \in Reach.el /\ 0 \in Reach.az
    /\ \A n \in Reach.el : -HalfWord < n * 100 /\ n * 100 < HalfWord
<1>1. /\ {AZIMUTH_MAX, ELEVATION_MAX, ENC_RANGE, Turn, Quarter, Speed, Circle, Pressed}
            \subseteq Nat \ {0}
      /\ MaxMoves \in Nat /\ Speed <= Pressed /\ Pressed < Circle /\ Lead \in 0..(Speed - 1)
      /\ \E late \in 0..(Speed - 1) : Turn = Lead + Circle - (Pressed - 1 - late)
      /\ Turn * 10 >= AZIMUTH_MAX /\ Quarter * 100 >= ELEVATION_MAX
      /\ Turn * 10 < HalfWord /\ Quarter * 100 < HalfWord
      /\ Reach \in [Axes -> SUBSET Int] /\ \A a \in Axes : 0 \in Reach[a]
      /\ \A n \in Reach.el : -HalfWord < n * 100 /\ n * 100 < HalfWord
  BY LegoMountAssumption, Zenon DEF HalfWord
<1>2. Reach.el \subseteq Int /\ Reach.az \subseteq Int /\ 0 \in Reach.el /\ 0 \in Reach.az
  BY <1>1 DEF Axes
<1>3. Lead \in 0..(Pressed - 1) /\ Circle - Pressed < Turn
  <2>1. PICK late \in 0..(Speed - 1) : Turn = Lead + Circle - (Pressed - 1 - late)
    BY <1>1
  <2>2. Speed \in Nat /\ Pressed \in Nat /\ Circle \in Nat /\ Lead \in Nat /\ late \in Nat
    BY <1>1
  <2>3. QED
    BY <1>1, <2>1, <2>2
<1>4. QED
  BY <1>1, <1>2, <1>3

\* Goals fit the words they are written to; the first target is within the turn.
LEMMA GoalsTyped ==
    /\ Goals \cup {Start} \subseteq [Axes -> Bits16]
    /\ Start.az \in 1..(AZIMUTH_MAX - 1)
    /\ Garbage \subseteq Int
BY LegoMountAssumption, Zenon DEF Bits16, HalfWord

\* Ten degrees of azimuth are a count at least, and all the turn not more than it.
LEMMA AzimuthFactor ==
    /\ enc_azim_factor \in Nat \ {0}
    /\ enc_azim_factor * AZIMUTH_MAX <= Turn * 10
<1>1. Turn * 10 \in Nat /\ AZIMUTH_MAX \in Nat \ {0} /\ Turn * 10 >= AZIMUTH_MAX
  BY MountConstants
<1> DEFINE n == Turn * 10
           q == n \div AZIMUTH_MAX
<1> HIDE DEF n
<1>2. q \in Nat /\ AZIMUTH_MAX * q <= n /\ n < AZIMUTH_MAX * q + AZIMUTH_MAX
  <2>1. n \in Nat
    BY <1>1 DEF n
  <2>2. QED
    BY <2>1, <1>1, DivNat
<1>3. enc_azim_factor = q
  BY <1>1, QuotNat DEF enc_azim_factor, n
<1> HIDE DEF q
<1>4. q # 0
  <2>1. SUFFICES ASSUME q = 0
                 PROVE  FALSE
    OBVIOUS
  <2>2. AZIMUTH_MAX * q = 0
    BY <2>1, <1>1
  <2>3. QED
    BY <2>2, <1>1, <1>2 DEF n
<1>5. AZIMUTH_MAX * q = q * AZIMUTH_MAX
  BY <1>1, <1>2
<1>6. QED
  BY <1>2, <1>3, <1>4, <1>5 DEF n

\* The elevation counts down from 0.
LEMMA ElevationFactor == enc_elev_factor \in Int \ {0}
<1> DEFINE n == Quarter * 100
<1>1. n \in Nat \ {0} /\ ELEVATION_MAX \in Nat \ {0} /\ n >= ELEVATION_MAX
  BY MountConstants
<1>2. enc_elev_factor = -(n \div ELEVATION_MAX)
  <2>1. -Quarter * 100 = -n /\ -(-n) = n
    BY MountConstants
  <2> HIDE DEF n
  <2>2. Quot(-n, ELEVATION_MAX) = -(n \div ELEVATION_MAX)
    BY <1>1, <2>1 DEF Quot
  <2>3. QED
    BY <2>1, <2>2 DEF enc_elev_factor
<1> DEFINE q == n \div ELEVATION_MAX
<1> HIDE DEF n
<1>3. q \in Nat /\ n < ELEVATION_MAX * q + ELEVATION_MAX
  BY <1>1, DivNat
<1> HIDE DEF q
<1>4. q # 0
  <2>1. SUFFICES ASSUME q = 0
                 PROVE  FALSE
    OBVIOUS
  <2>2. ELEVATION_MAX * q = 0
    BY <2>1, <1>1
  <2>3. QED
    BY <2>2, <1>1, <1>3
<1>5. QED
  BY <1>2, <1>3, <1>4 DEF q

\* An azimuth within its limits scales to a count within the turn.
LEMMA ScaledAzimuth ==
    ASSUME NEW degrees \in 0..(AZIMUTH_MAX - 1)
    PROVE  Scaled("az", degrees) \in 0..(Turn - 1)
<1> DEFINE f == enc_azim_factor
           p == f * degrees
<1>1. f \in Nat \ {0} /\ f * AZIMUTH_MAX <= Turn * 10 /\ AZIMUTH_MAX \in Nat \ {0}
      /\ Turn \in Nat \ {0}
  BY AzimuthFactor, MountConstants
<1> HIDE DEF f
<1>2. p \in Nat /\ p < Turn * 10
  <2>1. f * degrees <= f * (AZIMUTH_MAX - 1)
    BY <1>1
  <2>2. f * (AZIMUTH_MAX - 1) = f * AZIMUTH_MAX - f
    BY <1>1
  <2>3. f * AZIMUTH_MAX \in Int /\ f * (AZIMUTH_MAX - 1) \in Int /\ f * degrees \in Nat
    BY <1>1
  <2>4. QED
    BY <2>1, <2>2, <2>3, <1>1
<1>3. Scaled("az", degrees) = p \div 10
  BY <1>2, QuotNat DEF Scaled, f
<1> HIDE DEF p
<1>4. p \div 10 \in Nat /\ 10 * (p \div 10) <= p
  BY <1>2, DivNat
<1>5. QED
  BY <1>1, <1>2, <1>3, <1>4

\* A scaled angle is a count.
LEMMA ScaledInt ==
    ASSUME NEW a \in Axes, NEW degrees \in Int
    PROVE  Scaled(a, degrees) \in Int
<1>1. ASSUME NEW n \in Int, NEW d \in Nat \ {0}
      PROVE  Quot(n, d) \in Int
  <2>1. PICK m \in Nat : -m <= n /\ n <= m
    <3>1. CASE n >= 0
      BY <3>1
    <3>2. CASE n < 0
      <4>1. -n \in Nat
        BY <3>2
      <4>2. QED
        BY <4>1, <3>2
    <3>3. QED
      BY <3>1, <3>2
  <2>2. Quot(n, d) \in -m..m
    BY <2>1, QuotBounds
  <2>3. QED
    BY <2>2
<1>2. enc_azim_factor * degrees \in Int /\ enc_elev_factor * degrees \in Int
  BY AzimuthFactor, ElevationFactor
<1>3. QED
  BY <1>1, <1>2 DEF Scaled

\* What is left of a Clear azimuth modulo a turn is Clear, and scales to a count
\* below the next touch sensor.
LEMMA ClearReduced ==
    ASSUME NEW degrees \in Int, Clear(degrees)
    PROVE  /\ Rem(degrees, AZIMUTH_MAX) \in 0..(AZIMUTH_MAX - 1)
           /\ Clear(Rem(degrees, AZIMUTH_MAX))
           /\ Scaled("az", Rem(degrees, AZIMUTH_MAX)) \in Span
<1> DEFINE r == Rem(degrees, AZIMUTH_MAX)
<1>1. degrees >= 0 /\ Scaled("az", r) <= Circle - Pressed /\ AZIMUTH_MAX \in Nat \ {0}
  BY MountConstants DEF Clear
<1>2. r \in 0..(AZIMUTH_MAX - 1)
  BY <1>1, RemBounds
<1>3. Rem(r, AZIMUTH_MAX) = r
  <2> HIDE DEF r
  <2>1. QED
    BY <1>1, <1>2, RemOfReduced
<1>4. Scaled("az", r) \in 0..(Turn - 1)
  <2> HIDE DEF r
  <2>1. QED
    BY <1>2, ScaledAzimuth
<1>5. r >= 0
  <2> HIDE DEF r
  <2>1. QED
    BY <1>1, <1>2
<1> HIDE DEF r
<1>6. Clear(r)
  BY <1>1, <1>3, <1>5 DEF Clear
<1>7. Scaled("az", r) \in Span
  <2> DEFINE c == Scaled("az", r)
  <2>1. c \in 0..(Turn - 1) /\ c <= Circle - Pressed
    BY <1>1, <1>4 DEF r
  <2> HIDE DEF c
  <2>2. c \in 0..(Circle - Pressed)
    BY <2>1, MountConstants
  <2>3. QED
    BY <2>2 DEF c, Span
<1>8. QED
  BY <1>2, <1>6, <1>7 DEF r

\* The reading of the azimuth is within the turn, and is the encoder itself there.
LEMMA Sensor3 ==
    ASSUME NEW n \in Int
    PROVE  sensor_3(n) \in 0..Turn /\ (n \in 0..(Turn - 1) => sensor_3(n) = n)
<1>1. Turn \in Nat \ {0}
  BY MountConstants
<1>2. Rem(n, Turn) \in -(Turn - 1)..(Turn - 1) /\ (n >= 0 => Rem(n, Turn) \in 0..(Turn - 1))
  BY <1>1, RemBounds
<1>3. n < 0 => Rem(n, Turn) <= 0
  <2> SUFFICES ASSUME n < 0
               PROVE  Rem(n, Turn) <= 0
    OBVIOUS
  <2> DEFINE k == (-n) \div Turn
  <2>1. -n \in Nat
    OBVIOUS
  <2>2. k \in Nat /\ Turn * k <= -n
    BY <1>1, <2>1, DivNat
  <2>3. Rem(n, Turn) = n - Turn * (-k)
    BY <1>1 DEF Rem, Quot
  <2> HIDE DEF k
  <2>4. Turn * (-k) = -(Turn * k) /\ Turn * k \in Int
    BY <1>1, <2>2
  <2>5. QED
    BY <2>2, <2>3, <2>4
<1>4. n \in 0..(Turn - 1) => Rem(n, Turn) = n
  BY <1>1, RemOfReduced
<1>5. QED
  BY <1>1, <1>2, <1>3, <1>4 DEF sensor_3

\* What the loop calculates of an encoder fits a word.
LEMMA RealElevation ==
    ASSUME NEW n \in Reach.el
    PROVE  Quot(n * 100, enc_elev_factor) \in Bits16
<1> DEFINE m == HalfWord - 1
<1>1. n \in Int /\ -HalfWord < n * 100 /\ n * 100 < HalfWord /\ HalfWord \in Nat \ {0}
  BY MountConstants, Word
<1>2. m \in Nat /\ n * 100 \in Int /\ -m <= n * 100 /\ n * 100 <= m
  BY <1>1
<1>3. Quot(n * 100, enc_elev_factor) \in -m..m
  <2> HIDE DEF m
  <2>1. QED
    BY <1>2, ElevationFactor, QuotBounds
<1>4. QED
  BY <1>1, <1>3 DEF Bits16

\* So does what it calculates of the azimuth.
LEMMA RealAzimuth ==
    ASSUME NEW n \in Int
    PROVE  Quot(sensor_3(n) * 10, enc_azim_factor) \in Bits16
<1> DEFINE p == sensor_3(n) * 10
           m == HalfWord - 1
<1>1. p \in Nat /\ p <= m /\ m \in Nat /\ HalfWord \in Nat
  BY Sensor3, MountConstants, Word
<1> HIDE DEF p, m
<1>2. enc_azim_factor \in Int \ {0} /\ p \in Int /\ -m <= p
  BY <1>1, AzimuthFactor
<1>3. Quot(p, enc_azim_factor) \in -m..m
  BY <1>1, <1>2, QuotBounds
<1>4. QED
  BY <1>1, <1>3 DEF Bits16, p, m

\* The first state has the types.
LEMMA TypedInit == MountInit => Typed
<1> SUFFICES ASSUME MountInit
             PROVE  Typed
  OBVIOUS
<1> USE DEF MountInit
<1>1. Start \in [Axes -> Bits16]
  BY GoalsTyped
<1>2. 0 \in Bits16 /\ Bits16 \subseteq Int /\ MaxMoves \in Nat
  BY Word, MountConstants
<1>3. ProgramTyped
  <2>1. at \in Places /\ state \in [Axes -> {"up", "down", "stop"}] /\ looped \in BOOLEAN
    BY DEF Places
  <2>2. target \in [Axes -> Bits16] /\ real \in [Axes -> Bits16] /\ prev \in [Axes -> Bits16]
    BY <1>1, <1>2
  <2>3. enc \in [Axes -> Int]
    BY GoalsTyped
  <2>4. temp \in -AZIMUTH_MAX..AZIMUTH_MAX
    BY MountConstants
  <2>5. QED
    BY <2>1, <2>2, <2>3, <2>4 DEF ProgramTyped
<1>4. BodyTyped
  <2>1. encoder \in [Axes -> Int] /\ encoder.el \in Reach.el /\ winding \in Reach.az
    BY MountConstants DEF Axes
  <2>2. winding - encoder.az + Lead = Lead /\ Lead \in 0..(Circle - 1) /\ Lead < Pressed
    BY MountConstants DEF Axes
  <2>3. Lead % Circle = Lead
    BY <2>2, MountConstants, RemOfReduced
  <2>4. QED
    BY <2>1, <2>2, <2>3 DEF BodyTyped
<1>5. HostTyped
  <2>1. actions \in Seq(Goals) /\ Len(actions) <= moves /\ moves \in 0..MaxMoves
    BY <1>2
  <2>2. commanded \in [Axes -> Int] /\ \A a \in Axes : commanded[a] \in Angle(a)
    BY <1>1, <1>2 DEF Angle
  <2>3. mover \in Axes /\ raced \subseteq Axes /\ astray \in BOOLEAN
    BY DEF Axes, Clear
  <2>4. QED
    BY <2>1, <2>2, <2>3 DEF HostTyped
<1>6. QED
  BY <1>3, <1>4, <1>5 DEF Typed

\* The places, one by one.
LEMMA PlacesOfTheLoop ==
    /\ {<<"max", "el">>, <<"min", "el">>, <<"set_max", "el">>, <<"set_min", "el">>,
        <<"mod", "az">>, <<"set_mod", "az">>, <<"home", "az">>, <<"wait", "az">>} \subseteq Places
    /\ \A a \in Axes : {<<"test", a>>, <<"scale", a>>, <<"keep", a>>, <<"drive", a>>} \subseteq Places
    /\ {<<"test", "el">>, <<"test", "az">>} \subseteq Places
BY DEF Places, Axes

\* The loop goes from place to place, and leaves the host alone.
LEMMA LoopPlaces ==
    ASSUME at \in Places, Loop
    PROVE  at' \in Places /\ UNCHANGED host
<1>1. CASE Clamp
  BY <1>1, PlacesOfTheLoop DEF Clamp, Decide
<1>2. CASE SetLimit
  BY <1>2, PlacesOfTheLoop DEF SetLimit
<1>3. CASE Modulo \/ SetModulo
  BY <1>3, PlacesOfTheLoop DEF Modulo, SetModulo, body
<1>4. CASE Home \/ Wait
  BY <1>4, PlacesOfTheLoop DEF Home, Wait
<1>5. ASSUME NEW a \in Axes, Test(a) \/ Scale(a) \/ Keep(a) \/ Drive(a)
      PROVE  at' \in Places /\ UNCHANGED host
  <2>1. CASE Test(a)
    BY <2>1, PlacesOfTheLoop DEF Test, Decide
  <2>2. CASE Scale(a)
    BY <2>2, PlacesOfTheLoop DEF Scale
  <2>3. CASE Keep(a)
    BY <2>3, PlacesOfTheLoop DEF Keep
  <2>4. CASE Drive(a)
    BY <2>4, PlacesOfTheLoop DEF Drive
  <2>5. QED
    BY <1>5, <2>1, <2>2, <2>3, <2>4
<1>6. QED
  BY <1>1, <1>2, <1>3, <1>4, <1>5 DEF Loop

\* The loop keeps its variables within a word.
LEMMA LoopKeepsProgramTyped ==
    ASSUME ProgramTyped, BodyTyped, Loop
    PROVE  ProgramTyped'
<1>1. at' \in Places
  BY LoopPlaces DEF ProgramTyped
<1> USE DEF ProgramTyped
<1>2. CASE Clamp
  BY <1>1, <1>2 DEF Clamp, Decide, program
<1>3. CASE SetLimit
  <2>1. ELEVATION_MAX \in Bits16 /\ 0 \in Bits16
    BY MountConstants, Word DEF Bits16
  <2>2. target' \in [Axes -> Bits16]
    BY <1>3, <2>1 DEF SetLimit
  <2>3. QED
    BY <1>1, <1>3, <2>2 DEF SetLimit
<1>4. CASE Modulo
  <2>1. target.az \in Int
    BY Word DEF Axes
  <2>2. AZIMUTH_MAX \in Nat \ {0}
    BY MountConstants
  <2>3. Rem(target.az, AZIMUTH_MAX) \in -(AZIMUTH_MAX - 1)..(AZIMUTH_MAX - 1)
    BY <2>1, <2>2, RemBounds
  <2>4. temp' \in -AZIMUTH_MAX..AZIMUTH_MAX
    BY <1>4, <2>2, <2>3 DEF Modulo
  <2>5. QED
    BY <1>1, <1>4, <2>4 DEF Modulo
<1>5. CASE SetModulo
  <2>1. -AZIMUTH_MAX..AZIMUTH_MAX \subseteq Bits16 /\ 0 \in -AZIMUTH_MAX..AZIMUTH_MAX
    BY MountConstants, Word DEF Bits16
  <2>2. target' \in [Axes -> Bits16] /\ temp' \in -AZIMUTH_MAX..AZIMUTH_MAX
    BY <1>5, <2>1 DEF SetModulo
  <2>3. real' \in [Axes -> Bits16]
    BY <1>5, RealElevation DEF SetModulo, BodyTyped
  <2>4. QED
    BY <1>1, <1>5, <2>2, <2>3 DEF SetModulo
<1>6. CASE Home
  <2>1. encoder'.az \in Int
    BY <1>6 DEF Home, BodyTyped, Axes
  <2>2. real' \in [Axes -> Bits16]
    BY <1>6, <2>1, RealAzimuth DEF Home
  <2>3. QED
    BY <1>1, <1>6, <2>2 DEF Home
<1>7. CASE Wait
  BY <1>1, <1>7 DEF Wait
<1>8. ASSUME NEW a \in Axes, Test(a) \/ Scale(a) \/ Keep(a) \/ Drive(a)
      PROVE  ProgramTyped'
  <2>1. CASE Test(a)
    BY <1>1, <2>1 DEF Test, Decide, program
  <2>2. CASE Scale(a)
    <3>1. target[a] \in Int
      BY Word
    <3>2. enc' \in [Axes -> Int]
      BY <2>2, <3>1, ScaledInt DEF Scale
    <3>3. QED
      BY <1>1, <2>2, <3>2 DEF Scale
  <2>3. CASE Keep(a)
    <3>1. prev' \in [Axes -> Bits16]
      BY <2>3 DEF Keep
    <3>2. QED
      BY <1>1, <2>3, <3>1 DEF Keep
  <2>4. CASE Drive(a)
    <3>1. state' \in [Axes -> {"up", "down", "stop"}]
      BY <2>4 DEF Drive, Side
    <3>2. target' \in [Axes -> Bits16]
      BY <2>4 DEF Drive, Axes
    <3>3. QED
      BY <1>1, <2>4, <3>1, <3>2 DEF Drive
  <2>5. QED
    BY <1>8, <2>1, <2>2, <2>3, <2>4
<1>9. QED
  BY <1>2, <1>3, <1>4, <1>5, <1>6, <1>7, <1>8 DEF Loop

\* The sensor of the azimuth counts from a place that presses the touch sensor:
\* it is cleared on such a place, and turns with its axis.
LEMMA LoopKeepsBodyTyped ==
    ASSUME ProgramTyped, BodyTyped, Loop
    PROVE  BodyTyped'
<1>1. CASE UNCHANGED body
  BY <1>1 DEF body, BodyTyped
<1>2. CASE Home
  <2>1. CASE SENSOR_1
    <3>1. encoder' \in [Axes -> Int] /\ encoder'.az = 0 /\ encoder'.el = encoder.el
      BY <1>2, <2>1 DEF Home, Axes, BodyTyped
    <3>2. winding' = winding /\ winding \in Int
      BY <1>2, MountConstants DEF Home, BodyTyped
    <3>3. winding' - encoder'.az + Lead = winding + Lead
      BY <3>1, <3>2, MountConstants
    <3>4. QED
      BY <1>2, <2>1, <3>1, <3>2, <3>3 DEF SENSOR_1, BodyTyped
  <2>2. CASE ~SENSOR_1
    BY <1>2, <2>2 DEF Home, BodyTyped
  <2>3. QED
    BY <2>1, <2>2
<1>3. CASE Wait
  <2>1. PICK tilt \in Turns("el", encoder.el) :
          encoder' = [el |-> tilt, az |-> encoder.az + winding' - winding]
    BY <1>3 DEF Wait
  <2>2. winding' \in Reach.az /\ tilt \in Reach.el
    BY <1>3 DEF Wait, Turns, BodyTyped
  <2>3. winding \in Int /\ winding' \in Int /\ encoder.az \in Int /\ tilt \in Int
    BY <2>2, MountConstants DEF Axes, BodyTyped
  <2>4. encoder.az + winding' - winding \in Int
    BY <2>3
  <2>5. encoder'.az = encoder.az + winding' - winding /\ encoder'.el = tilt /\ encoder' \in [Axes -> Int]
    BY <2>1, <2>3, <2>4 DEF Axes
  <2>6. winding' - encoder'.az + Lead = winding - encoder.az + Lead
    BY <2>3, <2>5, MountConstants
  <2>7. QED
    BY <2>2, <2>5, <2>6, Zenon DEF BodyTyped
<1>4. QED
  BY <1>1, <1>2, <1>3 DEF Loop, Clamp, Decide, SetLimit, Modulo, SetModulo, Test, Scale, Keep, Drive,
                          body, program

\* The host queues goals and writes their angles.
LEMMA HostKeepsTyped ==
    ASSUME Typed, (\E a \in Axes : setVariable(a)) \/ (\E goal \in Goals : moveTo(goal))
    PROVE  Typed'
<1> USE DEF Typed, HostTyped
<1>1. ASSUME NEW goal \in Goals, moveTo(goal)
      PROVE  Typed'
  <2>1. ProgramTyped' /\ BodyTyped'
    BY <1>1 DEF moveTo, ProgramTyped, BodyTyped, program, body
  <2>2. moves \in Nat /\ MaxMoves \in Nat
    BY MountConstants
  <2>3. actions' \in Seq(Goals) /\ Len(actions') = Len(actions) + 1 /\ Len(actions) \in Nat
    BY <1>1 DEF moveTo
  <2>4. Len(actions') <= moves' /\ moves' \in 0..MaxMoves
    BY <1>1, <2>2, <2>3 DEF moveTo
  <2>5. QED
    BY <1>1, <2>1, <2>3, <2>4 DEF moveTo
<1>2. ASSUME NEW a \in Axes, setVariable(a)
      PROVE  Typed'
  <2>1. actions # <<>> /\ Head(actions) \in Goals /\ Tail(actions) \in Seq(Goals)
        /\ Len(Tail(actions)) <= Len(actions)
    BY <1>2 DEF setVariable
  <2> DEFINE degrees == Head(actions)[a]
  <2>2. degrees \in Bits16 /\ degrees \in Int /\ degrees \in Angle(a)
    BY <2>1, GoalsTyped, Word DEF Angle
  <2>3. BodyTyped' /\ moves' = moves
    BY <1>2 DEF setVariable, BodyTyped, body
  <2>4. target' \in [Axes -> Bits16]
    BY <1>2, <2>2 DEF setVariable, ProgramTyped
  <2>5. ProgramTyped'
    BY <1>2, <2>4 DEF setVariable, ProgramTyped
  <2>6. commanded' \in [Axes -> Int] /\ \A b \in Axes : commanded'[b] \in Angle(b)
    BY <1>2, <2>2 DEF setVariable
  <2>7. raced' \subseteq Axes /\ mover' \in Axes /\ astray' \in BOOLEAN
    BY <1>2 DEF setVariable, Axes, Clear
  <2>8. actions' \in Seq(Goals) /\ Len(actions') <= moves'
    <3>1. actions' \in {actions, Tail(actions)}
      BY <1>2 DEF setVariable
    <3>2. Len(actions) \in Nat /\ Len(Tail(actions)) \in Nat /\ moves \in Nat
      BY <2>1
    <3>3. actions' \in Seq(Goals)
      BY <2>1, <3>1
    <3>4. Len(actions') <= moves
      <4>1. CASE actions' = actions
        BY <4>1
      <4>2. CASE actions' = Tail(actions)
        <5> DEFINE m == Len(actions)
                   n == Len(Tail(actions))
        <5>1. m \in Nat /\ n \in Nat /\ n <= m /\ m <= moves
          BY <2>1, <3>2
        <5> HIDE DEF m, n
        <5>2. n <= moves
          BY <3>2, <5>1
        <5>3. QED
          BY <4>2, <5>2 DEF n
      <4>3. QED
        BY <3>1, <4>1, <4>2
    <3>5. QED
      BY <2>3, <3>3, <3>4
  <2>9. (\A b \in Axes : commanded[b] \in Angle(b))' <=> \A b \in Axes : commanded'[b] \in Angle(b)
    BY DEF Angle
  <2>10. QED
    BY <2>3, <2>5, <2>6, <2>7, <2>8, <2>9
<1>3. QED
  BY <1>1, <1>2

\* Every step keeps the types.
LEMMA TypedStep == Typed /\ [MountNext]_vars => Typed'
<1> SUFFICES ASSUME Typed, [MountNext]_vars
             PROVE  Typed'
  OBVIOUS
<1>1. CASE Loop
  <2>1. ProgramTyped' /\ BodyTyped'
    BY <1>1, LoopKeepsProgramTyped, LoopKeepsBodyTyped DEF Typed
  <2>2. HostTyped'
    BY <1>1, LoopPlaces DEF Typed, ProgramTyped, HostTyped, host, Angle
  <2>3. QED
    BY <2>1, <2>2 DEF Typed
<1>2. CASE UNCHANGED vars
  BY <1>2 DEF Typed, ProgramTyped, BodyTyped, HostTyped, Angle, vars, program, body, host
<1>3. QED
  BY <1>1, <1>2, HostKeepsTyped DEF MountNext

\* Which places count on what.
LEMMA SteadyPlaces ==
    /\ \A p \in {"max", "min", "set_max", "set_min"} :
          <<p, "el">> \notin Reduced /\ <<p, "el">> \notin Settled
    /\ \A p \in {"mod", "set_mod"} : <<p, "az">> \notin Reduced /\ <<p, "az">> \notin Settled
    /\ \A p \in {"test", "scale"}, a \in Axes : <<p, a>> \in Reduced /\ <<p, a>> \notin Settled
    /\ \A p \in {"keep", "drive"} : <<p, "el">> \in Reduced /\ <<p, "el">> \notin Settled
    /\ <<"home", "az">> \in Reduced /\ <<"home", "az">> \notin Settled
    /\ \A p \in {"keep", "drive", "wait"} : <<p, "az">> \notin Reduced /\ <<p, "az">> \in Settled
BY DEF Reduced, Settled, Axes

\* No step of the loop takes the azimuth on to the next touch sensor.
LEMMA LoopKeepsSteady ==
    ASSUME Speed <= ENC_RANGE + 1, ProgramTyped, BodyTyped, Steady, Loop
    PROVE  Steady'
<1>c. AZIMUTH_MAX \in Nat \ {0} /\ Turn \in Nat \ {0} /\ ENC_RANGE \in Nat /\ Speed \in Nat
      /\ Circle \in Nat \ {0} /\ Pressed \in Nat \ {0} /\ Pressed < Circle
      /\ Lead \in 0..(Pressed - 1) /\ Circle - Pressed < Turn
  BY MountConstants
<1>t. target.az \in Int /\ prev.az \in Int /\ enc.az \in Int /\ winding \in Int
      /\ target \in [Axes -> Bits16] /\ enc \in [Axes -> Int] /\ prev \in [Axes -> Bits16]
      /\ state \in [Axes -> {"up", "down", "stop"}] /\ looped \in BOOLEAN
      /\ encoder \in [Axes -> Int] /\ encoder.az \in Int
  BY MountConstants, Word DEF ProgramTyped, BodyTyped, Axes
<1>s. /\ winding - encoder.az \in -Lead..(Pressed - 1 - Lead) /\ encoder.az \in Span
      /\ Clear(target.az) /\ Reducing
      /\ at \in Reduced => target.az < AZIMUTH_MAX
      /\ looped \/ at \in Settled => enc.az \in Span
      /\ Unscaled /\ Driven
  BY DEF Steady
<1>p. target.az >= 0
  BY <1>s DEF Clear
<1>1. CASE Clamp
  <2>1. at \notin Settled /\ at' \notin Settled /\ at' \notin Reduced
        /\ at' # <<"set_mod", "az">> /\ at' # <<"wait", "az">>
    BY <1>1, SteadyPlaces DEF Clamp, Decide
  <2>2. UNCHANGED <<target, prev, enc, looped, temp, winding, encoder, state>>
    BY <1>1 DEF Clamp, Decide, program, body
  <2>3. Unscaled' /\ Driven' /\ Reducing'
    BY <1>s, <2>1, <2>2 DEF Unscaled, Driven, Reducing
  <2>4. QED
    BY <1>s, <2>1, <2>2, <2>3 DEF Steady
<1>2. CASE SetLimit
  <2>1. at \notin Settled /\ at' \notin Settled /\ at' \notin Reduced
        /\ at' # <<"set_mod", "az">> /\ at' # <<"wait", "az">>
    BY <1>2, SteadyPlaces DEF SetLimit
  <2>2. UNCHANGED <<prev, enc, looped, temp, winding, encoder, state>> /\ target'.az = target.az
    BY <1>2, <1>t DEF SetLimit, body, Axes
  <2>3. Unscaled' /\ Driven' /\ Reducing'
    BY <1>s, <2>1, <2>2 DEF Unscaled, Driven, Reducing
  <2>4. QED
    BY <1>s, <2>1, <2>2, <2>3 DEF Steady
<1>3. CASE Modulo
  <2>1. at \notin Settled /\ at' \notin Settled /\ at' \notin Reduced
        /\ at' = <<"set_mod", "az">> /\ at' # <<"wait", "az">>
    BY <1>3, SteadyPlaces DEF Modulo
  <2>2. UNCHANGED <<target, prev, enc, looped, winding, encoder, state>>
    BY <1>3 DEF Modulo, body
  <2>3. temp' = Rem(target.az, AZIMUTH_MAX)
    BY <1>3 DEF Modulo
  <2>4. temp' \in 0..(AZIMUTH_MAX - 1) /\ Clear(temp')
    BY <1>t, <1>s, <2>3, ClearReduced
  <2>5. Unscaled' /\ Driven'
    BY <1>s, <2>1, <2>2 DEF Unscaled, Driven
  <2>6. Reducing'
    BY <1>s, <2>1, <2>2, <2>3, <2>4 DEF Unscaled, Reducing
  <2>7. QED
    BY <1>s, <2>1, <2>2, <2>5, <2>6 DEF Steady
<1>4. CASE SetModulo
  <2>1. at \notin Settled /\ at' \notin Settled /\ at = <<"set_mod", "az">>
        /\ at' # <<"set_mod", "az">> /\ at' # <<"wait", "az">>
    BY <1>4, SteadyPlaces DEF SetModulo, Axes
  <2>2. UNCHANGED <<prev, enc, looped, winding, encoder, state>> /\ target'.az = temp
    BY <1>4, <1>t DEF SetModulo, body, Axes
  <2>3. temp \in 0..(AZIMUTH_MAX - 1) /\ Clear(temp) /\ (looped \/ temp # 0)
    BY <1>s, <2>1 DEF Reducing
  <2>4. Rem(temp, AZIMUTH_MAX) = temp
    BY <1>c, <2>3, RemOfReduced
  <2>5. Unscaled' /\ Driven' /\ Reducing'
    BY <1>s, <2>1, <2>2, <2>3, <2>4 DEF Unscaled, Driven, Reducing
  <2>6. target'.az < AZIMUTH_MAX /\ Clear(target'.az)
    BY <2>2, <2>3, <1>c
  <2>7. QED
    BY <1>s, <2>1, <2>2, <2>5, <2>6 DEF Steady
<1>5. CASE Home
  <2>1. at \notin Settled /\ at' \notin Settled /\ at \in Reduced
        /\ at' # <<"set_mod", "az">> /\ at' # <<"wait", "az">>
    BY <1>5, SteadyPlaces DEF Home, Axes
  <2>2. UNCHANGED <<target, prev, enc, looped, winding, temp, state>>
    BY <1>5 DEF Home
  <2>3. ASSUME ~SENSOR_1
        PROVE  winding' - encoder'.az \in -Lead..(Pressed - 1 - Lead) /\ encoder'.az \in Span
    <3>1. encoder' = encoder
      BY <1>5, <2>3 DEF Home
    <3>2. QED
      BY <1>s, <2>2, <3>1
  <2>4. ASSUME SENSOR_1
        PROVE  winding' - encoder'.az \in -Lead..(Pressed - 1 - Lead) /\ encoder'.az \in Span
    <3>1. encoder'.az = 0 /\ winding' = winding
      BY <1>5, <1>t, <2>4 DEF Home, Axes
    <3>2. winding + Lead \in 0..(Circle - 1)
      BY <1>c, <1>t, <1>s DEF Span
    <3>3. winding + Lead < Pressed
      <4>1. (winding + Lead) % Circle = winding + Lead
        BY <1>c, <3>2, RemOfReduced
      <4>2. QED
        BY <2>4, <4>1 DEF SENSOR_1
    <3>4. winding' - encoder'.az \in -Lead..(Pressed - 1 - Lead) /\ encoder'.az \in 0..(Circle - Pressed)
      BY <1>c, <1>t, <3>1, <3>2, <3>3
    <3>5. QED
      BY <3>4 DEF Span
  <2>5. Unscaled' /\ Driven' /\ Reducing'
    BY <1>s, <2>1, <2>2 DEF Unscaled, Driven, Reducing
  <2>6. QED
    BY <1>s, <2>1, <2>2, <2>3, <2>4, <2>5 DEF Steady
\* A motor that is on is further from its goal than it turns.
<1>6. CASE Wait
  <2>1. at = <<"wait", "az">> /\ at' = <<"max", "el">> /\ at \in Settled /\ at' \notin Settled
        /\ at' \notin Reduced /\ looped'
    BY <1>6, SteadyPlaces DEF Wait
  <2>2. UNCHANGED <<target, prev, enc, temp, state>>
    BY <1>6 DEF Wait
  <2>3. enc.az \in Span
    BY <1>s, <2>1
  <2>4. winding' \in Turns("az", winding) /\ encoder'.az = encoder.az + winding' - winding
    BY <1>6 DEF Wait
  <2>5. winding' \in Int
    BY <1>t, <1>c, <2>4 DEF Turns
  <2> DEFINE d == winding' - winding
  <2>6. encoder'.az = encoder.az + d /\ winding' - encoder'.az = winding - encoder.az /\ d \in Int
    BY <1>t, <2>4, <2>5
  <2>7. encoder.az + d \in 0..(Circle - Pressed)
    <3>1. CASE winding' = winding
      BY <3>1, <1>s, <1>t, <1>c DEF Span
    <3>2. CASE state.az = "up" /\ winding' \in (winding + 1)..(winding + Speed)
      <4>1. encoder.az < enc.az - ENC_RANGE
        BY <1>s, <2>1, <3>2 DEF Driven
      <4>2. d \in 1..Speed
        <5>1. ASSUME NEW w \in Int, NEW v \in (w + 1)..(w + Speed)
              PROVE  v - w \in 1..Speed
          BY <1>c
        <5>2. QED
          BY <3>2, <5>1, <1>t
      <4> HIDE DEF d
      <4>3. QED
        BY <4>1, <4>2, <2>3, <1>c, <1>s, <1>t DEF Span
    <3>3. CASE state.az = "down" /\ winding' \in (winding - Speed)..(winding - 1)
      <4>1. encoder.az > enc.az + ENC_RANGE
        BY <1>s, <2>1, <3>3 DEF Driven
      <4>2. -d \in 1..Speed /\ d \in Int
        <5>1. ASSUME NEW w \in Int, NEW v \in (w - Speed)..(w - 1)
              PROVE  -(v - w) \in 1..Speed /\ v - w \in Int
          BY <1>c
        <5>2. QED
          BY <3>3, <5>1, <1>t
      <4> HIDE DEF d
      <4>3. QED
        BY <4>1, <4>2, <2>3, <1>c, <1>s, <1>t DEF Span
    <3>4. QED
      BY <2>4, <3>1, <3>2, <3>3 DEF Turns
  <2>8. winding' - encoder'.az \in -Lead..(Pressed - 1 - Lead) /\ encoder'.az \in Span
    BY <1>s, <2>6, <2>7 DEF Span
  <2>9. Unscaled' /\ Driven' /\ Reducing'
    BY <2>1 DEF Unscaled, Driven, Reducing
  <2>10. QED
    BY <1>s, <2>1, <2>2, <2>3, <2>8, <2>9 DEF Steady
<1>7. ASSUME NEW a \in Axes, Test(a)
      PROVE  Steady'
  <2>1. at = <<"test", a>> /\ at \in Reduced /\ at \notin Settled
        /\ at' # <<"set_mod", "az">> /\ at' # <<"wait", "az">>
    BY <1>7, SteadyPlaces DEF Test, Decide
  <2>2. UNCHANGED <<target, prev, enc, looped, winding, encoder, state, temp>>
    BY <1>7 DEF Test, Decide, program, body
  <2>3. a = "az" /\ ~looped => prev.az # target.az
    <3>1. target.az \in 0..(AZIMUTH_MAX - 1)
      BY <1>c, <1>t, <1>p, <1>s, <2>1
    <3>2. Rem(target.az, AZIMUTH_MAX) = target.az
      BY <1>c, <3>1, RemOfReduced
    <3>3. QED
      BY <1>s, <2>1, <3>2 DEF Unscaled
  <2>4. at' \in Settled => looped
    BY <1>7, <2>3, SteadyPlaces DEF Test, Decide, Axes
  <2>5. Unscaled' /\ Driven' /\ Reducing'
    BY <1>s, <2>1, <2>2 DEF Unscaled, Driven, Reducing
  <2>6. QED
    BY <1>s, <2>1, <2>2, <2>4, <2>5 DEF Steady
<1>8. ASSUME NEW a \in Axes, Scale(a)
      PROVE  Steady'
  <2>1. at = <<"scale", a>> /\ at' = <<"keep", a>> /\ at \in Reduced /\ at \notin Settled
        /\ at' # <<"set_mod", "az">> /\ at' # <<"wait", "az">>
    BY <1>8, SteadyPlaces DEF Scale
  <2>2. UNCHANGED <<target, prev, looped, winding, encoder, state, temp>>
        /\ enc' = [enc EXCEPT ![a] = Scaled(a, target[a])]
    BY <1>8 DEF Scale, body
  <2>3. Unscaled' /\ Driven' /\ Reducing'
    BY <1>s, <2>1, <2>2 DEF Unscaled, Driven, Reducing
  <2>4. looped \/ at' \in Settled => enc'.az \in Span
    <3>1. CASE a = "az"
      <4>1. target.az \in 0..(AZIMUTH_MAX - 1)
        BY <1>c, <1>t, <1>p, <1>s, <2>1
      <4>2. enc'.az = Scaled("az", target.az)
        BY <1>t, <2>2, <3>1 DEF Axes
      <4>3. Rem(target.az, AZIMUTH_MAX) = target.az
        BY <1>c, <4>1, RemOfReduced
      <4>4. Scaled("az", Rem(target.az, AZIMUTH_MAX)) \in Span
        BY <1>t, <1>s, ClearReduced
      <4>5. QED
        BY <4>2, <4>3, <4>4
    <3>2. CASE a = "el"
      <4>1. enc'.az = enc.az
        BY <1>t, <2>2, <3>2 DEF Axes
      <4>2. at' \notin Settled
        BY <2>1, <3>2, SteadyPlaces
      <4>3. QED
        BY <1>s, <4>1, <4>2
    <3>3. QED
      BY <3>1, <3>2 DEF Axes
  <2>5. at' \in Reduced => target.az < AZIMUTH_MAX
    BY <1>s, <2>1
  <2>6. QED
    BY <1>s, <2>1, <2>2, <2>3, <2>4, <2>5 DEF Steady
<1>9. ASSUME NEW a \in Axes, Keep(a)
      PROVE  Steady'
  <2>1. at = <<"keep", a>> /\ at' = <<"drive", a>>
        /\ at' # <<"set_mod", "az">> /\ at' # <<"wait", "az">>
    BY <1>9 DEF Keep
  <2>2. UNCHANGED <<target, enc, looped, winding, encoder, state, temp>>
        /\ prev' = [prev EXCEPT ![a] = target[a]]
    BY <1>9 DEF Keep, body
  <2>3. (at \in Reduced <=> at' \in Reduced) /\ (at \in Settled <=> at' \in Settled)
        /\ (a = "az" => at' \in Settled)
    BY <2>1, SteadyPlaces DEF Axes
  <2>4. a = "el" => prev'.az = prev.az
    BY <1>t, <2>2 DEF Axes
  <2>5. Unscaled' /\ Driven' /\ Reducing'
    BY <1>s, <2>1, <2>2, <2>3, <2>4 DEF Unscaled, Driven, Reducing, Axes
  <2>6. QED
    BY <1>s, <2>1, <2>2, <2>3, <2>5 DEF Steady
<1>10. ASSUME NEW a \in Axes, Drive(a)
       PROVE  Steady'
  <2>1. at = <<"drive", a>> /\ at' = (IF a = "el" THEN <<"home", "az">> ELSE <<"wait", "az">>)
        /\ at' # <<"set_mod", "az">>
    BY <1>10 DEF Drive
  <2>2. UNCHANGED <<prev, enc, looped, winding, encoder, temp>>
        /\ state' = [state EXCEPT ![a] = Side(Reading(a), enc[a])]
    BY <1>10 DEF Drive, body
  <2>3. target'.az = target.az
    BY <1>10, <1>t DEF Drive, Axes
  <2>4. (at \in Reduced <=> at' \in Reduced) /\ (at \in Settled <=> at' \in Settled)
    BY <2>1, SteadyPlaces DEF Axes
  <2>5. Unscaled' /\ Reducing'
    BY <1>s, <2>1, <2>2, <2>3, <2>4 DEF Unscaled, Reducing
  <2>6. Driven'
    <3>1. CASE a = "el"
      BY <2>1, <3>1 DEF Driven
    <3>2. CASE a = "az"
      <4>1. Reading("az") = encoder.az
        <5>1. encoder.az \in 0..(Turn - 1)
          BY <1>s, <1>c DEF Span
        <5>2. QED
          BY <1>t, <5>1, Sensor3 DEF Reading
      <4>2. state'.az = Side(encoder.az, enc.az)
        BY <1>t, <2>2, <3>2, <4>1 DEF Axes
      <4>3. /\ state'.az = "up" => encoder.az < enc.az - ENC_RANGE
            /\ state'.az = "down" => encoder.az > enc.az + ENC_RANGE
        BY <1>t, <1>c, <4>2 DEF Side
      <4>4. encoder' = encoder /\ enc' = enc
        BY <2>2
      <4>5. QED
        BY <4>3, <4>4 DEF Driven
    <3>3. QED
      BY <3>1, <3>2 DEF Axes
  <2>7. QED
    BY <1>s, <2>1, <2>2, <2>3, <2>4, <2>5, <2>6 DEF Steady
<1>11. QED
  BY <1>1, <1>2, <1>3, <1>4, <1>5, <1>6, <1>7, <1>8, <1>9, <1>10 DEF Loop


\* A write at a place where it falls between two accesses is raced, and one of an
\* azimuth that is not Clear leads astray; any other keeps what the loop counts on.
LEMMA HostKeepsSteady ==
    ASSUME ProgramTyped, HostTyped, "az" \in raced \/ astray \/ Steady,
           (\E a \in Axes : setVariable(a)) \/ (\E goal \in Goals : moveTo(goal))
    PROVE  "az" \in raced' \/ astray' \/ Steady'
<1>1. UNCHANGED <<at, prev, enc, temp, looped, winding, encoder, state>> /\ raced \subseteq raced'
  BY DEF setVariable, moveTo, program, body
<1>a. astray => astray'
  BY Zenon DEF setVariable, moveTo
<1>2. CASE "az" \in raced \/ astray
  BY <1>1, <1>a, <1>2
<1>3. CASE Steady /\ target'.az = target.az
  BY <1>1, <1>3 DEF Steady, Reducing, Unscaled, Driven
<1>4. ASSUME Steady, NEW degrees \in Int, Clear(degrees), target'.az = degrees, ~Races("az", degrees)
      PROVE  Steady'
  <2>1. AZIMUTH_MAX \in Nat \ {0}
    BY MountConstants
  <2>2. at # <<"set_mod", "az">> /\ (looped \/ Rem(degrees, AZIMUTH_MAX) # 0)
    BY <1>4 DEF Races
  <2>3. ASSUME at \in Reduced
        PROVE  degrees < AZIMUTH_MAX
    <3>1. degrees = Rem(degrees, AZIMUTH_MAX)
      BY <1>4, <2>3 DEF Races, Reduced
    <3>2. QED
      BY <1>4, <2>1, <3>1, ClearReduced
  <2>4. Reducing' /\ Unscaled' /\ Driven'
    BY <1>1, <1>4, <2>2 DEF Steady, Reducing, Unscaled, Driven
  <2>5. QED
    BY <1>1, <1>4, <2>3, <2>4 DEF Steady
<1>5. ASSUME NEW a \in Axes, setVariable(a), Steady, target'.az # target.az
      PROVE  "az" \in raced' \/ astray' \/ Steady'
  <2> DEFINE degrees == Head(actions)[a]
  <2>1. actions # <<>> /\ target' = [target EXCEPT ![a] = degrees]
        /\ raced' = (IF Races(a, degrees) THEN raced \cup {a} ELSE raced)
        /\ astray' = (astray \/ (a = "az" /\ ~Clear(degrees)))
    BY <1>5 DEF setVariable
  <2>2. a = "az" /\ target'.az = degrees
    BY <1>5, <2>1 DEF ProgramTyped, Axes
  <2>3. Head(actions) \in Goals
    BY <2>1 DEF HostTyped
  <2>4. degrees \in Int
    BY <2>2, <2>3, GoalsTyped, Word
  <2> HIDE DEF degrees
  <2>5. QED
    BY <1>4, <1>5, <2>1, <2>2, <2>4
<1>6. ASSUME NEW goal \in Goals, moveTo(goal)
      PROVE  target'.az = target.az
  BY <1>6 DEF moveTo, program
<1>7. QED
  BY <1>2, <1>3, <1>5, <1>6

\* The mount begins at home, with a target that the first round scales.
LEMMA SteadyInit == MountInit => astray \/ Steady
<1> SUFFICES ASSUME MountInit, ~astray
             PROVE  Steady
  OBVIOUS
<1>1. AZIMUTH_MAX \in Nat \ {0} /\ Start.az \in 1..(AZIMUTH_MAX - 1)
      /\ Circle - Pressed \in Nat /\ Lead \in 0..(Pressed - 1) /\ Pressed \in Nat
  BY MountConstants, GoalsTyped
<1>2. Rem(Start.az, AZIMUTH_MAX) = Start.az
  <2>1. Start.az \in 0..(AZIMUTH_MAX - 1)
    BY <1>1
  <2>2. QED
    BY <1>1, <2>1, RemOfReduced
<1>3. at = <<"max", "el">> /\ at \notin Reduced /\ at \notin Settled
  BY SteadyPlaces DEF MountInit
<1>4. Reducing /\ Unscaled /\ Driven
  BY <1>1, <1>2, <1>3 DEF MountInit, Reducing, Unscaled, Driven, Axes
<1>5. winding - encoder.az = 0 /\ encoder.az = 0 /\ looped = FALSE
  BY DEF MountInit, Axes
<1>a. Clear(target.az)
  BY Zenon DEF MountInit
<1>6. 0 \in -Lead..(Pressed - 1 - Lead) /\ 0 \in Span
  BY <1>1 DEF Span
<1>7. QED
  BY <1>1, <1>3, <1>4, <1>5, <1>a, <1>6 DEF Steady

-----------------------------------------------------------------------------
\* The typing invariant is one of the mount.
THEOREM MountTyped == MountSpec => []Typed
BY TypedInit, TypedStep, PTL DEF MountSpec

\* Whatever is written and whichever write is lost, angles and products fit the
\* words of the brick, and the sensor of the azimuth counts from a place that presses
\* the touch sensor: it is cleared nowhere else (LegoMountProg5.nqc:145-226).
THEOREM MountTypesOK == MountSpec => []MountTypeOK
<1>1. Typed => MountTypeOK
  <2> SUFFICES ASSUME Typed
               PROVE  MountTypeOK
    OBVIOUS
  <2>1. at \in ({"max", "min", "set_max", "set_min"} \X {"el"})
               \cup ({"mod", "set_mod", "home", "wait"} \X {"az"})
               \cup ({"test", "scale", "keep", "drive"} \X Axes)
    BY DEF Typed, ProgramTyped, Places
  <2>2. \A a \in Axes : {target[a], prev[a], real[a]} \subseteq -(2^15)..(2^15 - 1)
    <3>1. \A a \in Axes : target[a] \in Bits16 /\ prev[a] \in Bits16 /\ real[a] \in Bits16
      BY DEF Typed, ProgramTyped
    <3>2. QED
      BY <3>1, Zenon DEF Bits16, HalfWord
  <2>3. temp \in -AZIMUTH_MAX..AZIMUTH_MAX /\ state \in [Axes -> {"up", "down", "stop"}]
        /\ encoder.el \in Reach.el /\ winding \in Reach.az
        /\ (winding - encoder.az + Lead) % Circle < Pressed
        /\ Len(actions) <= moves /\ moves \in 0..MaxMoves /\ raced \subseteq Axes
        /\ astray \in BOOLEAN
    BY Zenon DEF Typed, ProgramTyped, BodyTyped, HostTyped
  <2>4. \A a \in Axes : commanded[a] \in {g[a] : g \in Goals \cup {Start}}
    BY DEF Typed, HostTyped, Angle
  <2>5. QED
    BY <2>1, <2>2, <2>3, <2>4, Zenon DEF MountTypeOK
<1>2. QED
  BY <1>1, MountTyped, PTL

\* Motors that turn no further in one wait than ENC_RANGE + 1: unless a write of the
\* azimuth falls between two accesses that belong together, or is of an azimuth that
\* is negative or less than the touch sensor's width from a full turn, the mount never
\* turns beyond its touch sensor, so its cables are not wound up
\* (LegoMountProg5.nqc:157, 190-226).
THEOREM StaysWithinTheTurn ==
    ASSUME Speed <= ENC_RANGE + 1
    PROVE  MountSpec => []NoWindup
<1> DEFINE Inv == Typed /\ ("az" \in raced \/ astray \/ Steady)
<1>1. MountInit => Inv
  BY TypedInit, SteadyInit
<1>2. Inv /\ [MountNext]_vars => Inv'
  <2> SUFFICES ASSUME Inv, [MountNext]_vars
               PROVE  "az" \in raced' \/ astray' \/ Steady'
    BY TypedStep
  <2>1. CASE Loop
    <3>1. raced' = raced /\ astray' = astray
      BY <2>1, LoopPlaces DEF Typed, ProgramTyped, host
    <3>2. QED
      BY <2>1, <3>1, LoopKeepsSteady DEF Typed
  <2>2. CASE UNCHANGED vars
    BY <2>2 DEF vars, program, body, host, Steady, Reducing, Unscaled, Driven
  <2>3. QED
    BY <2>1, <2>2, HostKeepsSteady DEF MountNext, Typed
<1>3. Inv => NoWindup
  <2> SUFFICES ASSUME Typed, Steady
               PROVE  winding + Lead \in 0..(Circle - 1)
    BY DEF NoWindup
  <2>1. winding \in Int /\ encoder.az \in Int
    BY MountConstants DEF Typed, BodyTyped, Axes
  <2>2. QED
    BY <2>1, MountConstants DEF Steady, Span
<1> HIDE DEF Inv
<1>4. QED
  BY <1>1, <1>2, <1>3, PTL DEF MountSpec
=============================================================================
