------------------------------ MODULE LegoMount ------------------------------
(***************************************************************************)
(* The LEGO telescope of SORT: legoImpl.cpp and the antenna AltAzImpl.cpp, *)
(* which write where to point into two variables of the RCX brick, and the *)
(* control loop LegoMountProg5.nqc, which reads them and drives the        *)
(* motors.  The brick serves the writes while its program runs, so one can *)
(* fall between any two accesses of the loop.  The model begins after the  *)
(* calibration; the motors turn while the loop waits.                      *)
(***************************************************************************)
EXTENDS Integers, Sequences

CONSTANTS
    AZIMUTH_MAX, ELEVATION_MAX,  \* degrees; ELEVATION_MIN is 0
    ENC_RANGE,       \* how far from its target an encoder may be
    Turn, Quarter,   \* the counts of the calibration, for all of an axis
    Circle,          \* the counts of a whole turn of the mount
    Pressed,         \* how many of them press the touch sensor
    Lead,            \* how far into those the calibration ended
    Start,           \* where the program itself points first
    Goals,           \* where clients point
    Garbage,         \* what a variable of the brick may hold before its first use
    Speed,           \* how far a motor turns at most while the loop waits
    Reach,           \* the encoder values of each axis that its cables allow
    MaxMoves,        \* bound: the calls of moveTo()
    LinkFails        \* TRUE: a message to the brick may be lost

Axes == {"el", "az"}

ASSUME LegoMountAssumption ==
    /\ {AZIMUTH_MAX, ELEVATION_MAX, ENC_RANGE, Turn, Quarter, Speed, Circle, Pressed}
          \subseteq Nat \ {0}
    \* The calibration looks at the touch sensor once a wait: it runs on to the sensor
    \* from above, leaves it, and counts up to where it finds it pressed again.
    /\ Speed <= Pressed /\ Pressed < Circle
    /\ Lead \in 0..(Speed - 1)
    /\ \E late \in 0..(Speed - 1) : Turn = Lead + Circle - (Pressed - 1 - late)
    /\ MaxMoves \in Nat /\ LinkFails \in BOOLEAN
    \* A message to the brick carries 16 bits.
    /\ Goals \cup {Start} \subseteq [Axes -> -(2^15)..(2^15 - 1)]
    /\ Start.az \in 1..(AZIMUTH_MAX - 1) /\ Start.el \in 1..ELEVATION_MAX
    /\ Garbage \subseteq Int /\ Reach \in [Axes -> SUBSET Int]
    /\ \A a \in Axes : 0 \in Reach[a]
    /\ Turn * 10 >= AZIMUTH_MAX /\ Quarter * 100 >= ELEVATION_MAX
    \* Integers of the brick have 16 bits; no product of
    \* an angle within its limits is wider.
    /\ Turn * 10 < 2^15 /\ Quarter * 100 < 2^15
    /\ \A n \in Reach.el : -(2^15) < n * 100 /\ n * 100 < 2^15

\* Division of the brick truncates, and % is what is left of it.
Quot(a, b) == LET q(n, d) == IF n >= 0 THEN n \div d ELSE -((-n) \div d)
              IN  IF b > 0 THEN q(a, b) ELSE -q(a, -b)
Rem(a, b) == a - b * Quot(a, b)

VARIABLES
    at,        \* the access of the loop that comes next, <<what, of which axis>>
    target, real, prev, enc, state,  \* the variables of the program, for each axis
    temp,      \* the register of %=
    looped,    \* TRUE after the first round of the loop
    encoder,   \* the rotation sensors
    winding,   \* how far the azimuth axis is from where the calibration ended
    actions,   \* the positions the antenna has accepted and not yet written
    mover,     \* the axis that the action thread of the antenna writes next
    commanded, \* the last position that was written
    moves,     \* the calls so far
    raced,     \* history: the axes with a write between accesses of the loop
    astray     \* history: TRUE after a write of an azimuth that is not Clear

program == <<target, real, prev, enc, state, temp, looped>>
body    == <<encoder, winding>>
host    == <<actions, mover, commanded, moves, raced, astray>>
vars    == <<at, program, body, host>>

-----------------------------------------------------------------------------
\* Counts for ten degrees of azimuth, and for a hundred of elevation; the
\* calibration leaves the elevation with a scale that counts down from 0.
enc_azim_factor == Quot(Turn * 10, AZIMUTH_MAX)
enc_elev_factor == Quot(-Quarter * 100, ELEVATION_MAX)

Scaled(a, degrees) == IF a = "az" THEN Quot(enc_azim_factor * degrees, 10)
                      ELSE Quot(enc_elev_factor * degrees, 100)

\* The azimuth within the turn.
sensor_3(n) == IF n < 0 THEN Turn + Rem(n, Turn) ELSE Rem(n, Turn)

Reading(a) == IF a = "az" THEN sensor_3(encoder.az) ELSE encoder.el

\* The touch sensor is pressed on several counts of every turn.
SENSOR_1 == (winding + Lead) % Circle < Pressed

\* An azimuth that can be reached without turning on to the touch sensor from below.
Clear(degrees) ==
    degrees >= 0 /\ Scaled("az", Rem(degrees, AZIMUTH_MAX)) <= Circle - Pressed

\* Which way a motor must go: the encoder is below, above or near its target.
\* Mutant: no range around the target.
Side_Sharp(n, goal) == IF n < goal THEN "up" ELSE IF n > goal THEN "down" ELSE "stop"

Side(n, goal) == IF n < goal - ENC_RANGE THEN "up"
                 ELSE IF n > goal + ENC_RANGE THEN "down" ELSE "stop"

-----------------------------------------------------------------------------
\* The control loop.  A test and the assignment under it are two accesses.
Decide(here, condition, yes, no) ==
    /\ at = here
    /\ at' = IF condition THEN yes ELSE no
    /\ UNCHANGED <<program, body, host>>

Clamp == \/ Decide(<<"max", "el">>, target.el > ELEVATION_MAX,
                   <<"set_max", "el">>, <<"min", "el">>)
         \/ Decide(<<"min", "el">>, target.el < 0, <<"set_min", "el">>, <<"mod", "az">>)

SetLimit ==
    /\ \/ at = <<"set_max", "el">> /\ at' = <<"min", "el">>
          /\ target' = [target EXCEPT !.el = ELEVATION_MAX]
       \/ at = <<"set_min", "el">> /\ at' = <<"mod", "az">>
          /\ target' = [target EXCEPT !.el = 0]
    /\ UNCHANGED <<real, prev, enc, state, temp, looped, body, host>>

\* target_azimuth %= AZIMUTH_MAX is calculated in a register.
Modulo ==
    /\ at = <<"mod", "az">>
    /\ at' = <<"set_mod", "az">>
    /\ temp' = Rem(target.az, AZIMUTH_MAX)
    /\ UNCHANGED <<target, real, prev, enc, state, looped, body, host>>

SetModulo ==
    /\ at = <<"set_mod", "az">>
    /\ at' = <<"test", "el">>
    /\ target' = [target EXCEPT !.az = temp]
    /\ temp' = 0
    /\ real' = [real EXCEPT !.el = Quot(encoder.el * 100, enc_elev_factor)]
    /\ UNCHANGED <<prev, enc, state, looped, body, host>>

\* A target is read to be compared, to be scaled, and to be remembered.
Test(a) == Decide(<<"test", a>>, prev[a] # target[a], <<"scale", a>>, <<"keep", a>>)

Scale(a) ==
    /\ at = <<"scale", a>>
    /\ at' = <<"keep", a>>
    /\ enc' = [enc EXCEPT ![a] = Scaled(a, target[a])]
    /\ UNCHANGED <<target, real, prev, state, temp, looped, body, host>>

Keep(a) ==
    /\ at = <<"keep", a>>
    /\ at' = <<"drive", a>>
    /\ prev' = [prev EXCEPT ![a] = target[a]]
    /\ UNCHANGED <<target, real, enc, state, temp, looped, body, host>>

\* Mutant: an elevation in range leaves the motor as it is.
Drive_Coasts(a) ==
    /\ at = <<"drive", a>>
    /\ LET side == Side(Reading(a), enc[a])
       IN  state' = IF side = "stop" /\ a = "el" THEN state ELSE [state EXCEPT ![a] = side]
    /\ IF a = "el" /\ state'.el \notin {"stop", state.el}
       THEN target' = [target EXCEPT !.el = real.el] ELSE UNCHANGED target
    /\ at' = IF a = "el" THEN <<"home", "az">> ELSE <<"wait", "az">>
    /\ UNCHANGED <<real, prev, enc, temp, looped, body, host>>

\* The motor of the elevation, once started, has its own position for a target.
Drive(a) ==
    /\ at = <<"drive", a>>
    /\ state' = [state EXCEPT ![a] = Side(Reading(a), enc[a])]
    /\ IF a = "el" /\ state'.el \notin {"stop", state.el}
       THEN target' = [target EXCEPT !.el = real.el] ELSE UNCHANGED target
    /\ at' = IF a = "el" THEN <<"home", "az">> ELSE <<"wait", "az">>
    /\ UNCHANGED <<real, prev, enc, temp, looped, body, host>>

\* Mutant: the encoder is cleared when the touch sensor has been left.
Home_Released ==
    /\ at = <<"home", "az">>
    /\ at' = <<"test", "az">>
    /\ encoder' = IF SENSOR_1 THEN encoder ELSE [encoder EXCEPT !.az = 0]
    /\ real' = [real EXCEPT !.az = Quot(sensor_3(encoder'.az) * 10, enc_azim_factor)]
    /\ UNCHANGED <<target, prev, enc, state, temp, looped, winding, host>>

\* The encoder of the azimuth is cleared at home, wherever on the touch sensor.
Home ==
    /\ at = <<"home", "az">>
    /\ at' = <<"test", "az">>
    /\ encoder' = IF SENSOR_1 THEN [encoder EXCEPT !.az = 0] ELSE encoder
    /\ real' = [real EXCEPT !.az = Quot(sensor_3(encoder'.az) * 10, enc_azim_factor)]
    /\ UNCHANGED <<target, prev, enc, state, temp, looped, winding, host>>

\* Wait(): a motor that is on turns its axis, unless the cables hold it.
Turns(a, n) ==
    LET free == {m \in Reach[a] : \/ state[a] = "up" /\ m \in (n + 1)..(n + Speed)
                                  \/ state[a] = "down" /\ m \in (n - Speed)..(n - 1)}
    IN  IF free = {} THEN {n} ELSE free

Wait ==
    /\ at = <<"wait", "az">>
    /\ at' = <<"max", "el">>
    /\ winding' \in Turns("az", winding)
    /\ \E tilt \in Turns("el", encoder.el) :
          encoder' = [el |-> tilt, az |-> encoder.az + winding' - winding]
    /\ looped' = TRUE
    /\ UNCHANGED <<target, real, prev, enc, state, temp, host>>

Loop ==
    \/ Clamp \/ SetLimit \/ Modulo \/ SetModulo \/ Home \/ Wait
    \/ \E a \in Axes : Test(a) \/ Scale(a) \/ Keep(a) \/ Drive(a)

-----------------------------------------------------------------------------
\* The host: observe() calls moveTo(), and that the moveto() of the antenna, which
\* is queued and answered at once; the action thread of the antenna writes the
\* elevation, then the azimuth, and looks at no result.
moveTo(goal) ==
    /\ moves < MaxMoves
    /\ moves' = moves + 1
    /\ actions' = Append(actions, goal)
    /\ UNCHANGED <<at, program, body, mover, commanded, raced, astray>>

\* A write between two accesses that belong together: the loop is about to
\* overwrite it, to take it for one it has seen, or to use it as it is.
Races(a, degrees) ==
    \/ at \in {<<"set_mod", a>>, <<"keep", a>>}
    \/ ~looped /\ IF a = "az" THEN Rem(degrees, AZIMUTH_MAX) = 0 ELSE degrees <= 0
    \/ /\ a = "az" /\ degrees # Rem(degrees, AZIMUTH_MAX)
       /\ at \in ({"test", "scale"} \X Axes) \cup ({"keep", "drive"} \X {"el"}) \cup {<<"home", "az">>}

setVariable(a) ==
    /\ actions # <<>> /\ mover = a
    /\ LET degrees == Head(actions)[a]
       IN  \/ /\ target' = [target EXCEPT ![a] = degrees]
              /\ commanded' = [commanded EXCEPT ![a] = degrees]
              /\ raced' = IF Races(a, degrees) THEN raced \cup {a} ELSE raced
              /\ astray' = (astray \/ (a = "az" /\ ~Clear(degrees)))
           \/ LinkFails /\ UNCHANGED <<target, commanded, raced, astray>>
    /\ IF a = "el" THEN mover' = "az" /\ UNCHANGED actions
       ELSE mover' = "el" /\ actions' = Tail(actions)
    /\ UNCHANGED <<at, real, prev, enc, state, temp, looped, body, moves>>

-----------------------------------------------------------------------------
MountInit ==
    /\ at = <<"max", "el">>
    /\ target = Start
    /\ real = [a \in Axes |-> 0] /\ prev = [a \in Axes |-> 0]
    /\ enc \in [Axes -> Garbage]
    /\ state = [a \in Axes |-> "stop"]
    /\ temp = 0
    /\ looped = FALSE
    /\ encoder = [a \in Axes |-> 0]
    /\ winding = 0
    /\ actions = <<>>
    /\ mover = "el"
    /\ commanded = Start
    /\ moves = 0
    /\ raced = {}
    /\ astray = ~Clear(Start.az)

MountNext ==
    \/ Loop
    \/ \E a \in Axes : setVariable(a)
    \/ \E goal \in Goals : moveTo(goal)

MountSpec == MountInit /\ [][MountNext]_vars

\* The brick runs its program, the antenna its action thread.
FairMountSpec ==
    /\ MountSpec
    /\ WF_vars(Loop)
    /\ WF_vars(\E a \in Axes : setVariable(a))

-----------------------------------------------------------------------------
\* Type invariant: places of the loop, and variables within what the goals,
\* the cables and the calibration allow; the azimuth is counted from some place
\* that presses the touch sensor.
MountTypeOK ==
    LET Angle(a) == {g[a] : g \in Goals \cup {Start}}
    IN  /\ at \in ({"max", "min", "set_max", "set_min"} \X {"el"})
               \cup ({"mod", "set_mod", "home", "wait"} \X {"az"})
               \cup ({"test", "scale", "keep", "drive"} \X Axes)
        /\ \A a \in Axes : {target[a], prev[a], real[a]} \subseteq -(2^15)..(2^15 - 1)
        /\ temp \in -AZIMUTH_MAX..AZIMUTH_MAX
        /\ state \in [Axes -> {"up", "down", "stop"}]
        /\ encoder.el \in Reach.el /\ winding \in Reach.az
        /\ (winding - encoder.az + Lead) % Circle < Pressed
        /\ Len(actions) <= moves /\ moves \in 0..MaxMoves
        /\ raced \subseteq Axes /\ astray \in BOOLEAN
        /\ \A a \in Axes : commanded[a] \in Angle(a)

\* A count of an encoder that the loop takes for that angle.
Near(a, count, degrees) ==
    LET goal == Scaled(a, degrees) IN count \in (goal - ENC_RANGE)..(goal + ENC_RANGE)

\* The cables of the azimuth are not wound up: whatever is written while the
\* loop runs, and whatever write is lost, the mount does not turn beyond its touch
\* sensor (LegoMountProg5.nqc:157, 190-226), unless it was sent to an azimuth that
\* is not Clear, or a write came between two accesses.
NoWindup == "az" \in raced \/ astray \/ winding + Lead \in 0..(Circle - 1)

\* The azimuth ends at rest where the brick was last told, modulo a turn, if that is
\* Clear and the cables are long enough, wherever it had been sent before, and the
\* motor of the elevation is switched off, wherever that stands by then
\* (LegoMountProg5.nqc:160-226), unless a write came between two accesses.
ComesToRest ==
    <>[](/\ \/ "az" \in raced \/ ~Clear(commanded.az)
            \/ ~{winding - Speed, winding + Speed} \subseteq Reach.az
            \/ state.az = "stop" /\ Near("az", Reading("az"), Rem(commanded.az, AZIMUTH_MAX))
         /\ "el" \in raced \/ state.el = "stop")
=============================================================================
