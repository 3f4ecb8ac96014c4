-------------------------- MODULE DriveModes_proofs --------------------------
(***************************************************************************)
(* StoppedWhenIdle and TypeOK for every set of keys, any number of them    *)
(* typed in any order and at any time, and every angle the link can bring. *)
(***************************************************************************)
EXTENDS DriveModes, SequenceTheorems, TLAPS

\* Only a drive mode writes to the motor, and a mode is left only through Leave.
LEMMA StepKeepsStopped ==
    ASSUME StoppedWhenIdle, [Next]_vars PROVE StoppedWhenIdle'
<1> USE DEF StoppedWhenIdle, console, link, vehicle
<1>1. ASSUME NEW k \in Keys, TypeKey(k) PROVE StoppedWhenIdle'
  BY <1>1 DEF TypeKey, SpeedByte
<1>2. ASSUME NEW a \in Steering, NewAngle(a) PROVE StoppedWhenIdle'
  BY <1>2 DEF NewAngle, SpeedByte
<1>3. CASE CLI
  BY <1>3 DEF CLI, SpeedByte
<1>4. CASE StartByHand
  BY <1>4 DEF StartByHand
<1>5. CASE DriveByHand
  BY <1>5 DEF DriveByHand, AtKey
<1>6. CASE Flush
  BY <1>6 DEF Flush
<1>7. CASE StartTrack \/ UseCam \/ Track
  BY <1>7 DEF StartTrack, UseCam, Track
<1>8. CASE StartGps \/ DriveByGps
  BY <1>8 DEF StartGps, DriveByGps
<1>9. CASE Leave
  BY <1>9 DEF Leave, set_speed, SpeedByte
<1>10. CASE NoKey \/ Look \/ ComeBack
  BY <1>10 DEF NoKey, Look, ComeBack, SpeedByte
<1>11. CASE UNCHANGED vars
  BY <1>11 DEF vars, SpeedByte
<1> QED
  BY <1>1, <1>2, <1>3, <1>4, <1>5, <1>6, <1>7, <1>8, <1>9, <1>10, <1>11
  DEF Next, Main

\* Outside the drive modes the vehicle stands still.
THEOREM IdleIsStopped == Spec => []StoppedWhenIdle
<1>1. Init => StoppedWhenIdle
  BY DEF Init, StoppedWhenIdle
<1> QED
  BY <1>1, StepKeepsStopped, PTL DEF Spec

-----------------------------------------------------------------------------
\* The key read is text and the settings are numbers, so what the vehicle is
\* told is a byte and a pulse.
Settings == [angle : Int, speed : Int]

IInv ==
    /\ TypeOK
    /\ keys \in Seq(Keys)
    /\ local \in Settings /\ global \in Settings
    /\ steering_angle \in Int

LEMMA KeysTyped ==
    ASSUME IInv
    PROVE  /\ typed \in Nat /\ Len(keys) \in Nat /\ Len(keys) <= typed
           /\ typed <= MaxKeys /\ MaxKeys \in Nat
<1>1. typed \in 0..MaxKeys /\ Len(keys) <= typed
  BY DEF IInv, TypeOK
<1>2. Len(keys) \in Nat
  BY LenProperties DEF IInv
<1>3. MaxKeys \in Nat
  BY KeysAssumption
<1> QED
  BY <1>1, <1>2, <1>3

LEMMA InitTypes == Init => IInv
<1> SUFFICES ASSUME Init PROVE IInv
  OBVIOUS
<1>1. keys = <<>> /\ keys \in Seq(Keys) /\ Len(keys) = 0
  BY EmptySeq DEF Init
<1>2. local \in Settings /\ global \in Settings
  <2>1. local = [angle |-> STRAIGHT, speed |-> 0] /\ global = local
    BY DEF Init
  <2> QED
    BY <2>1 DEF Settings, STRAIGHT
<1>3. typed = 0 /\ 0 \in 0..MaxKeys
  <2>1. typed = 0
    BY DEF Init
  <2> QED
    BY <2>1, KeysAssumption
<1>4. motor = -1 /\ servo = -1 /\ turn_angle \in Int /\ steering_angle \in Int
  <2>1. motor = -1 /\ servo = -1 /\ turn_angle = STRAIGHT
        /\ steering_angle = 0
    BY DEF Init
  <2> QED
    BY <2>1 DEF STRAIGHT
<1>5. mode = "idle" /\ pc = "loop"
  BY DEF Init
<1>6. TypeOK
  BY <1>1, <1>3, <1>4, <1>5 DEF TypeOK
<1> QED
  BY <1>1, <1>2, <1>4, <1>6 DEF IInv

LEMMA DivIsInt ==
    ASSUME NEW a \in Int, NEW b \in Nat \ {0} PROVE CDiv(a, b) \in Int
  BY DEF CDiv

LEMMA SpeedIsByte == ASSUME NEW s \in Int PROVE SpeedByte(s) \in 0..255
<1>1. CDiv((s - -64) * (128 - 0), 64 - -64) \in Int
  BY DivIsInt
<1> QED
  BY <1>1 DEF SpeedByte, map

LEMMA PulseIsInt == ASSUME NEW a \in Int PROVE Pulse(a) \in Int
<1>1. CDiv((a - 0) * (SERVO_MAX - SERVO_MIN), 180 - 0) \in Int
  BY DivIsInt DEF SERVO_MAX, SERVO_MIN
<1>2. CASE a < 200
  BY <1>1, <1>2 DEF Pulse, map, SERVO_MIN, SERVO_MAX
<1>3. CASE a \in 200..SERVO_MIN
  BY <1>3 DEF Pulse, SERVO_MIN, SERVO_MAX
<1>4. CASE a > SERVO_MAX
  BY <1>4 DEF Pulse, SERVO_MIN, SERVO_MAX
<1>5. CASE a > SERVO_MIN /\ ~(a > SERVO_MAX)
  BY <1>5 DEF Pulse, SERVO_MIN, SERVO_MAX
<1> QED
  BY <1>2, <1>3, <1>4, <1>5 DEF SERVO_MIN

LEMMA SettingsKept ==
    ASSUME NEW set \in Settings, NEW k PROVE Steer(k, set) \in Settings
  BY DEF Steer, Settings, Turn, Push

LEMMA ObeyKeeps ==
    ASSUME TypeOK, NEW set \in Settings, NEW k, Obey(k, set)
    PROVE  motor' \in -1..255 /\ servo' \in Int /\ turn_angle' \in Int
<1>1. /\ motor \in -1..255 /\ servo \in Int /\ turn_angle \in Int
      /\ set.angle \in Int /\ set.speed \in Int
  BY DEF TypeOK, Settings
<1>2. CASE set_turn_angle(set.angle) /\ UNCHANGED motor
  BY <1>1, <1>2, PulseIsInt DEF set_turn_angle
<1>3. CASE set_speed(set.speed) /\ UNCHANGED <<servo, turn_angle>>
  BY <1>1, <1>3, SpeedIsByte DEF set_speed
<1>4. CASE UNCHANGED vehicle
  BY <1>1, <1>4 DEF vehicle
<1> QED
  BY <1>2, <1>3, <1>4 DEF Obey

LEMMA ReadKeeps ==
    ASSUME IInv, Read
    PROVE  keys' \in Seq(Keys) /\ Len(keys') <= typed
<1>1. CASE keys = <<>>
  BY <1>1 DEF Read, IInv, TypeOK
<1>2. CASE keys # <<>>
  <2>1. keys' = Tail(keys)
    BY <1>2 DEF Read
  <2>2. keys' \in Seq(Keys) /\ Len(keys') = Len(keys) - 1
    BY <1>2, <2>1, HeadTailProperties DEF IInv
  <2> QED
    BY <2>2, KeysTyped
<1> QED
  BY <1>1, <1>2

LEMMA StepKeepsTypes == ASSUME IInv, [Next]_vars PROVE IInv'
<1> USE DEF console, link, vehicle
<1>1. ASSUME NEW k \in Keys, TypeKey(k) PROVE IInv'
  <2>1. keys' = Append(keys, k) /\ typed' = typed + 1 /\ typed < MaxKeys
    BY <1>1 DEF TypeKey
  <2>2. keys' \in Seq(Keys) /\ Len(keys') = Len(keys) + 1
    BY <2>1 DEF IInv
  <2>3. typed' \in 0..MaxKeys /\ Len(keys') <= typed'
    BY <2>1, <2>2, KeysTyped
  <2> QED
    BY <1>1, <2>2, <2>3 DEF TypeKey, IInv, TypeOK
<1>2. ASSUME NEW a \in Steering, NewAngle(a) PROVE IInv'
  BY <1>2, KeysAssumption DEF NewAngle, IInv, TypeOK
<1>3. CASE CLI
  <2>1. keys # <<>> /\ keys' = Tail(keys) /\ typed' = typed
    BY <1>3 DEF CLI
  <2>2. keys' \in Seq(Keys) /\ Len(keys') = Len(keys) - 1
    BY <2>1, HeadTailProperties DEF IInv
  <2>3. Len(keys') <= typed'
    BY <2>1, <2>2, KeysTyped
  <2>4. \/ mode' \in Drives /\ pc' = "start" /\ mode = "idle"
        \/ UNCHANGED <<mode, pc>>
    BY <1>3 DEF CLI, CommandOf, Drives
  <2> QED
    BY <1>3, <2>1, <2>2, <2>3, <2>4 DEF CLI, IInv, TypeOK, Drives
<1>4. CASE StartByHand
  <2>1. /\ motor' \in -1..255 /\ servo' \in Int /\ turn_angle' \in Int
    BY <1>4, SpeedIsByte, PulseIsInt
    DEF StartByHand, set_turn_angle, set_speed, STRAIGHT
  <2>2. local' \in Settings
    BY <1>4 DEF StartByHand, Settings, STRAIGHT
  <2>3. keys' \in Seq(Keys) /\ Len(keys') <= typed
    BY <1>4, ReadKeeps DEF StartByHand
  <2> QED
    BY <1>4, <2>1, <2>2, <2>3 DEF StartByHand, IInv, TypeOK
<1>5. CASE DriveByHand
  <2>1. local' \in Settings
    BY <1>5, SettingsKept DEF DriveByHand, IInv
  <2>2. keys' \in Seq(Keys) /\ Len(keys') <= typed
    BY <1>5, ReadKeeps DEF DriveByHand
  <2>3. PICK set, k : set = local' /\ k = input' /\ Obey(k, set)
    BY <1>5 DEF DriveByHand
  <2>4. motor' \in -1..255 /\ servo' \in Int /\ turn_angle' \in Int
    BY <2>1, <2>3, ObeyKeeps DEF IInv
  <2> QED
    BY <1>5, <2>1, <2>2, <2>4 DEF DriveByHand, AtKey, IInv, TypeOK
<1>6. CASE Flush
  <2>1. keys' \in Seq(Keys) /\ Len(keys') = 0
    BY <1>6, EmptySeq DEF Flush
  <2> QED
    BY <1>6, <2>1, KeysTyped DEF Flush, IInv, TypeOK
<1>7. CASE StartTrack
  <2>1. SLOW_SPEED \in Int
    BY DEF SLOW_SPEED
  <2>2. SpeedByte(SLOW_SPEED) \in 0..255
    BY <2>1, SpeedIsByte
  <2>3. motor' = SpeedByte(SLOW_SPEED)
    BY <1>7 DEF StartTrack, set_speed
  <2>4. motor' \in -1..255
    BY <2>2, <2>3
  <2> QED
    BY <1>7, <2>4 DEF StartTrack, IInv, TypeOK
<1>8. CASE UseCam
  <2>1. keys' \in Seq(Keys) /\ Len(keys') <= typed
    BY <1>8, ReadKeeps DEF UseCam
  <2> QED
    BY <1>8, <2>1 DEF UseCam, IInv, TypeOK
<1>9. CASE Track
  <2>1. keys' \in Seq(Keys) /\ Len(keys') <= typed
    BY <1>9, ReadKeeps DEF Track
  <2>2. servo' \in Int /\ turn_angle' \in Int
    BY <1>9, PulseIsInt DEF Track, set_turn_angle, IInv, TypeOK
  <2> QED
    BY <1>9, <2>1, <2>2 DEF Track, IInv, TypeOK
<1>10. CASE DriveByGps
  <2>1. global' \in Settings
    BY <1>10, SettingsKept DEF DriveByGps, IInv
  <2>2. keys' \in Seq(Keys) /\ Len(keys') <= typed
    BY <1>10, ReadKeeps DEF DriveByGps
  <2>3. PICK set, k : set = global' /\ k = input' /\ Obey(k, set)
    BY <1>10 DEF DriveByGps
  <2>4. motor' \in -1..255 /\ servo' \in Int /\ turn_angle' \in Int
    BY <2>1, <2>3, ObeyKeeps DEF IInv
  <2> QED
    BY <1>10, <2>1, <2>2, <2>4 DEF DriveByGps, IInv, TypeOK
<1>11. CASE Leave
  <2>1. motor' \in -1..255
    BY <1>11, SpeedIsByte DEF Leave, set_speed
  <2> QED
    BY <1>11, <2>1 DEF Leave, IInv, TypeOK
<1>12. CASE NoKey \/ Look \/ StartGps \/ ComeBack
  BY <1>12 DEF NoKey, Look, StartGps, ComeBack, IInv, TypeOK
<1>13. CASE UNCHANGED vars
  BY <1>13 DEF vars, IInv, TypeOK
<1> QED
  BY <1>1, <1>2, <1>3, <1>4, <1>5, <1>6, <1>7, <1>8, <1>9, <1>10, <1>11,
     <1>12, <1>13
  DEF Next, Main

\* Every variable has its type: the motor controller gets a byte whatever the
\* speed, and a call that may never come back is made only in the modes that
\* have one.
THEOREM TypeCorrect == Spec => []TypeOK
<1>1. Init => IInv
  BY InitTypes
<1>2. IInv => TypeOK
  BY DEF IInv
<1> QED
  BY <1>1, <1>2, StepKeepsTypes, PTL DEF Spec


-----------------------------------------------------------------------------
\* Driving by hand, the motor was told the speed that the mode has in its
\* local, and each key read has changed that by one notch at most.
Told ==
    mode \in {"rc", "camera"} /\ pc # "start" =>
        motor = SpeedByte(local.speed)

Notches == local.speed \in -(5 * (typed - Len(keys)))..(5 * (typed - Len(keys)))

NotchInv == IInv /\ Told /\ Notches

\* The speeds that a byte tells apart.
InRange(speed) == speed \in -64..191

LEMMA Twelve ==
    ASSUME NEW u \in Nat, u <= 12, NEW x \in -(5 * u)..(5 * u)
    PROVE  InRange(x)
  BY DEF InRange

LEMMA SpeedInRange ==
    ASSUME NEW s \in Int, InRange(s) PROVE SpeedByte(s) = s + 64
<1>1. (s - -64) * (128 - 0) = (s + 64) * 128 /\ 64 - -64 = 128
  OBVIOUS
<1>2. s + 64 \in 0..255
  BY DEF InRange
<1>3. ((s + 64) * 128) \div 128 = s + 64 /\ ~((s + 64) * 128 < 0)
  BY <1>2
<1>4. map(s, -64, 64, 0, 128) = s + 64
  BY <1>1, <1>2, <1>3 DEF map, CDiv
<1> QED
  BY <1>2, <1>4 DEF SpeedByte

\* A key that is read leaves fewer to read.
LEMMA OneKeyRead ==
    ASSUME IInv, keys # <<>>, Read
    PROVE  Len(keys') = Len(keys) - 1
  BY HeadTailProperties DEF IInv, Read

LEMMA ReadsNoMore ==
    ASSUME IInv, Read PROVE Len(keys') \in Nat /\ Len(keys') <= Len(keys)
<1>1. CASE keys = <<>>
  <2>1. keys' = keys
    BY <1>1 DEF Read
  <2> QED
    BY <2>1, KeysTyped
<1>2. CASE keys # <<>>
  <2>1. Len(keys') = Len(keys) - 1 /\ keys' \in Seq(Keys)
    BY <1>2, OneKeyRead, ReadKeeps
  <2> QED
    BY <2>1, KeysTyped, LenProperties
<1> QED
  BY <1>1, <1>2

\* A step that reads or drops keys, or that types one, and leaves the local
\* speed alone.
LEMMA NotchesKept ==
    ASSUME IInv, Notches, local' = local,
           \/ typed' = typed /\ Len(keys') \in Nat /\ Len(keys') <= Len(keys)
           \/ typed' = typed + 1 /\ Len(keys') = Len(keys) + 1
    PROVE  Notches'
<1>1. PICK u \in Nat : u = typed - Len(keys)
  BY KeysTyped
<1>2. PICK v \in Nat : v = typed' - Len(keys') /\ u <= v
  BY <1>1, KeysTyped
<1>3. local.speed \in Int /\ local.speed \in -(5 * u)..(5 * u)
  BY <1>1 DEF Notches, IInv, Settings
<1>4. local.speed \in -(5 * v)..(5 * v)
  BY <1>2, <1>3
<1> QED
  BY <1>2, <1>4 DEF Notches

\* A key that drives, and what it does to the speed and the motor.
LEMMA KeyDrives ==
    ASSUME NotchInv, DriveByHand
    PROVE  /\ Told' /\ Notches'
           /\ local'.speed - local.speed \in {-5, 0, 5}
           /\ motor' # motor => /\ motor' = SpeedByte(local'.speed)
                                /\ motor = SpeedByte(local.speed)
<1>1. PICK k, set : /\ k = input' /\ set = local'
                    /\ set = Steer(k, local) /\ Obey(k, set)
  BY DEF DriveByHand
<1>2. local \in Settings /\ local.speed \in Int /\ local.angle \in Int
      /\ local = [angle |-> local.angle, speed |-> local.speed]
  BY DEF NotchInv, IInv, Settings
<1>3. motor = SpeedByte(local.speed)
  BY DEF NotchInv, Told, DriveByHand, AtKey
<1>4. /\ set.speed \in Int /\ set.speed - local.speed \in {-5, 0, 5}
      /\ \/ motor' = motor /\ set.speed = local.speed
         \/ motor' = SpeedByte(set.speed)
  <2>1. CASE k \in DOMAIN Turn
    <3>1. set = [local EXCEPT !.angle = @ + Turn[k]]
      BY <1>1, <2>1 DEF Steer
    <3>2. set.speed = local.speed
      BY <1>2, <3>1
    <3>3. motor' = motor
      BY <1>1, <2>1 DEF Obey
    <3> QED
      BY <1>2, <3>2, <3>3
  <2>2. CASE k \notin DOMAIN Turn /\ k \in DOMAIN Push
    <3>1. set = [local EXCEPT !.speed = @ + Push[k]]
      BY <1>1, <2>2 DEF Steer
    <3>2. set.speed = local.speed + Push[k] /\ Push[k] \in {5, -5}
      BY <1>2, <2>2, <3>1 DEF Push
    <3>3. motor' = SpeedByte(set.speed)
      BY <1>1, <2>2 DEF Obey, set_speed
    <3> QED
      BY <1>2, <3>2, <3>3
  <2>3. CASE k \notin DOMAIN Turn /\ k \notin DOMAIN Push
    <3>1. set = local /\ motor' = motor
      BY <1>1, <2>3 DEF Steer, Obey, vehicle
    <3> QED
      BY <1>2, <3>1
  <2> QED
    BY <2>1, <2>2, <2>3
<1>5. Notches'
  <2>1. Len(keys') = Len(keys) - 1 /\ typed' = typed
    BY OneKeyRead DEF DriveByHand, NotchInv
  <2>2. PICK u \in Nat : u = typed - Len(keys)
    BY KeysTyped DEF NotchInv
  <2>3. typed' - Len(keys') = u + 1
    BY <2>1, <2>2, KeysTyped DEF NotchInv
  <2>4. local.speed \in -(5 * u)..(5 * u)
    BY <2>2 DEF NotchInv, Notches
  <2>5. set.speed \in -(5 * (u + 1))..(5 * (u + 1))
    BY <1>2, <1>4, <2>4
  <2> QED
    BY <1>1, <2>3, <2>5 DEF Notches
<1>6. Told'
  BY <1>1, <1>3, <1>4 DEF Told
<1> QED
  BY <1>1, <1>3, <1>4, <1>5, <1>6

LEMMA StepKeepsNotches == ASSUME NotchInv, [Next]_vars PROVE NotchInv'
<1> USE DEF console, link, vehicle
<1>i. IInv /\ Told /\ Notches
  BY DEF NotchInv
<1>0. IInv'
  BY <1>i, StepKeepsTypes
<1> SUFFICES Told' /\ Notches'
  BY <1>0 DEF NotchInv
<1>k. /\ Len(keys) \in Nat /\ Len(keys) <= typed /\ typed \in Nat
      /\ Len(keys) <= Len(keys)
  BY <1>i, KeysTyped
<1>1. ASSUME NEW k \in Keys, TypeKey(k) PROVE Told' /\ Notches'
  <2>1. Len(keys') = Len(keys) + 1
    BY <1>1, <1>i DEF TypeKey, IInv
  <2> QED
    BY <1>1, <2>1, <1>i, NotchesKept DEF TypeKey, Told
<1>2. CASE StartByHand
  <2>1. local'.speed = 0 /\ typed' = typed /\ motor' = SpeedByte(0)
    BY <1>2 DEF StartByHand, set_speed
  <2>2. PICK v \in Nat : v = typed' - Len(keys')
    <3>1. Len(keys') \in Nat /\ Len(keys') <= typed
      BY <1>2, <1>i, <1>k, ReadsNoMore DEF StartByHand
    <3> QED
      BY <1>k, <2>1, <3>1
  <2>3. 0 \in -(5 * v)..(5 * v)
    OBVIOUS
  <2> QED
    BY <2>1, <2>2, <2>3 DEF Told, Notches
<1>3. CASE DriveByHand
  BY <1>3, KeyDrives
<1>4. CASE CLI
  <2>1. keys # <<>> /\ keys' = Tail(keys) /\ typed' = typed /\ local' = local
    BY <1>4 DEF CLI
  <2>2. Len(keys') = Len(keys) - 1
    BY <2>1, <1>i, HeadTailProperties DEF IInv
  <2>3. Len(keys') \in Nat /\ Len(keys') <= Len(keys)
    BY <1>0, <1>k, <2>2, LenProperties DEF IInv
  <2>4. mode' \in {"rc", "camera"} => pc' = "start"
    BY <1>4 DEF CLI
  <2> QED
    BY <2>1, <2>3, <2>4, <1>i, NotchesKept DEF Told
<1>5. CASE UseCam \/ Track \/ DriveByGps
  <2>1. Read /\ local' = local /\ typed' = typed
        /\ mode \in {"track", "gps"} /\ mode' = mode
    BY <1>5 DEF UseCam, Track, DriveByGps
  <2> QED
    BY <2>1, ReadsNoMore, <1>i, NotchesKept DEF Told
<1>6. CASE Flush
  <2>1. Len(keys') = 0 /\ local' = local /\ typed' = typed
        /\ UNCHANGED <<mode, motor>> /\ pc # "start"
    BY <1>6 DEF Flush
  <2> QED
    BY <1>k, <2>1, <1>i, NotchesKept DEF Told
<1>7. CASE StartTrack
  BY <1>7, <1>k, <1>i, NotchesKept DEF StartTrack, Told
<1>8. CASE \/ NoKey \/ Look \/ ComeBack
           \/ \E a \in Steering : NewAngle(a)
           \/ UNCHANGED vars
  <2>1. /\ local' = local /\ typed' = typed /\ keys' = keys
        /\ mode' = mode /\ motor' = motor /\ (pc = "start" => pc' = "start")
    BY <1>8 DEF NoKey, Look, ComeBack, NewAngle, vars
  <2> QED
    BY <1>k, <2>1, <1>i, NotchesKept DEF Told
<1>9. CASE StartGps \/ Leave
  <2>1. /\ local' = local /\ typed' = typed /\ keys' = keys
        /\ mode' \notin {"rc", "camera"}
    BY <1>9 DEF StartGps, Leave
  <2> QED
    BY <1>k, <2>1, <1>i, NotchesKept DEF Told
<1> QED
  BY <1>0, <1>1, <1>2, <1>3, <1>4, <1>5, <1>6, <1>7, <1>8, <1>9
  DEF Next, Main, NotchInv

\* A step that changes the motor's byte in rc_drive or camera_check.
LEMMA MotorWrites ==
    ASSUME NotchInv, [Next]_vars, mode \in {"rc", "camera"}, motor' # motor
    PROVE  motor' = SpeedByte(0) \/ DriveByHand
<1>1. StartByHand \/ DriveByHand \/ Leave
  BY DEF Next, Main, TypeKey, NewAngle, ComeBack, CLI, NoKey, Look, Flush,
         StartTrack, UseCam, Track, StartGps, DriveByGps, vars, console, link,
         vehicle
<1> QED
  BY <1>1 DEF StartByHand, Leave, set_speed

LEMMA NearWhileInRange ==
    ASSUME NotchInv, [Next]_vars, InRange(local.speed), InRange(local'.speed)
    PROVE  NotchAtMost
<1> SUFFICES ASSUME mode \in {"rc", "camera"}, motor' # motor, DriveByHand
             PROVE  Near(motor, motor')
  BY MotorWrites DEF NotchAtMost
<1>1. PICK x \in Int, y \in Int : x = local.speed /\ y = local'.speed
  BY StepKeepsNotches DEF NotchInv, IInv, Settings
<1>2. y - x \in {-5, 0, 5} /\ motor = SpeedByte(x) /\ motor' = SpeedByte(y)
  BY <1>1, KeyDrives
<1>3. motor = x + 64 /\ motor' = y + 64
  BY <1>1, <1>2, SpeedInRange
<1> QED
  BY <1>2, <1>3 DEF Near

LEMMA NotchInit == Init => NotchInv
<1> SUFFICES ASSUME Init PROVE NotchInv
  OBVIOUS
<1>1. local.speed = 0 /\ typed = 0 /\ Len(keys) = 0 /\ mode = "idle"
  BY DEF Init
<1>2. Notches
  BY <1>1 DEF Notches
<1> QED
  BY <1>1, <1>2, InitTypes DEF NotchInv, Told

\* While the speed that rc_drive or camera_check asks for is one that a byte
\* can say, a key changes the speed of the vehicle by one notch, or stops it:
\* what an earlier mode left behind is never taken up again.
THEOREM NotchWhileInRange ==
    Spec => [][InRange(local.speed) /\ InRange(local'.speed)
                 => NotchAtMost]_vars
<1>1. NotchInv /\ [Next]_vars =>
        [InRange(local.speed) /\ InRange(local'.speed) => NotchAtMost]_vars
  BY NearWhileInRange
<1> QED
  BY NotchInit, StepKeepsNotches, <1>1, PTL DEF Spec

\* With at most twelve keys typed the speed cannot leave that range, and a key
\* is never more than a notch.  (The thirteenth may wrap the byte around.)
THEOREM OneNotchAtATime == ASSUME MaxKeys <= 12 PROVE Spec => OneNotch
<1>1. ASSUME NotchInv PROVE InRange(local.speed)
  <2>1. PICK u \in Nat : u = typed - Len(keys) /\ u <= 12
    BY <1>1, KeysTyped DEF NotchInv
  <2>2. local.speed \in -(5 * u)..(5 * u) /\ local.speed \in Int
    BY <1>1, <2>1 DEF NotchInv, Notches, IInv, Settings
  <2> QED
    BY <2>1, <2>2, Twelve
<1>2. NotchInv /\ [Next]_vars => [NotchAtMost]_vars
  <2> SUFFICES ASSUME NotchInv, [Next]_vars PROVE NotchAtMost
    OBVIOUS
  <2>1. NotchInv'
    BY StepKeepsNotches
  <2>2. InRange(local.speed)
    BY <1>1
  <2>3. InRange(local.speed)'
    <3>0. /\ typed' \in 0..MaxKeys /\ Len(keys') <= typed'
          /\ Len(keys') \in Nat
      BY <2>1, LenProperties DEF NotchInv, IInv, TypeOK
    <3>1. PICK v \in Nat : v = typed' - Len(keys') /\ v <= 12
      BY <3>0, KeysAssumption
    <3>2. local'.speed \in -(5 * v)..(5 * v) /\ local'.speed \in Int
      BY <2>1, <3>1 DEF NotchInv, Notches, IInv, Settings
    <3>3. InRange(local'.speed)
      BY <3>1, <3>2, Twelve
    <3> QED
      BY <3>3 DEF InRange
  <2> QED
    BY <2>2, <2>3, NearWhileInRange DEF InRange
<1> QED
  BY NotchInit, StepKeepsNotches, <1>2, PTL DEF Spec, OneNotch
=============================================================================
