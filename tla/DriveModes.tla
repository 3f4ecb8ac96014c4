----------------------------- MODULE DriveModes -----------------------------
(***************************************************************************)
(* Cogzilla's console and drive modes: loop and CLI, rc_drive,             *)
(* camera_check, track_drive, gps_drive, and the vehicle they command, the *)
(* speed byte to the motor controller and the pulse to the steering servo. *)
(* Serial0's ring is the queue of typed keys (RxRing implements it).  The  *)
(* camera and the link from insula are seen from here as calls that may    *)
(* not come back: both wait for bytes without a limit, and setup() has the *)
(* camera's set-up in a comment.  BrainLink models the link.               *)
(***************************************************************************)
EXTENDS Integers, Sequences

CONSTANTS
    Keys,        \* the keys the user may type
    MaxKeys,     \* bound: keys typed
    MaxAhead,    \* bound: keys typed and not yet read
    Steering     \* angles the USART3 interrupt may compute from a force

\* rx_buffer0 has room for them.
ASSUME MaxAheadAssumption == MaxAhead \in 0..127

ASSUME KeysAssumption == MaxKeys \in Nat /\ Steering \subseteq Int

Drives == {"rc", "camera", "track", "gps"}
CommandOf == [r |-> "rc", c |-> "camera", t |-> "track", g |-> "gps"]

SLOW_SPEED == 12
STRAIGHT == 1300

VARIABLES
    typed,       \* keys typed so far
    keys,        \* rx_buffer0
    mode, pc,    \* where the main program is
    input,       \* the key a drive mode looked at last, "" for none
    ignore_cam,  \* track_drive's answer to "Use Cam?"
    local,       \* set_angle and set_speed, locals of rc_drive, camera_check
    global,      \* set_angle and set_speed, globals that gps_drive uses
    new_steering_angle, steering_angle,
    motor,       \* the last byte written to the motor controller, or -1
    servo,       \* the last pulse width given to the servo, or -1
    turn_angle   \* vehicle::turn_angle

console == <<typed, keys>>
link == <<new_steering_angle, steering_angle>>
vehicle == <<motor, servo, turn_angle>>
vars == <<console, mode, pc, input, ignore_cam, local, global, link, vehicle>>

Init ==
    /\ typed = 0 /\ keys = <<>>
    /\ mode = "idle" /\ pc = "loop"
    /\ input = ""
    /\ ignore_cam = FALSE
    /\ local = [angle |-> STRAIGHT, speed |-> 0]
    /\ global = [angle |-> STRAIGHT, speed |-> 0]
    /\ new_steering_angle = FALSE
    /\ steering_angle = 0
    /\ motor = -1
    /\ servo = -1
    /\ turn_angle = STRAIGHT

-----------------------------------------------------------------------------
\* The vehicle.  C divides towards zero.
CDiv(a, b) == IF a < 0 THEN -((-a) \div b) ELSE a \div b

map(x, in_min, in_max, out_min, out_max) ==
    CDiv((x - in_min) * (out_max - out_min), in_max - in_min) + out_min

\* The servo is attached with pulses of 800 to 2100 microseconds.
SERVO_MIN == 800
SERVO_MAX == 2100

\* MegaServo::write, which writeMicroseconds calls: below 200 it means degrees.
Pulse(angle) ==
    CASE angle < 200        -> map(angle, 0, 180, SERVO_MIN, SERVO_MAX)
      [] angle \in 200..SERVO_MIN -> SERVO_MIN
      [] angle > SERVO_MAX  -> SERVO_MAX
      [] OTHER              -> angle

set_turn_angle(angle) == turn_angle' = angle /\ servo' = Pulse(angle)

\* HardwareSerial::write takes a byte.
SpeedByte(speed) == map(speed, -64, 64, 0, 128) % 256

set_speed(speed) == motor' = SpeedByte(speed)

-----------------------------------------------------------------------------
TypeKey(k) ==
    /\ typed < MaxKeys /\ Len(keys) < MaxAhead
    /\ typed' = typed + 1
    /\ keys' = Append(keys, k)
    /\ UNCHANGED <<mode, pc, input, ignore_cam, local, global, link, vehicle>>

\* The interrupt has computed an angle from a force of insula's.
NewAngle(a) ==
    /\ a # steering_angle
    /\ steering_angle' = a
    /\ new_steering_angle' = TRUE
    /\ UNCHANGED <<console, mode, pc, input, ignore_cam, local, global,
                   vehicle>>

\* loop and CLI.
CLI ==
    /\ mode = "idle"
    /\ keys # <<>>
    /\ keys' = Tail(keys)
    /\ IF Head(keys) \in DOMAIN CommandOf
       THEN mode' = CommandOf[Head(keys)] /\ pc' = "start"
       ELSE UNCHANGED <<mode, pc>>
    /\ UNCHANGED <<typed, input, ignore_cam, local, global, link, vehicle>>

\* What Serial0.read() returns, and what it leaves.
Read == /\ input' = IF keys = <<>> THEN "" ELSE Head(keys)
        /\ keys' = IF keys = <<>> THEN keys ELSE Tail(keys)

-----------------------------------------------------------------------------
\* The four keys that drive: what they do to an angle and a speed.
Turn == [a |-> 25, d |-> -25]
Push == [w |-> 5, s |-> -5]

Steer(k, set) ==
    IF k \in DOMAIN Turn
    THEN [set EXCEPT !.angle = @ + Turn[k]]
    ELSE IF k \in DOMAIN Push THEN [set EXCEPT !.speed = @ + Push[k]] ELSE set

\* The vehicle is told the one the key changed.
Obey(k, set) ==
    IF k \in DOMAIN Turn
    THEN set_turn_angle(set.angle) /\ UNCHANGED motor
    ELSE IF k \in DOMAIN Push
    THEN set_speed(set.speed) /\ UNCHANGED <<servo, turn_angle>>
    ELSE UNCHANGED vehicle

\* Without locals of its own, a mode goes on from where the last one was.
StartByHandGlobal ==
    /\ mode \in {"rc", "camera"} /\ pc = "start"
    /\ Read
    /\ set_turn_angle(STRAIGHT) /\ set_speed(0)
    /\ pc' = "loop"
    /\ UNCHANGED <<typed, mode, ignore_cam, local, global, link>>

\* rc_drive and camera_check start by reading a key and centring everything.
StartByHand ==
    /\ mode \in {"rc", "camera"} /\ pc = "start"
    /\ Read
    /\ local' = [angle |-> STRAIGHT, speed |-> 0]
    /\ set_turn_angle(STRAIGHT) /\ set_speed(0)
    /\ pc' = "loop"
    /\ UNCHANGED <<typed, mode, ignore_cam, global, link>>

\* Where a key is taken: rc_drive's loop, and camera_check's after its look.
AtKey == \/ mode = "rc" /\ pc = "loop" /\ input # "e"
         \/ mode = "camera" /\ pc = "key"

\* The flush that camera_check has in a comment.
DriveByHandFlush ==
    /\ AtKey
    /\ keys # <<>>
    /\ Read
    /\ local' = Steer(input', local)
    /\ Obey(input', local')
    /\ pc' = "flush"
    /\ UNCHANGED <<typed, mode, ignore_cam, global, link>>

DriveByHand ==
    /\ AtKey
    /\ keys # <<>>
    /\ Read
    /\ local' = Steer(input', local)
    /\ Obey(input', local')
    /\ pc' = IF mode = "rc" THEN "flush" ELSE "loop"
    /\ UNCHANGED <<typed, mode, ignore_cam, global, link>>

NoKey ==
    /\ mode = "camera" /\ pc = "key"
    /\ keys = <<>>
    /\ pc' = "loop"
    /\ UNCHANGED <<console, mode, input, ignore_cam, local, global, link,
                   vehicle>>

\* camera_check looks for a stop sign before each key.
Look ==
    /\ mode = "camera" /\ pc = "loop"
    /\ input # "e"
    /\ pc' = "away"
    /\ UNCHANGED <<console, mode, input, ignore_cam, local, global, link,
                   vehicle>>

\* rc_drive throws away what was typed while it handled the key.
Flush ==
    /\ mode \in {"rc", "camera"} /\ pc = "flush"
    /\ keys' = <<>>
    /\ pc' = "loop"
    /\ UNCHANGED <<typed, mode, input, ignore_cam, local, global, link,
                   vehicle>>

-----------------------------------------------------------------------------
\* track_drive sets off, asks about the camera, then follows the angles.
StartTrack ==
    /\ mode = "track" /\ pc = "start"
    /\ set_speed(SLOW_SPEED)
    /\ pc' = "use cam?"
    /\ UNCHANGED <<console, mode, input, ignore_cam, local, global, link,
                   servo, turn_angle>>

UseCam ==
    /\ mode = "track" /\ pc = "use cam?"
    /\ keys # <<>>
    /\ Read
    /\ ignore_cam' = (input' = "n")
    /\ pc' = "loop"
    /\ UNCHANGED <<typed, mode, local, global, link, vehicle>>

Track ==
    /\ mode = "track" /\ pc = "loop"
    /\ input # "e"
    /\ Read
    /\ IF new_steering_angle
       THEN set_turn_angle(steering_angle) ELSE UNCHANGED <<servo, turn_angle>>
    /\ new_steering_angle' = FALSE
    /\ pc' = IF ignore_cam THEN "loop" ELSE "away"
    /\ UNCHANGED <<typed, mode, ignore_cam, local, global, steering_angle,
                   motor>>

-----------------------------------------------------------------------------
\* gps_drive goes on with the globals; insula_read and the EKF follow each key.
StartGps ==
    /\ mode = "gps" /\ pc = "start"
    /\ input' = "a"
    /\ pc' = "loop"
    /\ UNCHANGED <<console, mode, ignore_cam, local, global, link, vehicle>>

DriveByGps ==
    /\ mode = "gps" /\ pc = "loop"
    /\ input # "e"
    /\ Read
    /\ global' = Steer(input', global)
    /\ Obey(input', global')
    /\ pc' = "away"
    /\ UNCHANGED <<typed, mode, ignore_cam, local, link>>

-----------------------------------------------------------------------------
\* track_stop_sign or insula_read comes back, which is never certain.
ComeBack ==
    /\ pc = "away"
    /\ pc' = IF mode = "camera" THEN "key" ELSE "loop"
    /\ UNCHANGED <<console, mode, input, ignore_cam, local, global, link,
                   vehicle>>

\* Every drive mode ends at the key 'e', and stops the vehicle.
LeaveMoving ==
    /\ mode \in Drives /\ pc = "loop"
    /\ input = "e"
    /\ IF mode = "track" THEN UNCHANGED motor ELSE set_speed(0)
    /\ mode' = "idle"
    /\ UNCHANGED <<console, pc, input, ignore_cam, local, global, link, servo,
                   turn_angle>>

Leave ==
    /\ mode \in Drives /\ pc = "loop"
    /\ input = "e"
    /\ set_speed(0)
    /\ mode' = "idle"
    /\ UNCHANGED <<console, pc, input, ignore_cam, local, global, link, servo,
                   turn_angle>>

Main ==
    \/ CLI \/ StartByHand \/ DriveByHand \/ NoKey \/ Look \/ Flush
    \/ StartTrack \/ UseCam \/ Track \/ StartGps \/ DriveByGps \/ Leave

Next ==
    \/ \E k \in Keys : TypeKey(k)
    \/ \E a \in Steering : NewAngle(a)
    \/ ComeBack
    \/ Main

\* The main program goes on when it can; a key is never certain.
Spec == Init /\ [][Next]_vars /\ WF_vars(Main)

-----------------------------------------------------------------------------
\* Every variable has its type.
TypeOK ==
    /\ typed \in 0..MaxKeys
    /\ Len(keys) <= typed
    /\ mode \in Drives \cup {"idle"}
    /\ pc \in {"start", "loop", "key", "flush", "use cam?", "away"}
    /\ pc = "away" => mode \in {"camera", "track", "gps"}
    /\ pc = "flush" => mode = "rc"
    /\ mode = "idle" => pc = "loop"
    /\ motor \in -1..255
    /\ servo \in Int /\ turn_angle \in Int

\* Outside the drive modes the vehicle does not move: every way out of every
\* mode stops it, and nothing sets it going again.
StoppedWhenIdle == mode = "idle" => motor \in {-1, SpeedByte(0)}

\* The key 'e', typed in any mode but rc_drive, ends the mode, whatever else is
\* typed before it and after it and however fast, unless the camera or insula
\* keeps the loop waiting for ever.
ExitKeyEnds ==
    mode \in Drives \ {"rc"} /\ (\E i \in DOMAIN keys : keys[i] = "e")
        ~> mode = "idle" \/ [](pc = "away")

\* Driving by hand starts from rest and a key changes the speed of the vehicle
\* by one notch: what an earlier mode left behind is never taken up again.
Near(x, y) == x - y \in {-5, 0, 5}

NotchAtMost ==
    mode \in {"rc", "camera"} /\ motor' # motor =>
        motor' = SpeedByte(0) \/ Near(motor, motor')

OneNotch == [][NotchAtMost]_vars
=============================================================================
