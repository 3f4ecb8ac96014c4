------------------------------ MODULE BrainLink ------------------------------
(***************************************************************************)
(* The serial link from insula to cogzilla.  Insula's main loop writes two *)
(* kinds of message, one at a time: a GPS fix (GPS_send) and a force       *)
(* (Sonar_calc, URG04LX::send_force).  Cogzilla's USART3 interrupt takes   *)
(* the X force out of the stream and turns it into a steering angle; the   *)
(* other bytes go to a receive ring, a queue of at most Capacity bytes     *)
(* (RxRing implements it).  gps_drive decodes the queue with insula_read   *)
(* and feeds the EKF; track_drive hands the steering angle to the servo.   *)
(*                                                                         *)
(* A byte is a record of its value v, the message m it was written for,    *)
(* its place p there and the header t it was written as, 0 for a payload   *)
(* byte.  The code sees only v; the others say, to the properties, whether *)
(* a decoded field is made of the bytes it should be.                      *)
(***************************************************************************)
EXTENDS Integers, Sequences, FiniteSetsExt

CONSTANTS
    Capacity,      \* bytes the ring of Serial3 holds, RX_BUFFER_SIZE - 1
    Payload,       \* values of the bytes that are not headers of their message
    MaxMessages,   \* bound: messages insula sends
    MaxAccidents,  \* bound: bytes lost on the wire, refused by a full ring, or
                   \* of a payload and yet with the value of a header
    Modes          \* the drive modes the console may enter

ASSUME BoundsAssumption ==
    /\ Capacity \in Nat /\ MaxMessages \in Nat /\ MaxAccidents \in Nat
    /\ Payload \subseteq 0..255

FORCE_X_POS   == 242   \* 0xF2
FORCE_X_NEG   == 243   \* 0xF3
FORCE_Y       == 248   \* 0xF8
GPS_speed     == 161   \* 0xA1
GPS_course    == 162   \* 0xA2
GPS_latitude  == 164   \* 0xA4
GPS_longitude == 168   \* 0xA8

VARIABLES
    kind, m, p,        \* insula: the message under way and its next byte
    accidents,         \* how many of those there were
    queue,             \* rx_buffer3
    coming,            \* positive_force_coming, negative_force_coming
    steering_angle,    \* the force byte the angle was computed from
    new_steering_angle,
    mode, pc,          \* cogzilla: the drive mode and the place in it
    header,            \* insula_read: the header it has read
    velocity, heading, xpos, ypos,   \* curr_..._reading
    new_gps_data,
    loaded,            \* track_drive: the first half of the angle it loaded
    servo,             \* what the servo was last told: the angles it mixes
    estimate,          \* history: the readings of the last EKF step
    damaged,           \* history: messages with a byte that was lost, refused
                       \* by a full ring or wrongly taken by the interrupt
    mistaken           \* history: messages with a payload byte that insula_read
                       \* took for a header

insula == <<kind, m, p, accidents>>
isr == <<queue, coming, steering_angle, new_steering_angle, damaged>>
readings == <<velocity, heading, xpos, ypos, new_gps_data>>
track == <<loaded, servo>>
vars == <<insula, isr, mode, pc, header, readings, track, estimate, mistaken>>

-----------------------------------------------------------------------------
\* The messages: the header at each place, 0 where a payload byte goes.
Fix == <<GPS_speed, 0, 0, GPS_course, 0, 0, GPS_latitude, 0, 0, 0, 0,
         GPS_longitude, 0, 0, 0, 0>>

ForceMessage(sign) == <<sign, 0, FORCE_Y, 0>>

Template == [k \in {"fix", "pos", "neg"} |->
               CASE k = "fix" -> Fix
                 [] k = "pos" -> ForceMessage(FORCE_X_POS)
                 [] k = "neg" -> ForceMessage(FORCE_X_NEG)]

\* How many bytes insula_read waits for after a header.
Length == [h \in {GPS_speed, GPS_course, GPS_latitude, GPS_longitude} |->
             IF h \in {GPS_speed, GPS_course} THEN 2 ELSE 4]

NoByte == [v |-> 0, m |-> 0, p |-> 0, t |-> 0]

\* A reading: the header and the bytes it was decoded from, and whether its
\* value is in degrees or, after wgslla2xyz, in metres.
NoReading == [hdr |-> NoByte, bytes |-> <<>>, unit |-> "metres"]

Init ==
    /\ kind = "none" /\ m = 0 /\ p = 0
    /\ accidents = 0
    /\ queue = <<>>
    /\ coming = "none"
    /\ steering_angle = NoByte
    /\ new_steering_angle = FALSE
    /\ mode = "idle" /\ pc = "loop"
    /\ header = NoByte
    /\ velocity = NoReading /\ heading = NoReading
    /\ xpos = NoReading /\ ypos = NoReading
    /\ new_gps_data = FALSE
    /\ loaded = NoByte
    /\ servo = {}
    /\ estimate = <<>>
    /\ damaged = {} /\ mistaken = {}

-----------------------------------------------------------------------------
\* Insula's main loop starts a message when the last one is written.
StartMessage(k) ==
    /\ kind = "none"
    /\ m < MaxMessages
    /\ kind' = k
    /\ m' = m + 1
    /\ p' = 1
    /\ UNCHANGED <<accidents, isr, mode, pc, header, readings, track,
                   estimate, mistaken>>

\* Brain.write puts the next byte on the wire.
WriteNext ==
    IF p = Len(Template[kind])
    THEN kind' = "none" /\ p' = 0 /\ UNCHANGED m
    ELSE p' = p + 1 /\ UNCHANGED <<kind, m>>

BytesNow == LET t == Template[kind][p] IN
            {[v |-> x, m |-> m, p |-> p, t |-> t] :
               x \in IF t = 0 THEN Payload ELSE {t}}

\* Cogzilla's USART3 interrupt.  A byte is damaged when it is taken for the
\* value of a force, or for the header of one, that it is not.
IsForceValue(b) == b.p = 2 /\ kind # "fix"
IsForceHeader(b) == b.t = b.v

TakeForce(b) ==
    /\ coming # "none"
    /\ steering_angle' = b
    /\ new_steering_angle' = TRUE
    /\ coming' = "none"
    /\ damaged' = IF IsForceValue(b) THEN damaged ELSE damaged \cup {b.m}
    /\ UNCHANGED queue

ExpectForce(b) ==
    /\ coming = "none"
    /\ b.v \in {FORCE_X_POS, FORCE_X_NEG}
    /\ coming' = IF b.v = FORCE_X_POS THEN "pos" ELSE "neg"
    /\ damaged' = IF IsForceHeader(b) THEN damaged ELSE damaged \cup {b.m}
    /\ UNCHANGED <<queue, steering_angle, new_steering_angle>>

StoreChar(b) ==
    /\ coming = "none"
    /\ b.v \notin {FORCE_X_POS, FORCE_X_NEG}
    /\ IF Len(queue) < Capacity
       THEN queue' = Append(queue, b) /\ UNCHANGED damaged
       ELSE damaged' = damaged \cup {b.m} /\ UNCHANGED queue
    /\ UNCHANGED <<coming, steering_angle, new_steering_angle>>

\* Once MaxAccidents have happened, a byte comes only when there is room for it.
Ambiguous(b) == b.t = 0 /\ b.v \in {FORCE_X_POS, FORCE_X_NEG} \cup DOMAIN Length
Refused(b) == /\ coming = "none" /\ Len(queue) = Capacity
              /\ b.v \notin {FORCE_X_POS, FORCE_X_NEG}

Send ==
    /\ kind # "none"
    /\ WriteNext
    /\ \E b \in BytesNow :
         /\ TakeForce(b) \/ ExpectForce(b) \/ StoreChar(b)
         /\ accidents' = accidents + IF Ambiguous(b) \/ Refused(b) THEN 1 ELSE 0
    /\ accidents' <= MaxAccidents
    /\ UNCHANGED <<mode, pc, header, readings, track, estimate, mistaken>>

Lose ==
    /\ kind # "none"
    /\ accidents < MaxAccidents
    /\ accidents' = accidents + 1
    /\ WriteNext
    /\ damaged' = damaged \cup {m}
    /\ UNCHANGED <<queue, coming, steering_angle, new_steering_angle, mode, pc,
                   header, readings, track, estimate, mistaken>>

-----------------------------------------------------------------------------
\* Cogzilla's console: a mode is entered from loop() and left with 'e'.
EnterMode(d) ==
    /\ mode = "idle"
    /\ mode' = d
    /\ UNCHANGED <<insula, isr, pc, header, readings, track,
                   estimate, mistaken>>

LeaveMode ==
    /\ mode # "idle"
    /\ pc = "loop"
    /\ mode' = "idle"
    /\ UNCHANGED <<insula, isr, pc, header, readings, track,
                   estimate, mistaken>>

\* insula_read: one byte, and for a header the wait for what follows it.
ReadByte ==
    /\ mode = "gps" /\ pc = "loop"
    /\ queue # <<>>
    /\ queue' = Tail(queue)
    /\ IF Head(queue).v \in DOMAIN Length
       THEN /\ header' = Head(queue) /\ pc' = "wait"
            /\ mistaken' = IF header'.t = 0 THEN mistaken \cup {header'.m}
                           ELSE mistaken
       ELSE UNCHANGED <<header, pc, mistaken>>
    /\ UNCHANGED <<insula, coming, steering_angle, new_steering_angle, damaged,
                   mode, readings, track, estimate>>

\* A longitude that is stored but not converted.
DecodeUnconverted(h, r) ==
    CASE h = GPS_speed  -> /\ velocity' = [r EXCEPT !.unit = "m/s"]
                           /\ UNCHANGED <<heading, xpos, ypos, new_gps_data>>
      [] h = GPS_course -> /\ heading' = [r EXCEPT !.unit = "rad"]
                           /\ UNCHANGED <<velocity, xpos, ypos, new_gps_data>>
      [] h = GPS_latitude ->
            /\ xpos' = [r EXCEPT !.unit = "degrees"]
            /\ UNCHANGED <<velocity, heading, ypos, new_gps_data>>
      [] h = GPS_longitude ->
            /\ ypos' = [r EXCEPT !.unit = "degrees"]
            /\ new_gps_data' = TRUE
            /\ UNCHANGED <<velocity, heading, xpos>>

\* wgslla2xyz(curr_xpos_reading, curr_ypos_reading) rewrites both in metres.
Decode(h, r) ==
    CASE h = GPS_speed  -> /\ velocity' = [r EXCEPT !.unit = "m/s"]
                           /\ UNCHANGED <<heading, xpos, ypos, new_gps_data>>
      [] h = GPS_course -> /\ heading' = [r EXCEPT !.unit = "rad"]
                           /\ UNCHANGED <<velocity, xpos, ypos, new_gps_data>>
      [] h = GPS_latitude ->
            /\ xpos' = [r EXCEPT !.unit = "degrees"]
            /\ UNCHANGED <<velocity, heading, ypos, new_gps_data>>
      [] h = GPS_longitude ->
            /\ xpos' = IF xpos.unit = "degrees"
                       THEN [xpos EXCEPT !.unit = "metres"]
                       ELSE [NoReading EXCEPT !.unit = "neither"]
            /\ ypos' = [r EXCEPT !.unit = "metres"]
            /\ new_gps_data' = TRUE
            /\ UNCHANGED <<velocity, heading>>

\* A wait for one byte too many, and no wait at all.
ReadFieldLate ==
    /\ mode = "gps" /\ pc = "wait"
    /\ LET n == Length[header.v] IN
         /\ Len(queue) > n
         /\ Decode(header.v, [hdr |-> header, bytes |-> SubSeq(queue, 1, n),
                              unit |-> "raw"])
         /\ queue' = SubSeq(queue, n + 1, Len(queue))
         /\ pc' = IF header.v = GPS_longitude THEN "ekf" ELSE "loop"
    /\ header' = NoByte
    /\ UNCHANGED <<insula, coming, steering_angle, new_steering_angle, damaged,
                   mode, track, estimate, mistaken>>

ReadFieldEarly ==
    /\ mode = "gps" /\ pc = "wait"
    /\ LET n == Min({Length[header.v], Len(queue)}) IN
         /\ Decode(header.v, [hdr |-> header, bytes |-> SubSeq(queue, 1, n),
                              unit |-> "raw"])
         /\ queue' = SubSeq(queue, n + 1, Len(queue))
         /\ pc' = IF header.v = GPS_longitude THEN "ekf" ELSE "loop"
    /\ header' = NoByte
    /\ UNCHANGED <<insula, coming, steering_angle, new_steering_angle, damaged,
                   mode, track, estimate, mistaken>>

ReadField ==
    /\ mode = "gps" /\ pc = "wait"
    /\ LET n == Length[header.v] IN
         /\ Len(queue) >= n
         /\ Decode(header.v, [hdr |-> header, bytes |-> SubSeq(queue, 1, n),
                              unit |-> "raw"])
         /\ queue' = SubSeq(queue, n + 1, Len(queue))
         /\ pc' = IF header.v = GPS_longitude THEN "ekf" ELSE "loop"
    /\ header' = NoByte
    /\ UNCHANGED <<insula, coming, steering_angle, new_steering_angle, damaged,
                   mode, track, estimate, mistaken>>

PropagateAndKeepFlag ==
    /\ mode = "gps" /\ pc = "ekf"
    /\ new_gps_data
    /\ estimate' = <<velocity, heading, xpos, ypos>>
    /\ pc' = "loop"
    /\ UNCHANGED <<insula, isr, mode, header, readings, track, mistaken>>

\* gps_drive: one EKF step on the readings, and their radio report.
PropagateEKF ==
    /\ mode = "gps" /\ pc = "ekf"
    /\ new_gps_data
    /\ estimate' = <<velocity, heading, xpos, ypos>>
    /\ new_gps_data' = FALSE
    /\ pc' = "loop"
    /\ UNCHANGED <<insula, isr, mode, header, velocity, heading, xpos, ypos,
                   track, mistaken>>

-----------------------------------------------------------------------------
\* track_drive: clear the flag, load the angle in two halves, tell the servo.
ClearNewAngle ==
    /\ mode = "track" /\ pc = "loop"
    /\ new_steering_angle
    /\ new_steering_angle' = FALSE
    /\ pc' = "load"
    /\ UNCHANGED <<insula, queue, coming, steering_angle, damaged, mode, header,
                   readings, track, estimate, mistaken>>

LoadAngle ==
    /\ mode = "track" /\ pc = "load"
    /\ loaded' = steering_angle
    /\ pc' = "turn"
    /\ UNCHANGED <<insula, isr, mode, header, readings, servo,
                   estimate, mistaken>>

TurnServoAndClear ==
    /\ mode = "track" /\ pc = "turn"
    /\ servo' = {loaded, steering_angle}
    /\ new_steering_angle' = FALSE
    /\ loaded' = NoByte
    /\ pc' = "loop"
    /\ UNCHANGED <<insula, queue, coming, steering_angle, damaged, mode, header,
                   readings, estimate, mistaken>>

TurnServo ==
    /\ mode = "track" /\ pc = "turn"
    /\ servo' = {loaded, steering_angle}
    /\ loaded' = NoByte
    /\ pc' = "loop"
    /\ UNCHANGED <<insula, isr, mode, header, readings, estimate, mistaken>>

GpsDrive == ReadByte \/ ReadField \/ PropagateEKF
TrackDrive == ClearNewAngle \/ LoadAngle \/ TurnServo

Next ==
    \/ \E k \in DOMAIN Template : StartMessage(k)
    \/ Send \/ Lose
    \/ \E d \in Modes : EnterMode(d)
    \/ LeaveMode
    \/ GpsDrive \/ TrackDrive

\* Insula finishes the message it has begun, and a drive mode keeps looping;
\* neither the next message nor a key is ever certain.
Spec ==
    /\ Init /\ [][Next]_vars
    /\ WF_vars(Send)
    /\ WF_vars(GpsDrive)
    /\ WF_vars(TrackDrive)

-----------------------------------------------------------------------------
\* Every variable has its type.
AnyByte == [v : Payload \cup {GPS_speed, GPS_course, GPS_latitude,
                              GPS_longitude, FORCE_X_POS, FORCE_X_NEG, FORCE_Y},
            m : 1..MaxMessages, p : 1..Len(Fix),
            t : {0, GPS_speed, GPS_course, GPS_latitude, GPS_longitude,
                 FORCE_X_POS, FORCE_X_NEG, FORCE_Y}] \cup {NoByte}

TypeOK ==
    /\ kind \in DOMAIN Template \cup {"none"}
    /\ m \in 0..MaxMessages
    /\ p \in 0..Len(Fix)
    /\ accidents \in 0..MaxAccidents
    /\ Len(queue) <= Capacity
    /\ \A i \in DOMAIN queue : queue[i] \in AnyByte
    /\ coming \in {"none", "pos", "neg"}
    /\ steering_angle \in AnyByte
    /\ new_steering_angle \in BOOLEAN
    /\ mode \in Modes \cup {"idle"}
    /\ pc \in {"loop", "wait", "ekf", "load", "turn"}
    /\ new_gps_data <=> pc = "ekf"
    /\ damaged \cup mistaken \subseteq 1..MaxMessages

\* A field decoded from a real header and the bytes that were sent after it.
Whole(r) ==
    /\ r.bytes # <<>>
    /\ Len(r.bytes) = Length[r.hdr.v]
    /\ r.hdr.t = r.hdr.v
    /\ \A i \in DOMAIN r.bytes :
         r.bytes[i].m = r.hdr.m /\ r.bytes[i].p = r.hdr.p + i

\* A field is decoded from the bytes that were sent for it, unless a byte of
\* its own message went astray or was no header at all: whatever is lost,
\* refused or misread elsewhere, insula_read never misreads a field that it
\* began at its header and that belongs to a message that arrived complete.
GarbageOnlyFromDamage ==
    \A r \in {velocity, heading, xpos, ypos} :
        \/ r.bytes = <<>>
        \/ r.hdr.m \in damaged \cup mistaken
        \/ Whole(r)

\* The readings of an EKF step are the four fields of one message, each decoded
\* whole and the position converted to metres exactly once, unless that message
\* or one of the two before it was damaged or misread: the reader is back in
\* step after at most two messages, without any resynchronisation in the
\* protocol.
Coherent(e) ==
    /\ \A i \in 1..4 : Whole(e[i]) /\ e[i].hdr.m = e[4].hdr.m
    /\ e[3].unit = "metres"

EstimateFromOneFix ==
    estimate # <<>> =>
        \/ Coherent(estimate)
        \/ \E d \in 0..2 : estimate[4].hdr.m - d \in damaged \cup mistaken

\* With no new angle flagged and track_drive between two turns of its loop, the
\* servo was told the newest angle and no mix of two: an angle that the
\* interrupt computes between the test of the flag and the end of the turn is
\* never lost.
NoAngleLost ==
    ~new_steering_angle /\ pc \notin {"load", "turn"} =>
        servo = {steering_angle} \/ (servo = {} /\ steering_angle = NoByte)

\* "insula_read(); //for gps readings..": on a link that damaged nothing, what
\* it decodes begins at a header of GPS_send's, not at the value of a force.
OnlyGpsReadings ==
    damaged = {} =>
        \A r \in {velocity, heading, xpos, ypos} :
            r.bytes # <<>> => r.hdr.t = r.hdr.v

\* insula_read does not wait for ever when nothing was damaged, whatever else
\* the console and the interrupt do.
ReaderUnblocks == pc = "wait" ~> (pc # "wait" \/ damaged \cup mistaken # {})
=============================================================================
