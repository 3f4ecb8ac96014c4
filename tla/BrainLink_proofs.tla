-------------------------- MODULE BrainLink_proofs --------------------------
(***************************************************************************)
(* For every capacity of the ring, every payload and any number of         *)
(* messages and accidents: no steering angle is lost between cogzilla's    *)
(* interrupt and track_drive, and insula_read, which knows no boundary     *)
(* between messages, decodes a field of an undamaged message from the very *)
(* bytes that were sent for it.                                            *)
(***************************************************************************)
EXTENDS BrainLink, SequenceTheorems, TLAPS

\* What holds between the two halves of the turn: a flag that is down again
\* after the first half was loaded means that the angle has not changed since.
HalfLoaded == pc = "turn" /\ ~new_steering_angle => loaded = steering_angle

\* Each value of pc belongs to one mode, so track_drive is not left mid-turn.
PlaceOfMode ==
    /\ pc \in {"load", "turn"} => mode = "track"
    /\ pc \in {"wait", "ekf"} => mode = "gps"

AngleInv == NoAngleLost /\ HalfLoaded /\ PlaceOfMode

LEMMA AngleInit == Init => AngleInv
  BY DEF Init, AngleInv, NoAngleLost, HalfLoaded, PlaceOfMode

\* The interrupt raises the flag with every angle it stores.
LEMMA InterruptKeepsAngle ==
  ASSUME AngleInv, NEW b, TakeForce(b) \/ ExpectForce(b) \/ StoreChar(b),
         UNCHANGED <<mode, pc, loaded, servo>>
  PROVE  AngleInv'
<1>1. CASE TakeForce(b)
  BY <1>1 DEF TakeForce, AngleInv, NoAngleLost, HalfLoaded, PlaceOfMode
<1>2. CASE ExpectForce(b) \/ StoreChar(b)
  <2>1. UNCHANGED <<steering_angle, new_steering_angle>>
    BY <1>2 DEF ExpectForce, StoreChar
  <2>2. QED
    BY <2>1 DEF AngleInv, NoAngleLost, HalfLoaded, PlaceOfMode
<1>3. QED
  BY <1>1, <1>2

LEMMA AngleNext == AngleInv /\ [Next]_vars => AngleInv'
<1> SUFFICES ASSUME AngleInv, [Next]_vars PROVE AngleInv'
  OBVIOUS
<1> USE DEF AngleInv, NoAngleLost, HalfLoaded, PlaceOfMode
<1>1. ASSUME NEW k \in DOMAIN Template, StartMessage(k) PROVE AngleInv'
  BY <1>1 DEF StartMessage, isr, track
<1>2. CASE Send
  <2>1. PICK b \in BytesNow : TakeForce(b) \/ ExpectForce(b) \/ StoreChar(b)
    BY <1>2 DEF Send
  <2>2. UNCHANGED <<mode, pc, loaded, servo>>
    BY <1>2 DEF Send, track
  <2>3. QED
    BY <2>1, <2>2, InterruptKeepsAngle
<1>3. CASE Lose
  BY <1>3 DEF Lose, track
<1>4. ASSUME NEW d \in Modes, EnterMode(d) PROVE AngleInv'
  BY <1>4 DEF EnterMode, isr, track
<1>5. CASE LeaveMode
  BY <1>5 DEF LeaveMode, isr, track
<1>6. CASE ReadByte
  BY <1>6 DEF ReadByte, track
<1>7. CASE ReadField
  BY <1>7 DEF ReadField, track
<1>8. CASE PropagateEKF
  BY <1>8 DEF PropagateEKF, isr, track
<1>9. CASE ClearNewAngle
  BY <1>9 DEF ClearNewAngle, track
<1>10. CASE LoadAngle
  BY <1>10 DEF LoadAngle, isr
<1>11. CASE TurnServo
  BY <1>11 DEF TurnServo, isr
<1>12. CASE UNCHANGED vars
  BY <1>12 DEF vars, isr, track
<1>13. QED
  BY <1>1, <1>2, <1>3, <1>4, <1>5, <1>6, <1>7, <1>8, <1>9, <1>10, <1>11,
     <1>12
  DEF Next, GpsDrive, TrackDrive

\* Whenever track_drive is not in the middle of a turn and no new angle is
\* flagged, the servo was told the newest angle (the flag of the interrupt
\* against the test, the clear and the two loads of track_drive).
THEOREM AngleNeverLost == Spec => []NoAngleLost
<1>1. AngleInv => NoAngleLost
  BY DEF AngleInv
<1>2. QED
  BY AngleInit, AngleNext, <1>1, PTL DEF Spec
-----------------------------------------------------------------------------

Sent == AnyByte \ {NoByte}

\* What insula_read has before it: the header it waits with, as place 0, and
\* the queue.
InLine == {i \in 0..Len(queue) : i > 0 \/ pc = "wait"}
At(i) == IF i = 0 THEN header ELSE queue[i]

\* A byte in the line that was a header stands where the message has that
\* header, and the bytes of the message under way are those written so far.
PlaceOf == [t \in {GPS_speed, GPS_course, GPS_latitude, GPS_longitude,
                   FORCE_Y} |->
              CASE t = GPS_speed -> 1     [] t = GPS_course -> 4
                [] t = GPS_latitude -> 7  [] t = GPS_longitude -> 12
                [] t = FORCE_Y -> 3]

Sound(b) ==
    /\ b \in Sent
    /\ b.m <= m
    /\ b.v \notin {FORCE_X_POS, FORCE_X_NEG}
    /\ b.t # 0 => b.t = b.v /\ b.t \in DOMAIN PlaceOf /\ b.p = PlaceOf[b.t]
    /\ kind # "none" /\ b.m = m => b.p < p /\ b.t = Template[kind][b.p]

\* After a byte of an undamaged message comes the next byte of that message,
\* in the queue or as the one that insula writes next.
LastOfMessage(b) == b.p = 16 \/ (b.p = 4 /\ b.t = 0)
Follows(b, c) == c.m = b.m /\ c.p = b.p + 1
IsNext(b) == kind # "none" /\ m = b.m /\ p = b.p + 1

Unbroken(i) ==
    At(i).m \notin damaged /\ ~LastOfMessage(At(i)) =>
        IF i < Len(queue) THEN Follows(At(i), queue[i + 1]) ELSE IsNext(At(i))

Contiguous == \A i \in InLine : Sound(At(i)) /\ Unbroken(i)

Waiting ==
    pc = "wait" => /\ header.v \in DOMAIN Length
                   /\ header.m \in mistaken \/ header.t # 0

\* The x position is rewritten when the longitude comes.
Readings ==
    /\ GarbageOnlyFromDamage
    /\ xpos = [hdr |-> xpos.hdr, bytes |-> xpos.bytes, unit |-> xpos.unit]

IInv ==
    /\ TypeOK
    /\ queue \in Seq(Sent)
    /\ kind # "none" => m > 0 /\ p \in 1..Len(Template[kind])
    /\ Waiting
    /\ Contiguous
    /\ Readings

-----------------------------------------------------------------------------
LEMMA Messages ==
    ASSUME NEW k \in DOMAIN Template
    PROVE  /\ Len(Template[k]) \in Nat /\ Len(Template[k]) <= 16
           /\ Len(Template[k]) >= 1
           /\ Template[k][1] # 0
           /\ k # "fix" => Len(Template[k]) = 4 /\ Template[k][4] = 0
                           /\ Template[k][1] \in {FORCE_X_POS, FORCE_X_NEG}
           /\ k = "fix" => Len(Template[k]) = 16 /\ Template[k][4] # 0
           /\ \A i \in 1..Len(Template[k]) :
                 LET t == Template[k][i] IN
                   /\ t \in {0, FORCE_X_POS, FORCE_X_NEG} \cup DOMAIN PlaceOf
                   /\ t \in DOMAIN PlaceOf => i = PlaceOf[t]
                   /\ t \in {FORCE_X_POS, FORCE_X_NEG} => i = 1
<1>1. k \in {"fix", "pos", "neg"}
  BY DEF Template
<1>2. CASE k = "fix"
  BY <1>2
  DEF Template, Fix, PlaceOf, GPS_speed, GPS_course, GPS_latitude,
      GPS_longitude, FORCE_Y, FORCE_X_POS, FORCE_X_NEG
<1>3. CASE k = "pos" \/ k = "neg"
  BY <1>3
  DEF Template, ForceMessage, PlaceOf, GPS_speed, GPS_course, GPS_latitude,
      GPS_longitude, FORCE_Y, FORCE_X_POS, FORCE_X_NEG
<1> QED
  BY <1>1, <1>2, <1>3

LEMMA Headers ==
    /\ DOMAIN Length = {GPS_speed, GPS_course, GPS_latitude, GPS_longitude}
    /\ \A h \in DOMAIN Length : Length[h] \in {2, 4} /\ h # 0
    /\ Length[GPS_speed] = 2 /\ Length[GPS_course] = 2
    /\ Length[GPS_latitude] = 4 /\ Length[GPS_longitude] = 4
    /\ DOMAIN PlaceOf = DOMAIN Length \cup {FORCE_Y}
    /\ PlaceOf[GPS_speed] = 1 /\ PlaceOf[GPS_course] = 4
    /\ PlaceOf[GPS_latitude] = 7 /\ PlaceOf[GPS_longitude] = 12
  BY DEF Length, PlaceOf, GPS_speed, GPS_course, GPS_latitude, GPS_longitude,
         FORCE_Y

\* The numbers of a byte.
LEMMA ByteTypes ==
    ASSUME NEW b \in Sent
    PROVE  /\ b \in AnyByte
           /\ b.m \in 1..MaxMessages /\ b.p \in 1..16
           /\ b.t \in Nat
<1>1. Len(Fix) = 16
  BY DEF Fix
<1> QED
  BY <1>1
  DEF Sent, AnyByte, GPS_speed, GPS_course, GPS_latitude, GPS_longitude,
      FORCE_X_POS, FORCE_X_NEG, FORCE_Y

\* Taking n places off the front of the line keeps the rest as it is.
LEMMA Shift ==
    ASSUME IInv, NEW n \in 0..Len(queue),
           Len(queue') = Len(queue) - n,
           \A i \in InLine' : i + n \in InLine /\ At(i)' = At(i + n),
           UNCHANGED <<kind, m, p, damaged>>
    PROVE  Contiguous'
<1>1. Len(queue) \in Nat
  BY LenProperties DEF IInv
<1> SUFFICES ASSUME NEW i \in InLine'
             PROVE  Sound(At(i))' /\ Unbroken(i)'
  BY DEF Contiguous
<1>2. i \in 0..Len(queue') /\ i + n \in InLine /\ At(i)' = At(i + n)
  BY DEF InLine
<1>3. Sound(At(i + n)) /\ Unbroken(i + n)
  BY <1>2 DEF IInv, Contiguous
<1>4. Sound(At(i))'
  BY <1>2, <1>3 DEF Sound
<1>5. Unbroken(i)'
  <2>1. CASE i < Len(queue')
    <3>1. i + 1 \in InLine' /\ i + 1 # 0 /\ i + n + 1 # 0
      BY <1>1, <1>2, <2>1 DEF InLine
    <3>2. queue'[i + 1] = queue[i + n + 1]
      <4>1. At(i + 1)' = At(i + 1 + n)
        BY <3>1
      <4>2. i + 1 + n = i + n + 1
        BY <1>1, <1>2
      <4> QED
        BY <3>1, <4>1, <4>2 DEF At
    <3>3. i + n < Len(queue)
      BY <1>1, <1>2, <2>1
    <3> QED
      BY <1>2, <1>3, <2>1, <3>2, <3>3
      DEF Unbroken, LastOfMessage, Follows
  <2>2. CASE ~(i < Len(queue'))
    <3>1. ~(i + n < Len(queue))
      BY <1>1, <1>2, <2>2
    <3> QED
      BY <1>2, <1>3, <2>2, <3>1 DEF Unbroken, LastOfMessage, IsNext
  <2> QED
    BY <2>1, <2>2
<1> QED
  BY <1>4, <1>5

-----------------------------------------------------------------------------
LEMMA InitInvariant == Init => IInv
<1> SUFFICES ASSUME Init PROVE IInv
  OBVIOUS
<1>1. queue = <<>> /\ queue \in Seq(Sent) /\ Len(queue) = 0
  BY EmptySeq DEF Init
<1>2. TypeOK
  <2>1. kind = "none" /\ m \in 0..MaxMessages /\ p \in 0..Len(Fix)
        /\ accidents \in 0..MaxAccidents /\ Len(queue) <= Capacity
    BY <1>1, BoundsAssumption DEF Init, Fix
  <2>2. \A i \in DOMAIN queue : queue[i] \in AnyByte
    BY <1>1
  <2>3. steering_angle \in AnyByte
    BY DEF Init, AnyByte
  <2> QED
    BY <2>1, <2>2, <2>3 DEF Init, TypeOK
<1>3. Contiguous
  BY <1>1 DEF Init, Contiguous, InLine
<1>4. Readings
  BY DEF Init, Readings, GarbageOnlyFromDamage, NoReading
<1> QED
  BY <1>1, <1>2, <1>3, <1>4 DEF Init, IInv, Waiting

\* The readings are what they were, and damage is not undone.
LEMMA ReadingsKept ==
    ASSUME IInv, UNCHANGED <<velocity, heading, xpos, ypos>>,
           damaged \subseteq damaged', mistaken \subseteq mistaken'
    PROVE  Readings'
  BY DEF IInv, Readings, GarbageOnlyFromDamage, Whole

\* A step that touches neither the line nor the message under way.
LEMMA QuietKeeps ==
    ASSUME IInv, UNCHANGED <<insula, queue, header, damaged, mistaken>>,
           UNCHANGED <<velocity, heading, xpos, ypos>>,
           pc' = "wait" <=> pc = "wait",
           TypeOK'
    PROVE  IInv'
<1>1. Contiguous'
  <2>1. Len(queue) \in Nat
    BY LenProperties DEF IInv
  <2>2. \A i \in InLine' : i + 0 = i /\ i \in InLine /\ At(i)' = At(i)
    BY <2>1 DEF InLine, At
  <2>3. UNCHANGED <<kind, m, p, damaged>>
    BY DEF insula
  <2>4. 0 \in 0..Len(queue) /\ Len(queue') = Len(queue) - 0
    BY <2>1
  <2>5. \A i \in InLine' : i + 0 \in InLine /\ At(i)' = At(i + 0)
    BY <2>2
  <2> QED
    BY <2>3, <2>4, <2>5, Shift
<1>2. Readings'
  BY ReadingsKept
<1> QED
  BY <1>1, <1>2 DEF IInv, Waiting, insula

LEMMA OthersKeep ==
    ASSUME IInv,
           \/ \E d \in Modes : EnterMode(d)
           \/ LeaveMode \/ PropagateEKF \/ TrackDrive \/ UNCHANGED vars
    PROVE  IInv'
<1>1. CASE (\E d \in Modes : EnterMode(d)) \/ LeaveMode
  BY <1>1, QuietKeeps
  DEF EnterMode, LeaveMode, isr, readings, insula, IInv, TypeOK
<1>2. CASE PropagateEKF
  BY <1>2, QuietKeeps DEF PropagateEKF, isr, insula, IInv, TypeOK
<1>3. CASE ClearNewAngle
  BY <1>3, QuietKeeps DEF ClearNewAngle, readings, insula, IInv, TypeOK
<1>4. CASE LoadAngle \/ TurnServo
  BY <1>4, QuietKeeps DEF LoadAngle, TurnServo, isr, readings, insula, IInv,
                         TypeOK
<1>5. CASE UNCHANGED vars
  BY <1>5, QuietKeeps DEF vars, isr, readings, insula, IInv, TypeOK
<1> QED
  BY <1>1, <1>2, <1>3, <1>4, <1>5 DEF TrackDrive

-----------------------------------------------------------------------------
\* Insula.  A message begins only when the one before is complete, so nothing
\* in the line is waiting for its next byte.
LEMMA StartKeeps ==
    ASSUME IInv, NEW k \in DOMAIN Template, StartMessage(k)
    PROVE  IInv'
<1>1. /\ kind = "none" /\ kind' = k /\ m' = m + 1 /\ p' = 1
      /\ m < MaxMessages
      /\ UNCHANGED <<accidents, queue, header, pc, damaged, mistaken>>
  BY DEF StartMessage, isr
<1>2. m \in Nat /\ k \in {"fix", "pos", "neg"} /\ k # "none"
  BY DEF IInv, TypeOK, Template
<1>3. TypeOK'
  BY <1>1, <1>2, BoundsAssumption
  DEF IInv, TypeOK, StartMessage, isr, readings, Fix
<1>4. p' \in 1..Len(Template[kind'])
  BY <1>1, Messages
<1>5. Contiguous'
  <2> SUFFICES ASSUME NEW i \in InLine'
               PROVE  Sound(At(i))' /\ Unbroken(i)'
    BY DEF Contiguous
  <2>1. i \in InLine /\ At(i)' = At(i)
    BY <1>1 DEF InLine, At
  <2>2. Sound(At(i)) /\ Unbroken(i)
    BY <2>1 DEF IInv, Contiguous
  <2>3. Sound(At(i))'
    BY <1>1, <1>2, <2>1, <2>2, ByteTypes DEF Sound
  <2>4. Unbroken(i)'
    BY <1>1, <2>1, <2>2 DEF Unbroken, IsNext, Follows, LastOfMessage
  <2> QED
    BY <2>3, <2>4
<1>6. Readings'
  BY ReadingsKept DEF StartMessage, isr, readings
<1> QED
  BY <1>1, <1>2, <1>3, <1>4, <1>5, <1>6 DEF IInv, Waiting

\* The byte that comes next is the message's own.
LEMMA NextByte ==
    ASSUME IInv, kind # "none", NEW b \in BytesNow
    PROVE  /\ b.m = m /\ b.p = p /\ b.t = Template[kind][p]
           /\ b \in Sent
           /\ b.t # 0 => b.t = b.v
           /\ kind \in DOMAIN Template
           /\ p \in 1..Len(Template[kind])
           /\ m \in 1..MaxMessages
<1>1. kind \in DOMAIN Template /\ p \in 1..Len(Template[kind])
      /\ m \in 1..MaxMessages
  BY DEF IInv, TypeOK
<1> DEFINE t == Template[kind][p]
<1>2. PICK x : /\ x \in IF t = 0 THEN Payload ELSE {t}
              /\ b = [v |-> x, m |-> m, p |-> p, t |-> t]
  BY DEF BytesNow
<1>3. t \in {0, FORCE_X_POS, FORCE_X_NEG} \cup DOMAIN PlaceOf
  BY <1>1, Messages
<1>4. t \in {0, GPS_speed, GPS_course, GPS_latitude, GPS_longitude,
             FORCE_X_POS, FORCE_X_NEG, FORCE_Y}
  BY <1>3, Headers
<1>5. p \in 1..Len(Fix)
  <2>1. Len(Fix) = 16
    BY DEF Fix
  <2>2. Len(Template[kind]) \in Nat /\ Len(Template[kind]) <= 16
    BY <1>1, Messages
  <2> QED
    BY <1>1, <2>1, <2>2
<1>6. b \in AnyByte /\ b # NoByte
  BY <1>1, <1>2, <1>4, <1>5 DEF AnyByte, NoByte
<1> QED
  BY <1>1, <1>2, <1>6 DEF Sent

LEMMA Written ==
    ASSUME IInv, kind # "none", WriteNext
    PROVE  /\ m' = m /\ m \in 1..MaxMessages
           /\ p \in 1..16
           /\ kind' \in DOMAIN Template \cup {"none"} /\ p' \in 0..Len(Fix)
           /\ kind' # "none" => /\ kind' = kind /\ p' = p + 1
                                /\ p' \in 1..Len(Template[kind])
           /\ p < Len(Template[kind]) => kind' # "none"
<1>1. kind \in DOMAIN Template /\ p \in 1..Len(Template[kind])
      /\ m \in 1..MaxMessages
  BY DEF IInv, TypeOK
<1>2. /\ Len(Fix) = 16
      /\ Len(Template[kind]) \in Nat /\ Len(Template[kind]) <= 16
  BY <1>1, Messages DEF Fix
<1>3. CASE p = Len(Template[kind])
  <2>1. kind' = "none" /\ p' = 0 /\ m' = m
    BY <1>3 DEF WriteNext
  <2>2. p \in 1..16
    BY <1>1, <1>2
  <2>3. ~(p < Len(Template[kind]))
    BY <1>2, <1>3
  <2>4. 0 \in 0..Len(Fix)
    BY <1>2
  <2> QED
    BY <1>1, <2>1, <2>2, <2>3, <2>4
<1>4. CASE p # Len(Template[kind])
  <2>1. kind' = kind /\ p' = p + 1 /\ m' = m
    BY <1>4 DEF WriteNext
  <2>2. p + 1 \in 1..Len(Template[kind])
    BY <1>1, <1>2, <1>4
  <2> QED
    BY <1>1, <1>2, <2>1, <2>2
<1> QED
  BY <1>3, <1>4

\* What is in the line stays sound when the next byte is written.
LEMMA SoundAfterWrite ==
    ASSUME IInv, kind # "none", WriteNext, NEW b, Sound(b)
    PROVE  /\ b \in Sent
           /\ b.m <= m'
           /\ kind' # "none" /\ b.m = m' =>
                 b.p < p' /\ b.t = Template[kind'][b.p]
<1>1. b \in Sent /\ b.p \in 1..16 /\ b.m <= m
  BY ByteTypes DEF Sound
<1>2. m' = m
  BY Written
<1>3. ASSUME kind' # "none", b.m = m'
      PROVE  b.p < p' /\ b.t = Template[kind'][b.p]
  <2>1. kind' = kind /\ p' = p + 1 /\ p \in 1..16
    BY <1>3, Written
  <2>2. b.p < p /\ b.t = Template[kind][b.p]
    BY <1>2, <1>3 DEF Sound
  <2> QED
    BY <1>1, <2>1, <2>2
<1> QED
  BY <1>1, <1>2, <1>3

\* A byte that does not reach the queue: the message is damaged now, or it was
\* the header or the value of a force.
LEMMA LineKept ==
    ASSUME IInv, kind # "none", WriteNext,
           UNCHANGED <<queue, header, pc>>,
           damaged \subseteq damaged',
           m \in damaged' \/ p = 1 \/ (kind # "fix" /\ p = 2)
    PROVE  Contiguous'
<1> SUFFICES ASSUME NEW i \in InLine'
             PROVE  Sound(At(i))' /\ Unbroken(i)'
  BY DEF Contiguous
<1>1. i \in InLine /\ At(i)' = At(i) /\ Len(queue') = Len(queue)
  BY DEF InLine, At
<1>2. Sound(At(i)) /\ Unbroken(i)
  BY <1>1 DEF IInv, Contiguous
<1>3. Sound(At(i))'
  BY <1>1, <1>2, SoundAfterWrite DEF Sound
<1>4. Unbroken(i)'
  <2> SUFFICES ASSUME At(i).m \notin damaged', ~LastOfMessage(At(i))
               PROVE  i < Len(queue) /\ Follows(At(i), queue[i + 1])
    BY <1>1 DEF Unbroken, LastOfMessage, Follows
  <2>1. i < Len(queue) => Follows(At(i), queue[i + 1])
    BY <1>2 DEF Unbroken
  <2>2. CASE ~(i < Len(queue))
    <3>1. IsNext(At(i)) /\ At(i).m = m /\ p = At(i).p + 1
      BY <1>2, <2>2 DEF Unbroken, IsNext
    <3>2. At(i).p \in 1..16
      BY <1>2, ByteTypes DEF Sound
    <3>3. kind # "fix" /\ At(i).p = 1
      BY <1>1, <3>1, <3>2
    <3>4. kind \in DOMAIN Template
      BY DEF IInv, TypeOK
    <3>5. At(i).t = Template[kind][1]
      BY <1>2, <3>1, <3>3 DEF Sound
    <3>6. At(i).t \in {FORCE_X_POS, FORCE_X_NEG} /\ At(i).t # 0
      BY <3>3, <3>4, <3>5, Messages
    <3> QED
      BY <1>2, <3>6 DEF Sound
  <2> QED
    BY <2>1, <2>2
<1> QED
  BY <1>3, <1>4

\* A byte that reaches the queue follows the byte before it.
LEMMA LineGrows ==
    ASSUME IInv, kind # "none", WriteNext, NEW b \in BytesNow,
           b.v \notin {FORCE_X_POS, FORCE_X_NEG},
           queue' = Append(queue, b), UNCHANGED <<header, pc, damaged>>
    PROVE  Contiguous'
<1>1. /\ Len(queue) \in Nat /\ Len(queue') = Len(queue) + 1
      /\ queue'[Len(queue) + 1] = b
      /\ \A i \in 1..Len(queue) : queue'[i] = queue[i]
  BY NextByte DEF IInv
<1>2. b.m = m /\ b.p = p /\ b.t = Template[kind][p] /\ b \in Sent
  BY NextByte
<1>3. m' = m /\ p \in 1..16 /\ kind \in DOMAIN Template
  BY Written, NextByte
<1>4. kind' # "none" => kind' = kind /\ p' = p + 1
  BY Written
<1> SUFFICES ASSUME NEW i \in InLine'
             PROVE  Sound(At(i))' /\ Unbroken(i)'
  BY DEF Contiguous
<1>5. CASE i = Len(queue) + 1
  <2>1. At(i)' = b /\ ~(i < Len(queue'))
    BY <1>1, <1>5 DEF At
  <2>2. Sound(At(i))'
    <3>1. b.t # 0 => /\ b.t = b.v /\ b.t \in DOMAIN PlaceOf
                     /\ b.p = PlaceOf[b.t]
      <4>1. b.t # 0 => b.t = b.v
        BY NextByte
      <4>2. /\ b.t \in {0, FORCE_X_POS, FORCE_X_NEG} \cup DOMAIN PlaceOf
            /\ b.t \in DOMAIN PlaceOf => p = PlaceOf[b.t]
        BY <1>2, NextByte, Messages
      <4> QED
        BY <1>2, <4>1, <4>2
    <3>2. /\ b.m <= m'
          /\ kind' # "none" => b.p < p' /\ b.t = Template[kind'][b.p]
      <4>1. m \in Int /\ p < p + 1
        BY <1>3, Written
      <4>2. b.m <= m'
        BY <1>2, <1>3, <4>1
      <4>3. kind' # "none" => b.p < p' /\ b.t = Template[kind'][b.p]
        BY <1>2, <1>4, <4>1
      <4> QED
        BY <4>2, <4>3
    <3> QED
      BY <1>2, <2>1, <3>1, <3>2 DEF Sound
  <2>3. ~LastOfMessage(b) => kind' # "none"
    <3>1. CASE kind = "fix"
      <4>1. Len(Template[kind]) = 16
        BY <1>3, <3>1, Messages
      <4>2. p # 16 => p < Len(Template[kind])
        BY <1>3, <4>1
      <4> QED
        BY <1>2, <4>2, Written DEF LastOfMessage
    <3>2. CASE kind # "fix"
      <4>1. Len(Template[kind]) = 4 /\ Template[kind][4] = 0
        BY <1>3, <3>2, Messages
      <4>2. p \in 1..Len(Template[kind])
        BY NextByte
      <4>3. p # 4 => p < Len(Template[kind])
        BY <1>3, <4>1, <4>2
      <4> QED
        BY <1>2, <4>1, <4>3, Written DEF LastOfMessage
    <3> QED
      BY <3>1, <3>2
  <2> QED
    BY <1>2, <1>3, <1>4, <2>1, <2>2, <2>3 DEF Unbroken, LastOfMessage, IsNext
<1>6. CASE i # Len(queue) + 1
  <2>1. /\ i \in InLine /\ i \in 0..Len(queue) /\ At(i)' = At(i)
        /\ i < Len(queue')
    BY <1>1, <1>6 DEF InLine, At
  <2>2. Sound(At(i)) /\ Unbroken(i)
    BY <2>1 DEF IInv, Contiguous
  <2>3. Sound(At(i))'
    BY <2>1, <2>2, SoundAfterWrite DEF Sound
  <2>4. CASE i < Len(queue)
    <3>1. queue'[i + 1] = queue[i + 1]
      BY <1>1, <2>1, <2>4
    <3> QED
      BY <2>1, <2>2, <2>3, <2>4, <3>1 DEF Unbroken, LastOfMessage, Follows
  <2>5. CASE ~(i < Len(queue))
    <3>1. i = Len(queue) /\ queue'[i + 1] = b
      BY <1>1, <2>1, <2>5
    <3>2. At(i).m \notin damaged /\ ~LastOfMessage(At(i)) => Follows(At(i), b)
      BY <1>2, <2>2, <2>5 DEF Unbroken, IsNext, Follows
    <3> QED
      BY <2>1, <2>3, <3>1, <3>2 DEF Unbroken, LastOfMessage, Follows
  <2> QED
    BY <2>1, <2>4, <2>5
<1> QED
  BY <1>5, <1>6

LEMMA BytesOfQueue ==
    ASSUME NEW q \in Seq(Sent) PROVE \A i \in DOMAIN q : q[i] \in AnyByte
  BY LenProperties, ElementOfSeq, ByteTypes

LEMMA SendKeeps == ASSUME IInv, Send PROVE IInv'
<1>1. /\ kind # "none" /\ WriteNext /\ accidents' <= MaxAccidents
      /\ UNCHANGED <<mode, pc, header, readings, track, estimate, mistaken>>
  BY DEF Send
<1>2. PICK b \in BytesNow :
        /\ TakeForce(b) \/ ExpectForce(b) \/ StoreChar(b)
        /\ accidents' = accidents + IF Ambiguous(b) \/ Refused(b) THEN 1 ELSE 0
  BY DEF Send
<1>3. /\ b.m = m /\ b.p = p /\ b.t = Template[kind][p] /\ b \in Sent
      /\ kind \in DOMAIN Template /\ m \in 1..MaxMessages
      /\ p \in 1..Len(Template[kind])
  BY <1>1, NextByte
<1>4. accidents' \in 0..MaxAccidents
  BY <1>1, <1>2, BoundsAssumption DEF IInv, TypeOK
<1>5. damaged' \in {damaged, damaged \cup {m}}
  BY <1>2, <1>3 DEF TakeForce, ExpectForce, StoreChar
<1>6. /\ queue' \in Seq(Sent) /\ Len(queue') <= Capacity
      /\ Contiguous'
  <2>1. CASE UNCHANGED queue
    <3>1. m \in damaged' \/ p = 1 \/ (kind # "fix" /\ p = 2)
      <4>1. CASE TakeForce(b)
        BY <1>3, <4>1 DEF TakeForce, IsForceValue
      <4>2. CASE ExpectForce(b)
        <5>1. m \in damaged' \/ Template[kind][p] \in {FORCE_X_POS, FORCE_X_NEG}
          BY <1>3, <4>2 DEF ExpectForce, IsForceHeader
        <5> QED
          BY <1>3, <5>1, Messages
      <4>3. CASE StoreChar(b)
        <5>1. Len(Append(queue, b)) # Len(queue)
          BY <1>3 DEF IInv
        <5> QED
          BY <1>3, <2>1, <4>3, <5>1 DEF StoreChar
      <4> QED
        BY <1>2, <4>1, <4>2, <4>3
    <3> QED
      BY <1>1, <1>5, <2>1, <3>1, LineKept DEF IInv, TypeOK
  <2>2. CASE queue' # queue
    <3>1. StoreChar(b) /\ Len(queue) < Capacity /\ queue' = Append(queue, b)
          /\ damaged' = damaged
      BY <1>2, <2>2 DEF TakeForce, ExpectForce, StoreChar
    <3>2. Contiguous'
      BY <1>1, <3>1, LineGrows DEF StoreChar
    <3>3. queue' \in Seq(Sent) /\ Len(queue') = Len(queue) + 1
      BY <1>3, <3>1 DEF IInv
    <3>4. Len(queue) \in Nat
      BY LenProperties DEF IInv
    <3> QED
      BY <3>1, <3>2, <3>3, <3>4, BoundsAssumption
  <2> QED
    BY <2>1, <2>2
<1>7. TypeOK'
  <2>1. /\ coming' \in {"none", "pos", "neg"} /\ steering_angle' \in AnyByte
        /\ new_steering_angle' \in BOOLEAN
    BY <1>2, <1>3, ByteTypes
    DEF TakeForce, ExpectForce, StoreChar, IInv, TypeOK
  <2>2. damaged' \cup mistaken' \subseteq 1..MaxMessages
    BY <1>1, <1>3, <1>5 DEF IInv, TypeOK
  <2>3. m' \in 0..MaxMessages /\ p' \in 0..Len(Fix)
        /\ kind' \in DOMAIN Template \cup {"none"}
    BY <1>1, <1>3, Written
  <2>4. \A i \in DOMAIN queue' : queue'[i] \in AnyByte
    BY <1>6, BytesOfQueue
  <2>5. /\ mode' \in Modes \cup {"idle"}
        /\ pc' \in {"loop", "wait", "ekf", "load", "turn"}
        /\ new_gps_data' <=> pc' = "ekf"
    BY <1>1 DEF IInv, TypeOK, readings
  <2> QED
    BY <1>4, <1>6, <2>1, <2>2, <2>3, <2>4, <2>5 DEF TypeOK
<1>8. Readings'
  BY <1>1, <1>5, ReadingsKept DEF readings
<1>9. kind' # "none" => m' > 0 /\ p' \in 1..Len(Template[kind'])
  BY <1>1, <1>3, Written
<1> QED
  BY <1>1, <1>6, <1>7, <1>8, <1>9 DEF IInv, Waiting

LEMMA LoseKeeps == ASSUME IInv, Lose PROVE IInv'
<1>1. /\ kind # "none" /\ WriteNext
      /\ accidents < MaxAccidents /\ accidents' = accidents + 1
      /\ damaged' = damaged \cup {m}
      /\ UNCHANGED <<queue, coming, steering_angle, new_steering_angle, mode,
                     pc, header, readings, mistaken>>
  BY DEF Lose
<1>2. Contiguous'
  BY <1>1, LineKept
<1>3. Readings'
  BY <1>1, ReadingsKept DEF readings
<1>4. accidents' \in 0..MaxAccidents
  BY <1>1, BoundsAssumption DEF IInv, TypeOK
<1>5. kind' # "none" => m' > 0 /\ p' \in 1..Len(Template[kind'])
  BY <1>1, Written
<1>6. m' \in 0..MaxMessages /\ damaged' \cup mistaken' \subseteq 1..MaxMessages
  BY <1>1, Written DEF IInv, TypeOK
<1>7. TypeOK'
  BY <1>1, <1>4, <1>6, Written DEF IInv, TypeOK, readings
<1> QED
  BY <1>1, <1>2, <1>3, <1>5, <1>7 DEF IInv, Waiting

-----------------------------------------------------------------------------
\* Cogzilla.
LEMMA ReadByteKeeps == ASSUME IInv, ReadByte PROVE IInv'
<1>1. /\ mode = "gps" /\ pc = "loop" /\ queue # <<>> /\ queue' = Tail(queue)
      /\ UNCHANGED <<insula, coming, steering_angle, new_steering_angle,
                     damaged, mode, readings>>
  BY DEF ReadByte
<1>2. /\ Len(queue) \in Nat /\ Len(queue) > 0 /\ Head(queue) = queue[1]
      /\ Head(queue) \in Sent /\ queue' \in Seq(Sent)
      /\ Len(queue') = Len(queue) - 1
      /\ \A i \in 1..Len(queue') : queue'[i] = queue[i + 1]
  BY <1>1, HeadTailProperties, EmptySeq DEF IInv
<1>3. \/ /\ Head(queue).v \in DOMAIN Length
         /\ header' = Head(queue) /\ pc' = "wait"
         /\ mistaken' = IF header'.t = 0 THEN mistaken \cup {header'.m}
                        ELSE mistaken
      \/ UNCHANGED <<header, pc, mistaken>>
  BY DEF ReadByte
<1>4. Waiting'
  BY <1>1, <1>3 DEF Waiting
<1>5. Contiguous'
  <2>1. ASSUME NEW i \in InLine' PROVE i + 1 \in InLine /\ At(i)' = At(i + 1)
    <3>1. i \in 0..Len(queue') /\ i + 1 \in 1..Len(queue) /\ i + 1 # 0
      BY <1>2 DEF InLine
    <3>2. CASE i = 0
      BY <1>1, <1>2, <1>3, <3>1, <3>2 DEF InLine, At
    <3>3. CASE i # 0
      BY <1>2, <3>1, <3>3 DEF InLine, At
    <3> QED
      BY <3>2, <3>3
  <2>2. UNCHANGED <<kind, m, p, damaged>>
    BY <1>1 DEF insula
  <2>3. 1 \in 0..Len(queue)
    BY <1>2
  <2> QED
    BY <1>2, <2>1, <2>2, <2>3, Shift
<1>6. mistaken \subseteq mistaken' /\ mistaken' \subseteq 1..MaxMessages
  BY <1>2, <1>3, ByteTypes DEF IInv, TypeOK
<1>7. Readings'
  BY <1>1, <1>6, ReadingsKept DEF readings
<1>8. TypeOK'
  <2>1. \A i \in DOMAIN queue' : queue'[i] \in AnyByte
    BY <1>2, BytesOfQueue
  <2>2. Len(queue') <= Capacity
    BY <1>2, BoundsAssumption DEF IInv, TypeOK
  <2>3. pc' \in {"loop", "wait"}
    BY <1>1, <1>3
  <2> QED
    BY <1>1, <1>6, <2>1, <2>2, <2>3 DEF IInv, TypeOK, insula, readings
<1> QED
  BY <1>1, <1>2, <1>4, <1>5, <1>7, <1>8 DEF IInv, insula

\* The byte behind one that is not the last of its message.
LEMMA OneOn ==
    ASSUME IInv, NEW i \in InLine, i < Len(queue),
           At(i).m \notin damaged, ~LastOfMessage(At(i))
    PROVE  i + 1 \in InLine /\ Follows(At(i), At(i + 1))
<1>1. Len(queue) \in Nat
  BY LenProperties DEF IInv
<1>2. i + 1 \in InLine /\ i + 1 # 0
  BY <1>1 DEF InLine
<1>3. Unbroken(i)
  BY DEF IInv, Contiguous
<1> QED
  BY <1>2, <1>3 DEF Unbroken, At

\* The bytes that insula_read has waited for are those of its header.
LEMMA FieldIsWhole ==
    ASSUME IInv, pc = "wait", header.m \notin damaged \cup mistaken,
           Len(queue) >= Length[header.v]
    PROVE  /\ header.t = header.v /\ header.v \in DOMAIN Length
           /\ \A i \in 1..Length[header.v] :
                 queue[i].m = header.m /\ queue[i].p = header.p + i
<1> DEFINE n == Length[header.v]
<1>1. header.v \in DOMAIN Length /\ header.t # 0
  BY DEF IInv, Waiting
<1>2. 0 \in InLine /\ At(0) = header /\ Len(queue) \in Nat
  BY LenProperties DEF InLine, At, IInv
<1>3. /\ header \in Sent /\ header.t = header.v
      /\ header.p = PlaceOf[header.v]
  BY <1>1, <1>2 DEF IInv, Contiguous, Sound
<1>4. /\ n \in {2, 4}
      /\ \/ n = 2 /\ header.p \in {1, 4}
         \/ n = 4 /\ header.p \in {7, 12}
  BY <1>1, <1>3, Headers
<1>5. At(0).m \notin damaged /\ ~LastOfMessage(At(0))
  BY <1>1, <1>2, <1>4 DEF LastOfMessage
<1> HIDE DEF n
<1>6. 1 \in InLine /\ At(1).m = header.m /\ At(1).p = header.p + 1
  BY <1>2, <1>4, <1>5, OneOn DEF n, Follows
<1>7. 2 \in InLine /\ At(2).m = header.m /\ At(2).p = header.p + 2
  <2>1. At(1).p \in {2, 5, 8, 13} /\ At(1).m \notin damaged /\ 1 < Len(queue)
    BY <1>2, <1>4, <1>6 DEF n
  <2> QED
    BY <1>4, <1>6, <2>1, OneOn DEF LastOfMessage, Follows
<1>8. CASE n = 2
  BY <1>1, <1>3, <1>6, <1>7, <1>8 DEF n, At
<1>9. CASE n = 4
  <2>1. header.p \in {7, 12} /\ 2 < Len(queue) /\ 3 < Len(queue)
    BY <1>2, <1>4, <1>9 DEF n
  <2>2. 3 \in InLine /\ At(3).m = header.m /\ At(3).p = header.p + 3
    <3>1. At(2).p \in {9, 14} /\ At(2).m \notin damaged
      BY <1>7, <2>1
    <3> QED
      BY <1>7, <2>1, <3>1, OneOn DEF LastOfMessage, Follows
  <2>3. At(4).m = header.m /\ At(4).p = header.p + 4
    <3>1. At(3).p \in {10, 15} /\ At(3).m \notin damaged
      BY <2>1, <2>2
    <3> QED
      BY <2>1, <2>2, <3>1, OneOn DEF LastOfMessage, Follows
  <2> QED
    BY <1>1, <1>3, <1>6, <1>7, <1>9, <2>2, <2>3 DEF n, At
<1> QED
  BY <1>4, <1>8, <1>9

\* A reading after a field was decoded comes from that field, is the one before,
\* perhaps converted, or has nothing in it.
Same(x, y) == y.hdr = x.hdr /\ y.bytes = x.bytes
Kept(x, y, r) == Same(x, y) \/ Same(r, y) \/ y.bytes = <<>>

LEMMA Decoded ==
    ASSUME IInv, NEW h \in DOMAIN Length, NEW r, Decode(h, r),
           r = [hdr |-> r.hdr, bytes |-> r.bytes, unit |-> r.unit]
    PROVE  /\ Kept(velocity, velocity', r) /\ Kept(heading, heading', r)
           /\ Kept(xpos, xpos', r) /\ Kept(ypos, ypos', r)
           /\ xpos' = [hdr |-> xpos'.hdr, bytes |-> xpos'.bytes,
                       unit |-> xpos'.unit]
           /\ (new_gps_data' <=> h = GPS_longitude \/ new_gps_data)
<1>1. ASSUME NEW x, NEW u,
             x = [hdr |-> x.hdr, bytes |-> x.bytes, unit |-> x.unit]
      PROVE  [x EXCEPT !.unit = u]
               = [hdr |-> x.hdr, bytes |-> x.bytes, unit |-> u]
  BY <1>1
<1>2. xpos = [hdr |-> xpos.hdr, bytes |-> xpos.bytes, unit |-> xpos.unit]
  BY DEF IInv, Readings
<1>3. CASE h = GPS_speed
  <2>1. /\ velocity' = [r EXCEPT !.unit = "m/s"]
        /\ UNCHANGED <<heading, xpos, ypos, new_gps_data>>
    BY <1>3
    DEF Decode, GPS_speed, GPS_course, GPS_latitude, GPS_longitude
  <2>2. velocity' = [hdr |-> r.hdr, bytes |-> r.bytes, unit |-> "m/s"]
    BY <1>1, <2>1
  <2>3. h # GPS_longitude
    BY <1>3 DEF GPS_speed, GPS_course, GPS_latitude, GPS_longitude
  <2> QED
    BY <1>2, <2>1, <2>2, <2>3 DEF Kept, Same
<1>4. CASE h = GPS_course
  <2>1. /\ heading' = [r EXCEPT !.unit = "rad"]
        /\ UNCHANGED <<velocity, xpos, ypos, new_gps_data>>
    BY <1>4
    DEF Decode, GPS_speed, GPS_course, GPS_latitude, GPS_longitude
  <2>2. heading' = [hdr |-> r.hdr, bytes |-> r.bytes, unit |-> "rad"]
    BY <1>1, <2>1
  <2>3. h # GPS_longitude
    BY <1>4 DEF GPS_speed, GPS_course, GPS_latitude, GPS_longitude
  <2> QED
    BY <1>2, <2>1, <2>2, <2>3 DEF Kept, Same
<1>5. CASE h = GPS_latitude
  <2>1. /\ xpos' = [r EXCEPT !.unit = "degrees"]
        /\ UNCHANGED <<velocity, heading, ypos, new_gps_data>>
    BY <1>5
    DEF Decode, GPS_speed, GPS_course, GPS_latitude, GPS_longitude
  <2>2. xpos' = [hdr |-> r.hdr, bytes |-> r.bytes, unit |-> "degrees"]
    BY <1>1, <2>1
  <2>3. h # GPS_longitude
    BY <1>5 DEF GPS_speed, GPS_course, GPS_latitude, GPS_longitude
  <2> QED
    BY <1>2, <2>1, <2>2, <2>3 DEF Kept, Same
<1>6. CASE h = GPS_longitude
  <2>1. /\ xpos' = IF xpos.unit = "degrees"
                   THEN [xpos EXCEPT !.unit = "metres"]
                   ELSE [NoReading EXCEPT !.unit = "neither"]
        /\ ypos' = [r EXCEPT !.unit = "metres"]
        /\ new_gps_data' = TRUE
        /\ UNCHANGED <<velocity, heading>>
    BY <1>6 DEF Decode, GPS_speed, GPS_course, GPS_latitude, GPS_longitude
  <2>2. ypos' = [hdr |-> r.hdr, bytes |-> r.bytes, unit |-> "metres"]
    BY <1>1, <2>1
  <2>3. \/ xpos' = [hdr |-> xpos.hdr, bytes |-> xpos.bytes, unit |-> "metres"]
        \/ xpos' = [hdr |-> NoByte, bytes |-> <<>>, unit |-> "neither"]
    BY <1>1, <1>2, <2>1 DEF NoReading
  <2> QED
    BY <1>6, <2>1, <2>2, <2>3 DEF Kept, Same
<1> QED
  BY <1>3, <1>4, <1>5, <1>6, Headers

\* What insula_read takes off the queue for a field.
LEMMA FieldTaken ==
    ASSUME IInv, ReadField
    PROVE  \E n \in {2, 4}, field \in Seq(Sent) :
              /\ n = Length[header.v] /\ header.v \in DOMAIN Length
              /\ mode = "gps" /\ pc = "wait"
              /\ Len(queue) \in Nat /\ Len(queue) >= n
              /\ Decode(header.v,
                        [hdr |-> header, bytes |-> field, unit |-> "raw"])
              /\ pc' = IF header.v = GPS_longitude THEN "ekf" ELSE "loop"
              /\ header' = NoByte
              /\ UNCHANGED <<insula, coming, steering_angle,
                             new_steering_angle, damaged, mode, mistaken>>
              /\ queue' \in Seq(Sent) /\ Len(queue') = Len(queue) - n
              /\ \A i \in 1..Len(queue') : queue'[i] = queue[i + n]
              /\ Len(field) = n /\ field # <<>> /\ DOMAIN field = 1..n
              /\ \A i \in 1..n : field[i] = queue[i]
<1>0. PICK n, field : n = Length[header.v] /\ field = SubSeq(queue, 1, n)
  OBVIOUS
<1>1. /\ mode = "gps" /\ pc = "wait" /\ Len(queue) >= n
      /\ Decode(header.v, [hdr |-> header, bytes |-> field, unit |-> "raw"])
      /\ queue' = SubSeq(queue, n + 1, Len(queue))
      /\ pc' = IF header.v = GPS_longitude THEN "ekf" ELSE "loop"
      /\ header' = NoByte
      /\ UNCHANGED <<insula, coming, steering_angle, new_steering_angle,
                     damaged, mode, mistaken>>
  BY <1>0 DEF ReadField
<1>2. header.v \in DOMAIN Length /\ n \in {2, 4} /\ Len(queue) \in Nat
      /\ n \in Nat /\ n > 0
  BY <1>0, <1>1, Headers, LenProperties DEF IInv, Waiting
<1>3. /\ queue' \in Seq(Sent) /\ Len(queue') = Len(queue) - n
      /\ \A i \in 1..Len(queue') : queue'[i] = queue[i + n]
  <2>1. \A i \in (n + 1)..Len(queue) : queue[i] \in Sent
    <3>1. \A i \in 1..Len(queue) : queue[i] \in Sent
      BY ElementOfSeq DEF IInv
    <3> QED
      BY <1>2, <3>1
  <2>2. n + 1 \in Int /\ Len(queue) \in Int
    BY <1>2
  <2>3. /\ queue' \in Seq(Sent)
        /\ Len(queue') = IF n + 1 <= Len(queue) THEN Len(queue) - (n + 1) + 1
                         ELSE 0
        /\ \A i \in 1..(Len(queue) - (n + 1) + 1) :
              queue'[i] = queue[n + 1 + i - 1]
    BY <1>1, <2>1, <2>2, SubSeqProperties
  <2>4. Len(queue') = Len(queue) - n
    <3>1. Len(queue) >= n
      BY <1>1
    <3>2. /\ n + 1 <= Len(queue) => Len(queue') = Len(queue) - (n + 1) + 1
          /\ ~(n + 1 <= Len(queue)) => Len(queue') = 0
      BY <2>3
    <3> QED
      BY <1>2, <3>1, <3>2
  <2>5. ASSUME NEW i \in 1..Len(queue') PROVE queue'[i] = queue[i + n]
    <3>1. n + 1 + i - 1 = i + n /\ i \in 1..(Len(queue) - (n + 1) + 1)
      BY <1>2, <2>4
    <3> QED
      BY <2>3, <3>1
  <2> QED
    BY <2>3, <2>4, <2>5
<1>4. /\ field \in Seq(Sent) /\ Len(field) = n /\ field # <<>>
      /\ DOMAIN field = 1..n
      /\ \A i \in 1..n : field[i] = queue[i]
  <2>1. \A i \in 1..n : queue[i] \in Sent
    <3>1. \A i \in 1..Len(queue) : queue[i] \in Sent
      BY ElementOfSeq DEF IInv
    <3> QED
      BY <1>1, <1>2, <3>1
  <2>2. /\ field \in Seq(Sent)
        /\ Len(field) = IF 1 <= n THEN n - 1 + 1 ELSE 0
        /\ \A i \in 1..(n - 1 + 1) : field[i] = queue[1 + i - 1]
    BY <1>0, <1>2, <2>1, SubSeqProperties
  <2>3. Len(field) = n
    BY <1>2, <2>2
  <2>4. ASSUME NEW i \in 1..n PROVE field[i] = queue[i]
    <3>1. 1 + i - 1 = i /\ i \in 1..(n - 1 + 1)
      BY <1>2
    <3> QED
      BY <2>2, <3>1
  <2>5. field # <<>>
    <3>1. Len(<<>>) = 0 /\ n # 0
      BY <1>2
    <3> QED
      BY <2>3, <3>1, Zenon
  <2> QED
    BY <2>2, <2>3, <2>4, <2>5, LenProperties
<1> QED
  BY <1>0, <1>1, <1>2, <1>3, <1>4

LEMMA ReadFieldKeeps == ASSUME IInv, ReadField PROVE IInv'
<1>0. PICK n \in {2, 4}, field \in Seq(Sent) :
         /\ n = Length[header.v] /\ header.v \in DOMAIN Length
         /\ mode = "gps" /\ pc = "wait"
         /\ Len(queue) \in Nat /\ Len(queue) >= n
         /\ Decode(header.v, [hdr |-> header, bytes |-> field, unit |-> "raw"])
         /\ pc' = IF header.v = GPS_longitude THEN "ekf" ELSE "loop"
         /\ header' = NoByte
         /\ UNCHANGED <<insula, coming, steering_angle, new_steering_angle,
                        damaged, mode, mistaken>>
         /\ queue' \in Seq(Sent) /\ Len(queue') = Len(queue) - n
         /\ \A i \in 1..Len(queue') : queue'[i] = queue[i + n]
         /\ Len(field) = n /\ field # <<>> /\ DOMAIN field = 1..n
         /\ \A i \in 1..n : field[i] = queue[i]
  BY FieldTaken
<1>r. PICK r : r = [hdr |-> header, bytes |-> field, unit |-> "raw"]
  OBVIOUS
<1>h. r.hdr = header /\ r.bytes = field
      /\ r = [hdr |-> r.hdr, bytes |-> r.bytes, unit |-> r.unit]
  BY <1>r
<1>1. /\ mode = "gps" /\ pc = "wait" /\ Len(queue) >= n
      /\ Decode(header.v, r)
      /\ pc' = IF header.v = GPS_longitude THEN "ekf" ELSE "loop"
      /\ header' = NoByte
      /\ UNCHANGED <<insula, coming, steering_angle, new_steering_angle,
                     damaged, mode, mistaken>>
  BY <1>0, <1>r
<1>2. header.v \in DOMAIN Length /\ n \in {2, 4} /\ Len(queue) \in Nat
      /\ n \in Nat /\ n > 0
  BY <1>0
<1>3. /\ queue' \in Seq(Sent) /\ Len(queue') = Len(queue) - n
      /\ \A i \in 1..Len(queue') : queue'[i] = queue[i + n]
  BY <1>0
<1>4. /\ Len(field) = n /\ field # <<>> /\ DOMAIN field = 1..n
      /\ \A i \in 1..n : field[i] = queue[i]
  BY <1>0
<1>5. Contiguous'
  <2>1. ASSUME NEW i \in InLine' PROVE i + n \in InLine /\ At(i)' = At(i + n)
    <3>1. i \in 1..Len(queue') /\ i + n \in 1..Len(queue)
          /\ i # 0 /\ i + n # 0
      BY <1>1, <1>2, <1>3 DEF InLine
    <3> QED
      BY <1>3, <3>1 DEF InLine, At
  <2>2. UNCHANGED <<kind, m, p, damaged>>
    BY <1>1 DEF insula
  <2>3. n \in 0..Len(queue)
    BY <1>1, <1>2
  <2> QED
    BY <1>3, <2>1, <2>2, <2>3, Shift
<1>6. ASSUME NEW x, x.hdr = header, x.bytes = field
      PROVE  x.hdr.m \in damaged \cup mistaken \/ Whole(x)
  <2> SUFFICES ASSUME header.m \notin damaged \cup mistaken
               PROVE  Whole(x)
    BY <1>6
  <2>1. Len(queue) >= Length[header.v]
    BY <1>0, <1>1
  <2>2. /\ header.t = header.v
        /\ \A i \in 1..Length[header.v] :
              queue[i].m = header.m /\ queue[i].p = header.p + i
    BY <1>1, <2>1, FieldIsWhole
  <2>3. /\ x.bytes # <<>> /\ Len(x.bytes) = Length[x.hdr.v]
        /\ x.hdr.t = x.hdr.v
    BY <1>0, <1>4, <1>6, <2>2
  <2>4. \A i \in DOMAIN x.bytes :
           x.bytes[i].m = x.hdr.m /\ x.bytes[i].p = x.hdr.p + i
    <3> SUFFICES ASSUME NEW i \in 1..n
                 PROVE  field[i].m = header.m /\ field[i].p = header.p + i
      BY <1>4, <1>6
    <3> QED
      BY <1>0, <1>4, <2>2
  <2> QED
    BY <2>3, <2>4 DEF Whole
<1>7. Readings'
  <2>2. /\ Kept(velocity, velocity', r) /\ Kept(heading, heading', r)
        /\ Kept(xpos, xpos', r) /\ Kept(ypos, ypos', r)
        /\ xpos' = [hdr |-> xpos'.hdr, bytes |-> xpos'.bytes,
                    unit |-> xpos'.unit]
    BY <1>1, <1>2, <1>h, Decoded
  <2>3. ASSUME NEW x \in {velocity, heading, xpos, ypos}, NEW y, Kept(x, y, r)
        PROVE  \/ y.bytes = <<>>
               \/ y.hdr.m \in damaged \cup mistaken
               \/ Whole(y)
    BY <1>6, <1>h, <2>3, SMTT(30)
    DEF Kept, Same, IInv, Readings, GarbageOnlyFromDamage, Whole
  <2> QED
    BY <1>1, <2>2, <2>3 DEF Readings, GarbageOnlyFromDamage, Whole
<1>8. TypeOK'
  <2>1. \A i \in DOMAIN queue' : queue'[i] \in AnyByte
    BY <1>3, BytesOfQueue
  <2>2. Len(queue') <= Capacity
    BY <1>1, <1>2, <1>3, BoundsAssumption DEF IInv, TypeOK
  <2>3. new_gps_data' <=> pc' = "ekf"
    <3>1. new_gps_data' <=> header.v = GPS_longitude \/ new_gps_data
      BY <1>1, <1>2, <1>h, Decoded
    <3>2. ~new_gps_data
      BY <1>1 DEF IInv, TypeOK
    <3> QED
      BY <1>1, <3>1, <3>2
  <2> QED
    BY <1>1, <2>1, <2>2, <2>3 DEF IInv, TypeOK, insula
<1> QED
  BY <1>1, <1>3, <1>5, <1>7, <1>8 DEF IInv, Waiting, insula

LEMMA StepKeepsInvariant == ASSUME IInv, [Next]_vars PROVE IInv'
<1>1. ASSUME NEW k \in DOMAIN Template, StartMessage(k) PROVE IInv'
  BY <1>1, StartKeeps
<1>2. CASE Send
  BY <1>2, SendKeeps
<1>3. CASE Lose
  BY <1>3, LoseKeeps
<1>4. CASE ReadByte
  BY <1>4, ReadByteKeeps
<1>5. CASE ReadField
  BY <1>5, ReadFieldKeeps
<1>6. CASE \/ \E d \in Modes : EnterMode(d)
           \/ LeaveMode \/ PropagateEKF \/ TrackDrive \/ UNCHANGED vars
  BY <1>6, OthersKeep
<1> QED
  BY <1>1, <1>2, <1>3, <1>4, <1>5, <1>6 DEF Next, GpsDrive

\* Every variable has its type: the ring holds no more than it can,
\* and new_gps_data is up only until the EKF step it calls for.
THEOREM TypeCorrect == Spec => []TypeOK
<1>1. IInv => TypeOK
  BY DEF IInv
<1> QED
  BY InitInvariant, StepKeepsInvariant, <1>1, PTL DEF Spec

\* Whatever is lost on the wire, refused by the ring or taken by the force
\* interrupt, and wherever a payload byte equals a header: a field that
\* insula_read decodes is made of the bytes sent for it, unless its own message
\* was damaged or its header was none.
THEOREM FieldsAreWhole == Spec => []GarbageOnlyFromDamage
<1>1. IInv => GarbageOnlyFromDamage
  BY DEF IInv, Readings
<1> QED
  BY InitInvariant, StepKeepsInvariant, <1>1, PTL DEF Spec

-----------------------------------------------------------------------------
\* How far the reader gets with a message that is clean, and whose two
\* predecessors are: the order of the line backwards, and its first byte.
Clean(k) == \A d \in 0..2 : k - d \notin damaged \cup mistaken

\* The first byte of a message in the queue, which force headers never enter.
IsFirst(b) == b.t \in {GPS_speed, FORCE_Y}

\* Before a byte comes the byte before it, or the last one of the message
\* before.
Before(b, c) ==
    /\ c.m \notin damaged /\ ~IsFirst(c) =>
          /\ Follows(b, c) /\ ~LastOfMessage(b)
          /\ c.t = IF b.t = FORCE_Y THEN 0 ELSE Fix[c.p]
    /\ {c.m - 1, c.m} \cap damaged = {} /\ IsFirst(c) =>
          b.m = c.m - 1 /\ LastOfMessage(b)

Ordered == \A i \in InLine : i < Len(queue) => Before(At(i), queue[i + 1])

\* The last byte in the line, and what insula does next.
Begun == p > (IF kind = "fix" THEN 1 ELSE 3)

BeforeNext(b) ==
    m \notin damaged =>
        /\ kind = "none" => b.m = m /\ LastOfMessage(b)
        /\ kind # "none" /\ Begun => b.m = m /\ b.p = p - 1
        /\ kind # "none" /\ ~Begun /\ m - 1 \notin damaged =>
              b.m = m - 1 /\ LastOfMessage(b)

Newest == InLine # {} => BeforeNext(At(Len(queue)))

\* The value of an undamaged force goes to the interrupt.
ForceTaken ==
    kind \in {"pos", "neg"} /\ p = 2 /\ m \notin damaged => coming # "none"

\* The readings of the fields before a place of message k.
From(r, k) == r.bytes # <<>> /\ r.hdr.m = k
Got(k, q) ==
    /\ q >= 4 => From(velocity, k)
    /\ q >= 7 => From(heading, k)
    /\ q >= 12 => From(xpos, k) /\ xpos.unit = "degrees"

AtBoundary(b) ==
    \/ b.t \in DOMAIN Length /\ Got(b.m, b.p)
    \/ b.t = FORCE_Y \/ (b.p = 4 /\ b.t = 0)

\* The reader begins a clean message at its beginning, and its fields at their
\* headers.
InStep ==
    /\ pc = "wait" /\ Clean(header.m) => Got(header.m, header.p)
    /\ pc # "wait" /\ queue # <<>> /\ Clean(queue[1].m) => AtBoundary(queue[1])
    /\ pc # "wait" /\ queue = <<>> /\ kind = "fix" /\ Clean(m) =>
          p \in {1, 4, 7, 12} /\ Got(m, p)

Complete ==
    pc = "ekf" /\ Clean(ypos.hdr.m) =>
        /\ \A r \in {velocity, heading, xpos, ypos} : From(r, ypos.hdr.m)
        /\ xpos.unit = "metres"

Later == Ordered /\ Newest /\ ForceTaken

FixInv == IInv /\ Later /\ InStep /\ Complete /\ EstimateFromOneFix

-----------------------------------------------------------------------------
LEMMA InTheLine ==
    ASSUME IInv
    PROVE  /\ Len(queue) \in Nat /\ queue \in Seq(Sent)
           /\ \A i \in InLine : /\ i \in 0..Len(queue)
                                /\ Sound(At(i)) /\ At(i).p \in 1..16
                                /\ At(i).m \in 1..MaxMessages
                                /\ At(i).t \in Nat
           /\ \A i \in 1..Len(queue) : i \in InLine /\ At(i) = queue[i]
<1>1. Len(queue) \in Nat /\ queue \in Seq(Sent)
  BY LenProperties DEF IInv
<1>2. ASSUME NEW i \in InLine
      PROVE  /\ i \in 0..Len(queue) /\ Sound(At(i)) /\ At(i).p \in 1..16
             /\ At(i).m \in 1..MaxMessages /\ At(i).t \in Nat
  <2>1. Sound(At(i)) /\ i \in 0..Len(queue)
    BY DEF IInv, Contiguous, InLine
  <2>2. At(i) \in Sent
    BY <2>1 DEF Sound
  <2> QED
    BY <2>1, <2>2, ByteTypes
<1>3. ASSUME NEW i \in 1..Len(queue) PROVE i \in InLine /\ At(i) = queue[i]
  BY <1>1 DEF InLine, At
<1> QED
  BY <1>1, <1>2, <1>3

\* A byte with a header is at that header's place, and the last byte of a
\* message is not its first.
LEMMA SoundFacts ==
    ASSUME NEW b, Sound(b)
    PROVE  /\ b.t = GPS_speed => b.p = 1
           /\ b.t = GPS_course => b.p = 4
           /\ b.t = GPS_latitude => b.p = 7
           /\ b.t = GPS_longitude => b.p = 12
           /\ b.t = FORCE_Y => b.p = 3
           /\ b.t # 0 => b.t = b.v /\ b.t \in DOMAIN PlaceOf
           /\ IsFirst(b) => b.p \in {1, 3}
           /\ LastOfMessage(b) => ~IsFirst(b) /\ b.p \in {4, 16}
<1>0. /\ GPS_speed # 0 /\ GPS_course # 0 /\ GPS_latitude # 0
      /\ GPS_longitude # 0 /\ FORCE_Y # 0 /\ GPS_speed # FORCE_Y
  BY DEF GPS_speed, GPS_course, GPS_latitude, GPS_longitude, FORCE_Y
<1>1. PlaceOf[FORCE_Y] = 3
  BY DEF PlaceOf, GPS_speed, GPS_course, GPS_latitude, GPS_longitude, FORCE_Y
<1>2. b.t # 0 => b.t = b.v /\ b.t \in DOMAIN PlaceOf /\ b.p = PlaceOf[b.t]
  BY DEF Sound
<1>3. b.t = FORCE_Y => b.p = 3
  BY <1>0, <1>1, <1>2
<1>4. /\ b.t = GPS_speed => b.p = 1
      /\ b.t = GPS_course => b.p = 4
      /\ b.t = GPS_latitude => b.p = 7
      /\ b.t = GPS_longitude => b.p = 12
  BY <1>0, <1>2, Headers
<1> QED
  BY <1>2, <1>3, <1>4 DEF IsFirst, LastOfMessage

\* The bytes of a fix and of a force, place by place.
LEMMA Places ==
    /\ Fix \in Seq(Nat) /\ Len(Fix) = 16 /\ Template["fix"] = Fix
    /\ Fix[1] = GPS_speed /\ Fix[4] = GPS_course /\ Fix[7] = GPS_latitude
    /\ Fix[12] = GPS_longitude /\ Fix[2] = 0 /\ Fix[3] = 0
    /\ \A i \in 1..16 : i \notin {1, 4, 7, 12} => Fix[i] = 0
    /\ \A i \in 1..16 : Fix[i] \notin {FORCE_Y, FORCE_X_POS, FORCE_X_NEG}
    /\ \A k \in {"pos", "neg"} :
          /\ Template[k][1] \in {FORCE_X_POS, FORCE_X_NEG}
          /\ Template[k][2] = 0 /\ Template[k][3] = FORCE_Y
          /\ Template[k][4] = 0 /\ Len(Template[k]) = 4
  BY DEF Template, Fix, ForceMessage, GPS_speed, GPS_course, GPS_latitude,
         GPS_longitude, FORCE_Y, FORCE_X_POS, FORCE_X_NEG

\* Taking n places off the front of the line leaves its order.
LEMMA ShiftOrder ==
    ASSUME IInv, Later, NEW n \in 0..Len(queue),
           Len(queue') = Len(queue) - n,
           \A i \in InLine' : i + n \in InLine /\ At(i)' = At(i + n),
           UNCHANGED <<kind, m, p, damaged, coming>>
    PROVE  Later'
<1>1. Len(queue) \in Nat
  BY InTheLine
<1>2. Ordered'
  <2> SUFFICES ASSUME NEW i \in InLine', i < Len(queue')
               PROVE  Before(At(i), queue[i + 1])'
    BY DEF Ordered
  <2>1. i \in 0..Len(queue') /\ i + n \in InLine /\ At(i)' = At(i + n)
    BY DEF InLine
  <2>2. i + 1 \in InLine' /\ i + 1 # 0 /\ i + n + 1 # 0 /\ i + n < Len(queue)
    BY <1>1, <2>1 DEF InLine
  <2>3. queue'[i + 1] = queue[i + n + 1]
    <3>1. At(i + 1)' = At(i + 1 + n)
      BY <2>2
    <3>2. i + 1 + n = i + n + 1
      BY <1>1, <2>1
    <3> QED
      BY <2>2, <3>1, <3>2 DEF At
  <2>4. Before(At(i + n), queue[i + n + 1])
    BY <2>1, <2>2 DEF Later, Ordered
  <2> QED
    BY <2>1, <2>3, <2>4 DEF Before, Follows, LastOfMessage, IsFirst
<1>3. Newest'
  <2> SUFFICES ASSUME InLine' # {} PROVE BeforeNext(At(Len(queue)))'
    BY DEF Newest
  <2>1. Len(queue') \in InLine'
    BY <1>1 DEF InLine
  <2>2. Len(queue') + n = Len(queue)
    BY <1>1
  <2>3. Len(queue) \in InLine /\ At(Len(queue))' = At(Len(queue))
    BY <2>1, <2>2
  <2>4. BeforeNext(At(Len(queue)))
    BY <2>3 DEF Later, Newest
  <2> QED
    BY <2>3, <2>4 DEF BeforeNext, Begun, LastOfMessage
<1>4. ForceTaken'
  BY DEF Later, ForceTaken
<1> QED
  BY <1>2, <1>3, <1>4 DEF Later


\* A byte that does not reach the queue leaves its order.
LEMMA KeptOrder ==
    ASSUME IInv, Later, kind # "none", WriteNext,
           UNCHANGED <<queue, header, pc>>,
           damaged \subseteq damaged',
           m \in damaged' \/ (/\ kind # "fix" /\ p \in {1, 2}
                              /\ p = 1 => coming' # "none")
    PROVE  Later'
<1>1. /\ m' = m /\ m \in 1..MaxMessages /\ p \in 1..16
      /\ kind \in DOMAIN Template /\ p \in 1..Len(Template[kind])
      /\ kind' # "none" => kind' = kind /\ p' = p + 1
      /\ p < Len(Template[kind]) => kind' # "none"
  <2>1. kind \in DOMAIN Template /\ p \in 1..Len(Template[kind])
    BY DEF IInv, TypeOK
  <2> QED
    BY <2>1, Written
<1>2. m \notin damaged' => /\ kind \in {"pos", "neg"} /\ p \in {1, 2}
                           /\ p = 1 => coming' # "none"
                           /\ kind' = kind /\ p' = p + 1
  <2> SUFFICES ASSUME m \notin damaged'
               PROVE  /\ kind \in {"pos", "neg"} /\ p \in {1, 2}
                      /\ p = 1 => coming' # "none"
                      /\ kind' = kind /\ p' = p + 1
    OBVIOUS
  <2>1. kind \in {"pos", "neg"} /\ p \in {1, 2} /\ (p = 1 => coming' # "none")
    BY <1>1 DEF Template
  <2>2. p < Len(Template[kind])
    <3>1. Len(Template[kind]) = 4
      BY <2>1, Places
    <3>2. p < 4
      BY <2>1
    <3> QED
      BY <3>1, <3>2
  <2> QED
    BY <1>1, <2>1, <2>2
<1>3. /\ InLine' = InLine /\ Len(queue') = Len(queue)
      /\ \A i \in InLine : At(i)' = At(i)
  BY DEF InLine, At
<1>4. Ordered'
  <2> SUFFICES ASSUME NEW i \in InLine, i < Len(queue)
               PROVE  Before(At(i), queue[i + 1])'
    BY <1>3 DEF Ordered
  <2>1. Before(At(i), queue[i + 1])
    BY DEF Later, Ordered
  <2> QED
    BY <1>3, <2>1 DEF Before, Follows, LastOfMessage, IsFirst
<1>5. Newest'
  <2> SUFFICES ASSUME InLine # {}, m \notin damaged'
               PROVE  BeforeNext(At(Len(queue)))'
    BY <1>1, <1>3 DEF Newest, BeforeNext
  <2>1. Len(queue) \in InLine /\ At(Len(queue))' = At(Len(queue))
    <3>1. Len(queue) \in InLine
      BY InTheLine DEF InLine
    <3> QED
      BY <1>3, <3>1
  <2>2. BeforeNext(At(Len(queue)))
    BY DEF Later, Newest
  <2>3. ~Begun /\ ~Begun' /\ kind # "none" /\ kind' # "none"
    BY <1>2 DEF Begun
  <2>4. m - 1 \notin damaged' =>
           At(Len(queue)).m = m - 1 /\ LastOfMessage(At(Len(queue)))
    BY <2>2, <2>3 DEF BeforeNext
  <2> QED
    BY <1>1, <2>1, <2>3, <2>4 DEF BeforeNext, LastOfMessage
<1>6. ForceTaken'
  BY <1>1, <1>2 DEF ForceTaken
<1> QED
  BY <1>4, <1>5, <1>6 DEF Later

\* Of an undamaged force, only its third and fourth byte reach the queue.
LEMMA StoredByte ==
    ASSUME IInv, ForceTaken, kind # "none", NEW b \in BytesNow,
           b.v \notin {FORCE_X_POS, FORCE_X_NEG}, coming = "none"
    PROVE  /\ m \notin damaged /\ kind # "fix" =>
                 kind \in {"pos", "neg"} /\ p \in {3, 4}
           /\ kind = "fix" => b.t = Fix[p]
           /\ kind # "fix" /\ p = 3 => b.t = FORCE_Y
           /\ kind # "fix" /\ p = 4 => b.t = 0
           /\ IsFirst(b) /\ kind = "fix" => p = 1
           /\ b.t = Fix[1] => IsFirst(b)
<1>1. /\ b.m = m /\ b.p = p /\ b.t = Template[kind][p]
      /\ b.t # 0 => b.t = b.v
      /\ kind \in DOMAIN Template /\ p \in 1..Len(Template[kind])
  BY NextByte
<1>2. kind \in {"fix", "pos", "neg"}
  BY <1>1 DEF Template
<1>3. FORCE_X_POS # 0 /\ FORCE_X_NEG # 0
  BY DEF FORCE_X_POS, FORCE_X_NEG
<1>4. kind # "fix" => kind \in {"pos", "neg"} /\ p \in 1..4
  BY <1>1, <1>2, Places
<1>5. m \notin damaged /\ kind # "fix" => p \in {3, 4}
  <2> SUFFICES ASSUME m \notin damaged, kind # "fix" PROVE p \in {3, 4}
    OBVIOUS
  <2>1. p # 1
    <3>1. p = 1 => b.t \in {FORCE_X_POS, FORCE_X_NEG}
      BY <1>1, <1>4, Places
    <3> QED
      BY <1>1, <1>3, <3>1
  <2>2. p # 2
    BY <1>4 DEF ForceTaken
  <2> QED
    BY <1>4, <2>1, <2>2
<1>6. kind = "fix" => b.t = Fix[p] /\ p \in 1..16
  BY <1>1, Places
<1>7. IsFirst(b) /\ kind = "fix" => p = 1
  <2> SUFFICES ASSUME b.t \in {GPS_speed, FORCE_Y}, kind = "fix" PROVE p = 1
    BY DEF IsFirst
  <2>1. b.t = GPS_speed /\ b.t # 0
    BY <1>6, Places DEF GPS_speed, FORCE_Y
  <2>2. p \in {1, 4, 7, 12}
    BY <1>6, <2>1, Places
  <2> QED
    BY <1>6, <2>1, <2>2, Places
    DEF GPS_speed, GPS_course, GPS_latitude, GPS_longitude
<1> QED
  BY <1>1, <1>4, <1>5, <1>6, <1>7, Places DEF IsFirst

\* A byte that reaches the queue comes behind the one before it.
LEMMA AppendOrder ==
    ASSUME IInv, Later, kind # "none", WriteNext, NEW b \in BytesNow,
           b.v \notin {FORCE_X_POS, FORCE_X_NEG}, coming = "none",
           queue' = Append(queue, b),
           UNCHANGED <<header, pc, damaged, coming>>
    PROVE  Later'
<1>1. /\ Len(queue) \in Nat /\ Len(queue') = Len(queue) + 1
      /\ queue'[Len(queue) + 1] = b
      /\ \A i \in 1..Len(queue) : queue'[i] = queue[i]
  BY NextByte DEF IInv
<1>2. /\ b.m = m /\ b.p = p /\ b.t = Template[kind][p]
      /\ kind \in DOMAIN Template /\ p \in 1..Len(Template[kind])
  BY NextByte
<1>3. m' = m /\ m \in 1..MaxMessages /\ p \in 1..16
      /\ (kind' # "none" => kind' = kind /\ p' = p + 1)
      /\ (p < Len(Template[kind]) => kind' # "none")
  BY Written
<1>4. /\ m \notin damaged /\ kind # "fix" =>
            kind \in {"pos", "neg"} /\ p \in {3, 4}
      /\ kind = "fix" => b.t = Fix[p]
      /\ kind # "fix" /\ p = 3 => b.t = FORCE_Y
      /\ kind # "fix" /\ p = 4 => b.t = 0
      /\ IsFirst(b) /\ kind = "fix" => p = 1
      /\ b.t = Fix[1] => IsFirst(b)
  BY StoredByte DEF Later
<1>5. /\ \A i \in InLine' : i # Len(queue) + 1 => i \in InLine /\ At(i)' = At(i)
      /\ Len(queue) + 1 \in InLine'
  <2>1. ASSUME NEW i \in InLine', i # Len(queue) + 1
        PROVE  i \in InLine /\ At(i)' = At(i)
    BY <1>1, <2>1 DEF InLine, At
  <2>2. /\ Len(queue) + 1 > 0 /\ Len(queue) + 1 # 0
        /\ Len(queue) + 1 \in 0..(Len(queue) + 1)
    BY <1>1
  <2>3. Len(queue) + 1 \in InLine'
    BY <1>1, <2>2 DEF InLine
  <2>4. queue'[Len(queue) + 1] = b
    BY <1>1
  <2> QED
    BY <2>1, <2>3
<1>6. ASSUME InLine # {}
      PROVE  Before(At(Len(queue)), b)
  <2>1. Len(queue) \in InLine
    BY <1>1, <1>6 DEF InLine
  <2>2. PICK a : a = At(Len(queue))
    OBVIOUS
  <2>3. Sound(a) /\ BeforeNext(a)
    BY <1>6, <2>1, <2>2, InTheLine DEF Later, Newest
  <2> SUFFICES ASSUME m \notin damaged PROVE Before(a, b)
    BY <1>2, <2>2 DEF Before
  <2>4. CASE kind = "fix" /\ p = 1
    <3>1. IsFirst(b) /\ ~Begun
      BY <1>4, <2>4 DEF Begun
    <3>2. m - 1 \notin damaged => a.m = m - 1 /\ LastOfMessage(a)
      BY <2>3, <2>4, <3>1 DEF BeforeNext
    <3> QED
      BY <1>2, <3>1, <3>2 DEF Before
  <2>5. CASE kind = "fix" /\ p # 1
    <3>1. ~IsFirst(b) /\ Begun
      BY <1>3, <1>4, <2>5 DEF Begun
    <3>2. a.m = m /\ a.p = p - 1
      BY <2>3, <2>5, <3>1 DEF BeforeNext
    <3>3. p - 1 \in 1..15 /\ a.p + 1 = p
      BY <1>3, <2>5, <3>2
    <3>4. a.t = Fix[p - 1] /\ a.t # FORCE_Y
      BY <2>3, <2>5, <3>2, <3>3, Places DEF Sound
    <3>5. ~LastOfMessage(a)
      <4>1. GPS_course # 0
        BY DEF GPS_course
      <4> QED
        BY <3>2, <3>3, <3>4, <4>1, Places DEF LastOfMessage
    <3> QED
      BY <1>2, <1>4, <2>5, <3>1, <3>2, <3>3, <3>4, <3>5 DEF Before, Follows
  <2>6. CASE kind \in {"pos", "neg"} /\ p = 3
    <3>1. IsFirst(b) /\ ~Begun
      BY <1>4, <2>6 DEF Begun, IsFirst
    <3>2. m - 1 \notin damaged => a.m = m - 1 /\ LastOfMessage(a)
      BY <2>3, <2>6, <3>1 DEF BeforeNext
    <3> QED
      BY <1>2, <3>1, <3>2 DEF Before
  <2>7. CASE kind \in {"pos", "neg"} /\ p = 4
    <3>1. b.t = 0 /\ Begun
      BY <1>4, <2>7 DEF Begun
    <3>2. a.m = m /\ a.p = 3
      BY <2>3, <2>7, <3>1 DEF BeforeNext
    <3>3. a.t = FORCE_Y
      BY <2>3, <2>7, <3>2, Places DEF Sound
    <3>4. ~IsFirst(b) /\ ~LastOfMessage(a)
      BY <3>1, <3>2 DEF IsFirst, LastOfMessage, GPS_speed, FORCE_Y
    <3> QED
      BY <1>2, <2>7, <3>1, <3>2, <3>3, <3>4 DEF Before, Follows
  <2> QED
    BY <1>4, <2>4, <2>5, <2>6, <2>7
<1>7. Ordered'
  <2> SUFFICES ASSUME NEW i \in InLine', i < Len(queue')
               PROVE  Before(At(i), queue[i + 1])'
    BY DEF Ordered
  <2>1. i \in InLine /\ At(i)' = At(i) /\ i \in 0..Len(queue)
    BY <1>1, <1>5 DEF InLine
  <2>2. CASE i < Len(queue)
    <3>1. queue'[i + 1] = queue[i + 1] /\ Before(At(i), queue[i + 1])
      BY <1>1, <2>1, <2>2 DEF Later, Ordered
    <3> QED
      BY <2>1, <3>1 DEF Before, Follows, LastOfMessage, IsFirst
  <2>3. CASE i = Len(queue)
    <3>1. queue'[i + 1] = b /\ Before(At(i), b)
      BY <1>1, <1>6, <2>1, <2>3
    <3> QED
      BY <2>1, <3>1 DEF Before, Follows, LastOfMessage, IsFirst
  <2> QED
    BY <1>1, <2>1, <2>2, <2>3
<1>8. Newest'
  <2> SUFFICES ASSUME m \notin damaged PROVE BeforeNext(At(Len(queue)))'
    BY <1>3 DEF Newest, BeforeNext
  <2>1. At(Len(queue))' = b
    <3>1. Len(queue') # 0
      BY <1>1
    <3>2. At(Len(queue))' = queue'[Len(queue')]
      BY <3>1 DEF At
    <3> QED
      BY <1>1, <3>2
  <2>2. kind' = "none" => LastOfMessage(b)
    <3> SUFFICES ASSUME kind' = "none" PROVE LastOfMessage(b)
      OBVIOUS
    <3>1. ~(p < Len(Template[kind]))
      BY <1>3
    <3>2. kind = "fix" => p = 16
      <4>1. kind = "fix" => Len(Template[kind]) = 16
        BY Places
      <4>2. p \in 1..16 /\ (p < 16 \/ p = 16)
        BY <1>3
      <4> QED
        BY <3>1, <4>1, <4>2
    <3>3. kind # "fix" => p = 4
      <4>1. kind # "fix" => Len(Template[kind]) = 4 /\ p \in {3, 4}
        BY <1>4, Places
      <4> QED
        BY <3>1, <4>1, SMTT(30)
    <3> QED
      BY <1>2, <1>4, <3>2, <3>3 DEF LastOfMessage
  <2>3. kind' # "none" => Begun' /\ p = p' - 1
    BY <1>3, <1>4 DEF Begun
  <2> QED
    BY <1>2, <1>3, <2>1, <2>2, <2>3 DEF BeforeNext, LastOfMessage
<1>9. ForceTaken'
  <2> SUFFICES ASSUME kind' \in {"pos", "neg"}, p' = 2, m' \notin damaged'
               PROVE  FALSE
    BY DEF ForceTaken
  <2>1. kind \in {"pos", "neg"} /\ p = 1 /\ m \notin damaged
    BY <1>3
  <2> QED
    BY <1>4, <2>1
<1> QED
  BY <1>7, <1>8, <1>9 DEF Later


LEMMA SendLater == ASSUME IInv, Later, Send PROVE Later'
<1>1. kind # "none" /\ WriteNext /\ UNCHANGED <<pc, header>>
  BY DEF Send
<1>2. PICK b \in BytesNow : TakeForce(b) \/ ExpectForce(b) \/ StoreChar(b)
  BY DEF Send
<1>3. /\ b.m = m /\ b.p = p /\ b.t = Template[kind][p]
      /\ kind \in DOMAIN Template /\ p \in 1..Len(Template[kind])
  BY <1>1, NextByte
<1>4. CASE TakeForce(b)
  <2>1. /\ UNCHANGED queue /\ damaged \subseteq damaged'
        /\ m \in damaged' \/ (kind # "fix" /\ p = 2)
    BY <1>3, <1>4 DEF TakeForce, IsForceValue
  <2> QED
    BY <1>1, <2>1, KeptOrder
<1>5. CASE ExpectForce(b)
  <2>1. /\ UNCHANGED queue /\ damaged \subseteq damaged' /\ coming' # "none"
        /\ \/ m \in damaged'
           \/ Template[kind][p] \in {FORCE_X_POS, FORCE_X_NEG}
    BY <1>3, <1>5 DEF ExpectForce, IsForceHeader
  <2>2. m \in damaged' \/ p = 1
    BY <1>3, <2>1, Messages
  <2>3. kind # "fix" \/ Template[kind][1] \notin {FORCE_X_POS, FORCE_X_NEG}
    <3>1. 1 \in 1..16
      OBVIOUS
    <3> QED
      BY <3>1, Places
  <2> QED
    BY <1>1, <2>1, <2>2, <2>3, KeptOrder
<1>6. CASE StoreChar(b) /\ Len(queue) < Capacity
  <2>1. /\ b.v \notin {FORCE_X_POS, FORCE_X_NEG} /\ coming = "none"
        /\ queue' = Append(queue, b) /\ UNCHANGED <<damaged, coming>>
    BY <1>6 DEF StoreChar
  <2> QED
    BY <1>1, <2>1, AppendOrder
<1>7. CASE StoreChar(b) /\ ~(Len(queue) < Capacity)
  <2>1. UNCHANGED queue /\ damaged \subseteq damaged' /\ m \in damaged'
    BY <1>3, <1>7 DEF StoreChar
  <2> QED
    BY <1>1, <2>1, KeptOrder
<1> QED
  BY <1>2, <1>4, <1>5, <1>6, <1>7

LEMMA LoseLater == ASSUME IInv, Later, Lose PROVE Later'
<1>1. /\ kind # "none" /\ WriteNext /\ UNCHANGED <<queue, header, pc>>
      /\ damaged \subseteq damaged' /\ m \in damaged'
  BY DEF Lose
<1> QED
  BY <1>1, KeptOrder

LEMMA StartLater ==
    ASSUME IInv, Later, NEW k \in DOMAIN Template, StartMessage(k)
    PROVE  Later'
<1>1. /\ kind = "none" /\ kind' = k /\ k # "none" /\ m' = m + 1 /\ p' = 1
      /\ UNCHANGED <<queue, header, pc, damaged>>
  BY DEF StartMessage, isr, Template
<1>2. m \in Nat
  BY BoundsAssumption DEF IInv, TypeOK
<1>3. /\ InLine' = InLine /\ Len(queue') = Len(queue)
      /\ \A i \in InLine : At(i)' = At(i)
  BY <1>1 DEF InLine, At
<1>4. Ordered'
  <2> SUFFICES ASSUME NEW i \in InLine, i < Len(queue)
               PROVE  Before(At(i), queue[i + 1])'
    BY <1>3 DEF Ordered
  <2>1. Before(At(i), queue[i + 1])
    BY DEF Later, Ordered
  <2> QED
    BY <1>1, <1>3, <2>1 DEF Before, Follows, LastOfMessage, IsFirst
<1>5. Newest'
  <2> SUFFICES ASSUME InLine # {}, m \notin damaged
               PROVE  /\ At(Len(queue)).m = m
                      /\ LastOfMessage(At(Len(queue)))
    <3>1. ~Begun' /\ m' - 1 = m
      BY <1>1, <1>2 DEF Begun
    <3>2. Len(queue) \in InLine' => At(Len(queue))' = At(Len(queue))
      BY <1>3
    <3>3. InLine' # {} => Len(queue) \in InLine'
      BY <1>3, InTheLine DEF InLine
    <3> QED
      BY <1>1, <1>3, <3>1, <3>2, <3>3
      DEF Newest, BeforeNext, LastOfMessage
  <2> QED
    BY <1>1 DEF Later, Newest, BeforeNext
<1>6. ForceTaken'
  BY <1>1 DEF ForceTaken
<1> QED
  BY <1>4, <1>5, <1>6 DEF Later

LEMMA QuietLater ==
    ASSUME IInv, Later,
           UNCHANGED <<kind, m, p, queue, header, damaged, coming>>,
           pc' = "wait" <=> pc = "wait"
    PROVE  Later'
<1>1. Len(queue) \in Nat
  BY InTheLine
<1>2. 0 \in 0..Len(queue) /\ Len(queue') = Len(queue) - 0
  BY <1>1
<1>3. \A i \in InLine' : i + 0 = i /\ i \in InLine /\ At(i)' = At(i)
  BY <1>1 DEF InLine, At
<1>4. \A i \in InLine' : i + 0 \in InLine /\ At(i)' = At(i + 0)
  BY <1>3
<1> QED
  BY <1>2, <1>4, ShiftOrder

\* insula_read takes one byte, which it keeps as its header or drops.
LEMMA ByteTaken ==
    ASSUME IInv, ReadByte
    PROVE  /\ pc = "loop" /\ Len(queue) \in Nat /\ 1 \in 0..Len(queue)
           /\ queue[1] \in Sent
           /\ Len(queue') = Len(queue) - 1
           /\ \A i \in InLine' : i + 1 \in InLine /\ At(i)' = At(i + 1)
           /\ \A i \in 1..Len(queue') : queue'[i] = queue[i + 1]
           /\ \/ /\ queue[1].v \in DOMAIN Length
                 /\ header' = queue[1] /\ pc' = "wait"
                 /\ mistaken' = IF queue[1].t = 0
                                THEN mistaken \cup {queue[1].m} ELSE mistaken
              \/ /\ queue[1].v \notin DOMAIN Length /\ pc' = "loop"
                 /\ UNCHANGED <<header, mistaken>>
           /\ UNCHANGED <<insula, coming, damaged, readings, estimate>>
<1>1. /\ pc = "loop" /\ queue # <<>> /\ queue' = Tail(queue)
      /\ UNCHANGED <<insula, coming, damaged, readings, estimate>>
  BY DEF ReadByte
<1>2. /\ Len(queue) \in Nat /\ Len(queue) > 0 /\ Head(queue) = queue[1]
      /\ Head(queue) \in Sent
      /\ Len(queue') = Len(queue) - 1
      /\ \A i \in 1..Len(queue') : queue'[i] = queue[i + 1]
  BY <1>1, HeadTailProperties, EmptySeq DEF IInv
<1>3. \/ /\ queue[1].v \in DOMAIN Length
         /\ header' = queue[1] /\ pc' = "wait"
         /\ mistaken' = IF queue[1].t = 0
                        THEN mistaken \cup {queue[1].m} ELSE mistaken
      \/ /\ queue[1].v \notin DOMAIN Length /\ pc' = "loop"
         /\ UNCHANGED <<header, mistaken>>
  BY <1>2 DEF ReadByte
<1>4. ASSUME NEW i \in InLine' PROVE i + 1 \in InLine /\ At(i)' = At(i + 1)
  <2>1. i \in 0..Len(queue') /\ i + 1 \in 1..Len(queue) /\ i + 1 # 0
    BY <1>2 DEF InLine
  <2>2. CASE i = 0
    BY <1>1, <1>2, <1>3, <2>1, <2>2 DEF InLine, At
  <2>3. CASE i # 0
    BY <1>2, <2>1, <2>3 DEF InLine, At
  <2> QED
    BY <2>2, <2>3
<1>5. 1 \in 0..Len(queue)
  BY <1>2
<1> QED
  BY <1>1, <1>2, <1>3, <1>4, <1>5

LEMMA ReadLater == ASSUME IInv, Later, ReadByte \/ ReadField PROVE Later'
<1>1. CASE ReadByte
  BY <1>1, ByteTaken, ShiftOrder DEF insula
<1>2. CASE ReadField
  <2>1. PICK n \in {2, 4}, field \in Seq(Sent) :
           /\ pc = "wait" /\ Len(queue) \in Nat /\ Len(queue) >= n
           /\ pc' = IF header.v = GPS_longitude THEN "ekf" ELSE "loop"
           /\ UNCHANGED <<insula, coming, damaged>>
           /\ Len(queue') = Len(queue) - n
           /\ \A i \in 1..Len(queue') : queue'[i] = queue[i + n]
    BY <1>2, FieldTaken
  <2>2. n \in 0..Len(queue)
    BY <2>1
  <2>3. ASSUME NEW i \in InLine' PROVE i + n \in InLine /\ At(i)' = At(i + n)
    <3>1. i \in 1..Len(queue') /\ i + n \in 1..Len(queue)
          /\ i # 0 /\ i + n # 0
      BY <2>1 DEF InLine
    <3> QED
      BY <2>1, <3>1 DEF InLine, At
  <2> QED
    BY <2>1, <2>2, <2>3, ShiftOrder DEF insula
<1> QED
  BY <1>1, <1>2


-----------------------------------------------------------------------------
\* One place back in the line, among the bytes of a message k that is clean and
\* of the two before it: the last byte of a message is not its first.
LEMMA StepBack ==
    ASSUME IInv, Ordered, NEW i \in InLine, NEW j \in InLine, i = j + 1,
           NEW k \in Int, Clean(k)
    PROVE  /\ At(i).m = k =>
                 \/ At(j).m = k
                 \/ At(j).m = k - 1 /\ LastOfMessage(At(j))
           /\ At(i).m = k - 1 =>
                 \/ At(j).m = k - 1
                 \/ At(j).m = k - 2 /\ LastOfMessage(At(j))
           /\ At(i).m \in {k - 1, k - 2} /\ LastOfMessage(At(i)) =>
                 At(j).m = At(i).m
<1>1. /\ i \in 1..Len(queue) /\ j < Len(queue) /\ i # 0
      /\ At(i) = queue[j + 1] /\ Sound(At(i)) /\ Len(queue) \in Nat
  <2>1. /\ i \in 0..Len(queue) /\ j \in 0..Len(queue) /\ Len(queue) \in Nat
        /\ Sound(At(i))
    BY InTheLine
  <2>2. i # 0
    BY <2>1
  <2> QED
    BY <2>1, <2>2 DEF At
<1>2. PICK b, c : b = At(j) /\ c = At(i)
  OBVIOUS
<1>3. Before(b, c)
  BY <1>1, <1>2 DEF Ordered
<1>4. c.m \notin damaged /\ ~IsFirst(c) => b.m = c.m
  BY <1>3 DEF Before, Follows
<1>5. {c.m - 1, c.m} \cap damaged = {} /\ IsFirst(c) =>
        b.m = c.m - 1 /\ LastOfMessage(b)
  BY <1>3 DEF Before
<1>6. LastOfMessage(c) => ~IsFirst(c)
  BY <1>1, <1>2, SoundFacts
<1>7. k \notin damaged /\ k - 1 \notin damaged /\ k - 2 \notin damaged
  BY DEF Clean
<1>8. c.m = k => b.m = k \/ (b.m = k - 1 /\ LastOfMessage(b))
  BY <1>4, <1>5, <1>7
<1>9. c.m = k - 1 => b.m = k - 1 \/ (b.m = k - 2 /\ LastOfMessage(b))
  <2>1. k - 1 - 1 = k - 2
    OBVIOUS
  <2> QED
    BY <1>4, <1>5, <1>7, <2>1
<1>10. c.m \in {k - 1, k - 2} /\ LastOfMessage(c) => b.m = c.m
  BY <1>4, <1>6, <1>7
<1> QED
  BY <1>2, <1>8, <1>9, <1>10

\* No field runs over into a clean message that it does not belong to.
LEMMA Spill ==
    ASSUME IInv, Ordered, pc = "wait", NEW n, n = Length[header.v],
           Len(queue) >= n, Clean(queue[n].m)
    PROVE  header.m = queue[n].m
<1>1. /\ n \in {2, 4} /\ header.v \in DOMAIN Length
      /\ Len(queue) \in Nat
  BY Headers, InTheLine DEF IInv, Waiting
<1>2. \A i \in 0..n : i \in InLine
  BY <1>1 DEF InLine
<1>3. PICK k : k = queue[n].m
  OBVIOUS
<1>4. At(n).m = k /\ k \in Int /\ Clean(k) /\ At(0) = header
  <2>1. At(n) = queue[n]
    BY <1>1 DEF At
  <2>2. n \in InLine
    BY <1>1, <1>2
  <2>3. At(n).m \in 1..MaxMessages
    BY <2>2, InTheLine
  <2> QED
    BY <1>3, <2>1, <2>3 DEF At
<1> HIDE DEF Clean
<1> DEFINE Back(i, j) ==
      /\ At(i).m = k => At(j).m = k \/ (At(j).m = k - 1 /\ LastOfMessage(At(j)))
      /\ At(i).m = k - 1 =>
            At(j).m = k - 1 \/ (At(j).m = k - 2 /\ LastOfMessage(At(j)))
      /\ At(i).m \in {k - 1, k - 2} /\ LastOfMessage(At(i)) =>
            At(j).m = At(i).m
<1>5. ASSUME NEW i \in InLine, NEW j \in InLine, i = j + 1 PROVE Back(i, j)
  BY <1>4, <1>5, StepBack
<1>6. Back(1, 0) /\ Back(2, 1) /\ (n = 4 => Back(3, 2) /\ Back(4, 3))
  <2>1. 0 \in InLine /\ 1 \in InLine /\ 2 \in InLine
    BY <1>1, <1>2
  <2>2. n = 4 => 3 \in InLine /\ 4 \in InLine
    BY <1>2
  <2> QED
    BY <1>5, <2>1, <2>2
<1>7. At(0).m \in {k, k - 1, k - 2}
  <2>1. CASE n = 2
    BY <1>4, <1>6, <2>1
  <2>2. CASE n = 4
    <3>1. At(4).m = k
      BY <1>4, <2>2
    <3>2. At(3).m = k \/ (At(3).m = k - 1 /\ LastOfMessage(At(3)))
      BY <1>6, <2>2, <3>1
    <3>3. \/ At(2).m = k \/ At(2).m = k - 1
      BY <1>6, <2>2, <3>2
    <3>4. \/ At(1).m = k \/ At(1).m = k - 1
          \/ At(1).m = k - 2 /\ LastOfMessage(At(1))
      BY <1>6, <3>3
    <3> QED
      BY <1>6, <3>4
  <2> QED
    BY <1>1, <2>1, <2>2
<1>8. header.m \notin damaged \cup mistaken
  BY <1>4, <1>7 DEF Clean
<1>9. \A i \in 1..n : queue[i].m = header.m
  BY <1>8, FieldIsWhole
<1> QED
  BY <1>1, <1>9


\* The readings that a field leaves behind, when the fields before it of its
\* message had been read.
LEMMA GotOn ==
    ASSUME IInv, NEW h \in DOMAIN Length, NEW r, Decode(h, r),
           r = [hdr |-> r.hdr, bytes |-> r.bytes, unit |-> r.unit],
           r.bytes # <<>>, NEW k, r.hdr.m = k, Got(k, PlaceOf[h])
    PROVE  /\ PlaceOf[h] + Length[h] + 1 \in {4, 7, 12, 17}
           /\ PlaceOf[h] + Length[h] + 1 # 17 =>
                 Got(k, PlaceOf[h] + Length[h] + 1)'
           /\ h = GPS_longitude =>
                 /\ \A x \in {velocity', heading', xpos', ypos'} : From(x, k)
                 /\ xpos'.unit = "metres" /\ ypos'.hdr.m = k
<1>1. ASSUME NEW x, NEW u,
             x = [hdr |-> x.hdr, bytes |-> x.bytes, unit |-> x.unit],
             From(x, k)
      PROVE  /\ From([x EXCEPT !.unit = u], k)
             /\ [x EXCEPT !.unit = u].unit = u
  <2>1. [x EXCEPT !.unit = u] = [hdr |-> x.hdr, bytes |-> x.bytes, unit |-> u]
    BY <1>1
  <2> QED
    BY <1>1, <2>1 DEF From
<1>2. /\ xpos = [hdr |-> xpos.hdr, bytes |-> xpos.bytes, unit |-> xpos.unit]
      /\ From(r, k)
  BY DEF IInv, Readings, From
<1>3. CASE h = GPS_speed
  <2>1. velocity' = [r EXCEPT !.unit = "m/s"]
    BY <1>3
    DEF Decode, GPS_speed, GPS_course, GPS_latitude, GPS_longitude
  <2>2. From(velocity', k)
    BY <1>1, <1>2, <2>1
  <2>3. PlaceOf[h] + Length[h] + 1 = 4 /\ h # GPS_longitude
    BY <1>3, Headers DEF GPS_speed, GPS_longitude
  <2>4. Got(k, 4)'
    BY <2>2 DEF Got, From
  <2> QED
    BY <2>3, <2>4
<1>4. CASE h = GPS_course
  <2>1. heading' = [r EXCEPT !.unit = "rad"] /\ UNCHANGED velocity
    BY <1>4
    DEF Decode, GPS_speed, GPS_course, GPS_latitude, GPS_longitude
  <2>2. From(heading', k)
    BY <1>1, <1>2, <2>1
  <2>3. /\ PlaceOf[h] = 4 /\ PlaceOf[h] + Length[h] + 1 = 7
        /\ h # GPS_longitude
    BY <1>4, Headers DEF GPS_course, GPS_longitude
  <2>4. Got(k, 7)'
    BY <2>1, <2>2, <2>3 DEF Got, From
  <2> QED
    BY <2>3, <2>4
<1>5. CASE h = GPS_latitude
  <2>1. xpos' = [r EXCEPT !.unit = "degrees"] /\ UNCHANGED <<velocity, heading>>
    BY <1>5
    DEF Decode, GPS_speed, GPS_course, GPS_latitude, GPS_longitude
  <2>2. From(xpos', k) /\ xpos'.unit = "degrees"
    BY <1>1, <1>2, <2>1
  <2>3. /\ PlaceOf[h] = 7 /\ PlaceOf[h] + Length[h] + 1 = 12
        /\ h # GPS_longitude
    BY <1>5, Headers DEF GPS_latitude, GPS_longitude
  <2>4. Got(k, 12)'
    BY <2>1, <2>2, <2>3 DEF Got, From
  <2> QED
    BY <2>3, <2>4
<1>6. CASE h = GPS_longitude
  <2>1. /\ xpos' = IF xpos.unit = "degrees"
                   THEN [xpos EXCEPT !.unit = "metres"]
                   ELSE [NoReading EXCEPT !.unit = "neither"]
        /\ ypos' = [r EXCEPT !.unit = "metres"]
        /\ UNCHANGED <<velocity, heading>>
    BY <1>6 DEF Decode, GPS_speed, GPS_course, GPS_latitude, GPS_longitude
  <2>2. PlaceOf[h] = 12 /\ PlaceOf[h] + Length[h] + 1 = 17
    BY <1>6, Headers
  <2>3. /\ From(velocity, k) /\ From(heading, k) /\ From(xpos, k)
        /\ xpos.unit = "degrees"
    BY <2>2 DEF Got
  <2>4. From(xpos', k) /\ xpos'.unit = "metres"
    BY <1>1, <1>2, <2>1, <2>3
  <2>5. From(ypos', k) /\ ypos'.hdr.m = k
    BY <1>1, <1>2, <2>1 DEF From
  <2>6. From(velocity', k) /\ From(heading', k)
    BY <2>1, <2>3 DEF From
  <2> QED
    BY <2>2, <2>4, <2>5, <2>6
<1> QED
  BY <1>3, <1>4, <1>5, <1>6, Headers

\* A field that insula_read takes in a clean message was sent there, and the
\* readings of the fields up to it are then those of that message.
LEMMA FieldInPlace ==
    ASSUME IInv, Later, InStep, ReadField,
           Clean(queue[Length[header.v]].m) \/ Clean(header.m)
    PROVE  \E n \in {2, 4}, h \in DOMAIN Length, k \in Int,
              q \in {4, 7, 12, 17} :
              /\ n = Length[header.v] /\ h = header.v /\ k = header.m
              /\ queue[n].m = k /\ queue[n].p + 1 = q
              /\ ~IsFirst(queue[n])
              /\ q # 17 => Got(k, q)'
              /\ h = GPS_longitude =>
                    /\ \A x \in {velocity', heading', xpos', ypos'} : From(x, k)
                    /\ xpos'.unit = "metres" /\ ypos'.hdr.m = k
<1>1. PICK n \in {2, 4}, field \in Seq(Sent) :
         /\ n = Length[header.v] /\ header.v \in DOMAIN Length
         /\ pc = "wait"
         /\ Len(queue) \in Nat /\ Len(queue) >= n
         /\ Decode(header.v, [hdr |-> header, bytes |-> field, unit |-> "raw"])
         /\ field # <<>>
  BY FieldTaken
<1>2. PICK k : k = header.m
  OBVIOUS
<1>3. Clean(k)
  <2>1. Clean(queue[n].m) => header.m = queue[n].m
    BY <1>1, Spill DEF Later
  <2> QED
    BY <1>1, <1>2, <2>1
<1>4. k \notin damaged \cup mistaken
  <2>1. 0 \in InLine /\ At(0) = header
    BY <1>1 DEF InLine, At
  <2>2. k \in 1..MaxMessages
    BY <1>2, <2>1, InTheLine
  <2>3. k - 0 = k /\ 0 \in 0..2
    BY <2>2
  <2> QED
    BY <1>3, <2>3 DEF Clean
<1>5. /\ header.t = header.v
      /\ \A i \in 1..n : queue[i].m = k /\ queue[i].p = header.p + i
  BY <1>1, <1>2, <1>4, FieldIsWhole
<1>6. header.p = PlaceOf[header.v]
  <2>1. 0 \in InLine /\ At(0) = header
    BY <1>1 DEF InLine, At
  <2>2. Sound(header)
    BY <2>1, InTheLine
  <2> QED
    BY <1>1, <1>5, <2>2, Headers DEF Sound
<1>7. ~IsFirst(queue[n])
  <2>1. PICK i \in {1, 3} : n = i + 1
    BY <1>1
  <2>2. i \in 1..n /\ n \in 1..n /\ i \in InLine /\ i < Len(queue)
        /\ At(i) = queue[i]
    BY <1>1, <2>1 DEF InLine, At
  <2>3. queue[i].m = k /\ queue[n].m = k
    BY <1>5, <2>2
  <2>4. Before(queue[i], queue[n])
    BY <2>1, <2>2 DEF Later, Ordered
  <2>5. k - 1 \notin damaged /\ k \notin damaged /\ k \in Int
    <3>1. At(i).m \in 1..MaxMessages
      BY <2>2, InTheLine
    <3> QED
      BY <1>3, <1>4, <2>2, <2>3, <3>1 DEF Clean
  <2> QED
    BY <2>3, <2>4, <2>5 DEF Before
<1>8. Got(k, PlaceOf[header.v])
  BY <1>1, <1>2, <1>3, <1>6 DEF InStep
<1>9. PICK r : r = [hdr |-> header, bytes |-> field, unit |-> "raw"]
  OBVIOUS
<1>10. /\ r = [hdr |-> r.hdr, bytes |-> r.bytes, unit |-> r.unit]
       /\ r.bytes # <<>> /\ r.hdr.m = k /\ Decode(header.v, r)
  BY <1>1, <1>2, <1>9
<1>11. PICK h \in DOMAIN Length : h = header.v
  BY <1>1
<1>12. Got(k, PlaceOf[h]) /\ Decode(h, r)
  BY <1>8, <1>10, <1>11
<1>13. /\ PlaceOf[h] + Length[h] + 1 \in {4, 7, 12, 17}
       /\ PlaceOf[h] + Length[h] + 1 # 17 =>
             Got(k, PlaceOf[h] + Length[h] + 1)'
       /\ h = GPS_longitude =>
             /\ \A x \in {velocity', heading', xpos', ypos'} : From(x, k)
             /\ xpos'.unit = "metres" /\ ypos'.hdr.m = k
  BY <1>10, <1>12, GotOn
<1>14. PICK q \in {4, 7, 12, 17} : q = PlaceOf[h] + Length[h] + 1
  BY <1>13
<1>15. queue[n].m = k /\ queue[n].p + 1 = q
  <2>1. n \in 1..n
    BY <1>1
  <2>2. queue[n].m = k /\ queue[n].p = header.p + n
    BY <1>5, <2>1
  <2> QED
    BY <1>1, <1>6, <1>11, <1>14, <2>2
<1>16. q # 17 => Got(k, q)'
  BY <1>13, <1>14
<1>17. k \in Int
  <2>1. 0 \in InLine /\ At(0) = header
    BY <1>1 DEF InLine, At
  <2>2. k \in 1..MaxMessages
    BY <1>2, <2>1, InTheLine
  <2> QED
    BY <2>2
<1> QED
  BY <1>1, <1>2, <1>7, <1>11, <1>13, <1>15, <1>16, <1>17


LEMMA InsulaInStep ==
    ASSUME IInv, Later, InStep,
           \/ Send \/ Lose
           \/ \E k \in DOMAIN Template : StartMessage(k)
    PROVE  InStep'
<1>1. /\ UNCHANGED <<pc, header, velocity, heading, xpos, mistaken>>
      /\ damaged \subseteq damaged'
  BY DEF Send, Lose, StartMessage, readings, isr, TakeForce, ExpectForce,
         StoreChar
<1>2. \A k : Clean(k)' => Clean(k)
  BY <1>1 DEF Clean
<1>3. \A k, q : Got(k, q) => Got(k, q)'
  BY <1>1 DEF Got, From
<1>4. pc' = "wait" /\ Clean(header.m)' => Got(header.m, header.p)'
  <2>1. pc = "wait" /\ Clean(header.m) => Got(header.m, header.p)
    BY DEF InStep
  <2> QED
    BY <1>1, <2>1 DEF Clean, Got, From
<1>5. ASSUME pc # "wait", queue # <<>>, queue'[1] = queue[1],
             Clean(queue[1].m)'
      PROVE  AtBoundary(queue[1])'
  <2>1. AtBoundary(queue[1])
    BY <1>1, <1>5 DEF InStep, Clean
  <2> QED
    BY <1>1, <1>5, <2>1 DEF AtBoundary, Got, From
<1>6. CASE Lose
  <2>1. queue' = queue /\ m \in damaged' /\ kind # "none" /\ WriteNext
    BY <1>6 DEF Lose
  <2>2. m' = m /\ m \in Int
    BY <2>1, Written
  <2>3. ~Clean(m)'
    BY <2>1, <2>2 DEF Clean
  <2> QED
    BY <1>1, <1>4, <1>5, <2>1, <2>3 DEF InStep
<1>7. CASE \E k \in DOMAIN Template : StartMessage(k)
  <2>1. queue' = queue /\ p' = 1
    BY <1>7 DEF StartMessage, isr
  <2>2. Got(m, p)'
    BY <2>1 DEF Got
  <2> QED
    BY <1>1, <1>4, <1>5, <2>1, <2>2 DEF InStep
<1>8. CASE Send
  <2>1. kind # "none" /\ WriteNext
    BY <1>8 DEF Send
  <2>2. PICK b \in BytesNow : TakeForce(b) \/ ExpectForce(b) \/ StoreChar(b)
    BY <1>8 DEF Send
  <2>3. /\ b.m = m /\ b.p = p /\ b.t = Template[kind][p]
        /\ kind \in DOMAIN Template /\ p \in 1..Len(Template[kind])
        /\ m' = m /\ m \in Int
        /\ kind' # "none" => kind' = kind
    BY <2>1, NextByte, Written
  <2>4. queue \in Seq(Sent) /\ Len(queue) \in Nat /\ b \in Sent
    BY <2>1, InTheLine, NextByte
  <2>5. CASE queue' = queue
    <3>1. m \in damaged' \/ kind # "fix"
      <4> SUFFICES ASSUME kind = "fix" PROVE m \in damaged'
        OBVIOUS
      <4>1. CASE TakeForce(b)
        BY <2>3, <4>1 DEF TakeForce, IsForceValue
      <4>2. CASE ExpectForce(b)
        <5>1. b.v \in {FORCE_X_POS, FORCE_X_NEG}
          BY <4>2 DEF ExpectForce
        <5>2. b.t \notin {FORCE_X_POS, FORCE_X_NEG}
          BY <2>3, Places
        <5>3. b.t # b.v
          BY <5>1, <5>2
        <5> QED
          BY <2>3, <4>2, <5>3 DEF ExpectForce, IsForceHeader
      <4>3. CASE StoreChar(b)
        <5>1. Len(Append(queue, b)) # Len(queue)
          BY <2>4
        <5> QED
          BY <2>3, <2>5, <4>3, <5>1 DEF StoreChar
      <4> QED
        BY <2>2, <4>1, <4>2, <4>3
    <3>2. kind' = "fix" => ~Clean(m)'
      BY <2>3, <3>1 DEF Clean
    <3> QED
      BY <1>1, <1>4, <1>5, <2>5, <3>2 DEF InStep
  <2>6. CASE queue' # queue
    <3>1. /\ queue' = Append(queue, b) /\ coming = "none"
          /\ b.v \notin {FORCE_X_POS, FORCE_X_NEG} /\ damaged' = damaged
      BY <2>2, <2>6 DEF TakeForce, ExpectForce, StoreChar
    <3>2. /\ queue' # <<>>
          /\ queue # <<>> => queue'[1] = queue[1]
          /\ queue = <<>> => queue'[1] = b
      BY <2>4, <3>1
    <3>3. ASSUME pc # "wait", queue = <<>>, Clean(m) PROVE AtBoundary(b)'
      <4>1. m \notin damaged
        <5>1. m - 0 = m /\ 0 \in 0..2
          BY <2>3
        <5> QED
          BY <3>3, <5>1 DEF Clean
      <4>2. /\ kind # "fix" => kind \in {"pos", "neg"} /\ p \in {3, 4}
            /\ kind = "fix" => b.t = Fix[p]
            /\ kind # "fix" /\ p = 3 => b.t = FORCE_Y
            /\ kind # "fix" /\ p = 4 => b.t = 0
        BY <2>1, <3>1, <4>1, StoredByte DEF Later
      <4>3. kind = "fix" => b.t \in DOMAIN Length /\ Got(b.m, b.p)
        <5>1. kind = "fix" => p \in {1, 4, 7, 12} /\ Got(m, p)
          BY <3>3 DEF InStep
        <5> QED
          BY <2>3, <4>2, <5>1, Places, Headers
      <4>4. kind # "fix" => b.t = FORCE_Y \/ (b.p = 4 /\ b.t = 0)
        BY <2>3, <4>2
      <4> QED
        BY <1>3, <4>3, <4>4 DEF AtBoundary
    <3>4. ASSUME pc' # "wait", Clean(queue[1].m)'
          PROVE  AtBoundary(queue[1])'
      <4>1. CASE queue # <<>>
        BY <1>1, <1>5, <3>2, <3>4, <4>1
      <4>2. CASE queue = <<>>
        <5>1. queue'[1] = b
          BY <3>2, <4>2
        <5>2. Clean(m)
          BY <1>1, <2>3, <3>1, <3>4, <5>1 DEF Clean
        <5>3. AtBoundary(b)'
          BY <1>1, <3>3, <3>4, <4>2, <5>2
        <5> QED
          BY <5>1, <5>3 DEF AtBoundary, Got, From
      <4> QED
        BY <4>1, <4>2
    <3> QED
      BY <1>4, <3>2, <3>4 DEF InStep
  <2> QED
    BY <2>5, <2>6
<1> QED
  BY <1>6, <1>7, <1>8

LEMMA QuietInStep ==
    ASSUME IInv, InStep,
           UNCHANGED <<kind, m, p, queue, header, damaged, mistaken,
                       velocity, heading, xpos>>,
           pc' = "wait" <=> pc = "wait"
    PROVE  InStep'
  BY DEF InStep, Clean, AtBoundary, Got, From


LEMMA ReadByteInStep ==
    ASSUME IInv, Later, InStep, ReadByte PROVE InStep'
<1>1. /\ pc = "loop" /\ Len(queue) \in Nat /\ 1 \in 0..Len(queue)
      /\ Len(queue') = Len(queue) - 1
      /\ \A i \in 1..Len(queue') : queue'[i] = queue[i + 1]
      /\ \/ /\ queue[1].v \in DOMAIN Length
            /\ header' = queue[1] /\ pc' = "wait"
            /\ mistaken' = IF queue[1].t = 0
                           THEN mistaken \cup {queue[1].m} ELSE mistaken
         \/ /\ queue[1].v \notin DOMAIN Length /\ pc' = "loop"
            /\ UNCHANGED <<header, mistaken>>
      /\ UNCHANGED <<insula, coming, damaged, readings, estimate>>
  BY ByteTaken
<1>2. PICK c : c = queue[1]
  OBVIOUS
<1>3. /\ Sound(c) /\ c.m \in Int /\ 1 \in InLine /\ At(1) = c
      /\ queue # <<>>
  <2>1. 1 \in 1..Len(queue)
    BY <1>1
  <2> QED
    BY <1>2, <2>1, InTheLine
<1>4. Clean(c.m) => AtBoundary(c)
  BY <1>1, <1>2, <1>3 DEF InStep
<1>5. \A k, q : Got(k, q) => Got(k, q)'
  BY <1>1 DEF Got, From, readings
<1>6. CASE c.v \in DOMAIN Length
  <2>1. /\ header' = c /\ pc' = "wait"
        /\ mistaken' = IF c.t = 0 THEN mistaken \cup {c.m} ELSE mistaken
    BY <1>1, <1>2, <1>6
  <2> SUFFICES ASSUME Clean(c.m)' PROVE Got(c.m, c.p)
    BY <1>5, <2>1 DEF InStep, Clean, Got, From
  <2>2. c.m \notin mistaken'
    <3>1. c.m - 0 = c.m /\ 0 \in 0..2
      BY <1>3
    <3>2. header'.m \notin mistaken'
      BY <2>1, <3>1 DEF Clean
    <3> QED
      BY <2>1, <3>2
  <2>3. c.t # 0 /\ mistaken' = mistaken
    BY <2>1, <2>2
  <2>4. Clean(c.m)
    BY <1>1, <2>3 DEF Clean
  <2>5. c.t \in DOMAIN Length /\ c.t # FORCE_Y
    <3>1. c.t = c.v
      BY <1>3, <2>3, SoundFacts
    <3>2. FORCE_Y \notin DOMAIN Length
      BY DEF Length, FORCE_Y, GPS_speed, GPS_course, GPS_latitude,
             GPS_longitude
    <3> QED
      BY <1>6, <3>1, <3>2
  <2> QED
    BY <1>4, <2>3, <2>4, <2>5 DEF AtBoundary
<1>7. CASE c.v \notin DOMAIN Length
  <2>1. pc' = "loop" /\ UNCHANGED <<header, mistaken>>
    BY <1>1, <1>2, <1>7
  <2>2. \A k : Clean(k)' => Clean(k)
    BY <1>1, <2>1 DEF Clean
  <2>3. c.t \notin DOMAIN Length
    BY <1>3, <1>7, Headers, SoundFacts
  <2>4. Clean(c.m) => c.t = FORCE_Y \/ (c.p = 4 /\ c.t = 0)
    BY <1>4, <2>3 DEF AtBoundary
  <2>5. ASSUME Len(queue') > 0, Clean(queue[2].m) PROVE AtBoundary(queue[2])
    <3>1. PICK d : d = queue[2]
      OBVIOUS
    <3>2. 2 \in 1..Len(queue) /\ 1 < Len(queue)
      BY <1>1, <2>5
    <3>3. Before(c, d) /\ Sound(d) /\ d.m \in Int
      BY <1>3, <3>1, <3>2, InTheLine DEF Later, Ordered
    <3>4. CASE IsFirst(d)
      <4>1. d.t = GPS_speed => d.p = 1
        BY <3>3, SoundFacts
      <4>2. d.t = GPS_speed => d.t \in DOMAIN Length /\ Got(d.m, d.p)
        BY <4>1, Headers DEF Got
      <4> QED
        BY <3>1, <3>4, <4>2 DEF AtBoundary, IsFirst
    <3>5. CASE ~IsFirst(d)
      <4>1. d.m \notin damaged
        <5>1. d.m - 0 = d.m /\ 0 \in 0..2
          BY <3>3
        <5> QED
          BY <2>5, <3>1, <5>1 DEF Clean
      <4>2. /\ d.m = c.m /\ d.p = c.p + 1 /\ ~LastOfMessage(c)
            /\ c.t = FORCE_Y => d.t = 0
        BY <3>3, <3>5, <4>1 DEF Before, Follows
      <4>3. c.t = FORCE_Y
        BY <2>4, <2>5, <3>1, <4>2 DEF LastOfMessage
      <4>4. c.p = 3
        BY <1>3, <4>3, SoundFacts
      <4> QED
        BY <3>1, <4>2, <4>3, <4>4 DEF AtBoundary
    <3> QED
      BY <3>4, <3>5
  <2>6. ASSUME Len(queue) = 1, kind = "fix", Clean(m)
        PROVE  p \in {1, 4, 7, 12} /\ Got(m, p)
    <3>1. BeforeNext(c)
      BY <1>3, <2>6 DEF Later, Newest
    <3>2. m \in Int /\ p \in Nat /\ m \notin damaged
      <4>1. m \in Int /\ p \in Nat
        BY Places DEF IInv, TypeOK
      <4>2. m - 0 = m /\ 0 \in 0..2
        BY <4>1
      <4> QED
        BY <2>6, <4>1, <4>2 DEF Clean
    <3>3. p >= 1
      <4>1. p \in 1..Len(Template[kind]) /\ Len(Template[kind]) = 16
        BY <2>6, Places DEF IInv
      <4> QED
        BY <4>1
    <3>4. CASE p = 1
      BY <3>4 DEF Got
    <3>5. CASE p # 1
      <4>1. Begun
        BY <2>6, <3>2, <3>3, <3>5 DEF Begun
      <4>2. c.m = m
        BY <2>6, <3>1, <3>2, <4>1 DEF BeforeNext
      <4>3. c.t = Fix[c.p] /\ c.p \in 1..16
        <5>1. c.p \in 1..16
          BY <1>3, InTheLine
        <5> QED
          BY <1>3, <2>6, <4>2, <5>1, Places DEF Sound
      <4>4. c.t # FORCE_Y /\ (c.p = 4 => c.t # 0)
        <5>1. c.t # FORCE_Y
          BY <4>3, Places
        <5>2. c.p = 4 => c.t = GPS_course
          BY <4>3, Places
        <5> QED
          BY <5>1, <5>2 DEF GPS_course
      <4> QED
        BY <2>4, <2>6, <4>2, <4>4
    <3> QED
      BY <3>4, <3>5
  <2>7. queue' # <<>> => Len(queue') > 0
    <3>1. queue' \in Seq(Sent)
      BY ReadByteKeeps DEF IInv
    <3> QED
      BY <3>1
  <2>8. queue' = <<>> => Len(queue) = 1
    <3>1. queue' = <<>> => Len(queue') = 0
      OBVIOUS
    <3> QED
      BY <1>1, <3>1
  <2>9. ASSUME queue' # <<>>, Clean(queue[1].m)' PROVE AtBoundary(queue[1])'
    <3>1. 1 \in 1..Len(queue') /\ 1 + 1 = 2
      BY <1>1, <2>7, <2>9
    <3>2. queue'[1] = queue[2]
      BY <1>1, <3>1
    <3>3. AtBoundary(queue[2])
      BY <1>1, <2>1, <2>5, <2>7, <2>9, <3>2 DEF Clean
    <3> QED
      BY <1>5, <3>2, <3>3 DEF AtBoundary
  <2>10. ASSUME queue' = <<>>, kind' = "fix", Clean(m)'
         PROVE  p' \in {1, 4, 7, 12} /\ Got(m, p)'
    BY <1>1, <2>1, <2>6, <2>8, <2>10 DEF insula, Clean, Got, From, readings
  <2> QED
    BY <2>1, <2>9, <2>10 DEF InStep
<1> QED
  BY <1>6, <1>7

LEMMA ReadFieldInStep ==
    ASSUME IInv, Later, InStep, ReadField
    PROVE  InStep' /\ Complete'
<1>1. PICK n \in {2, 4}, field \in Seq(Sent) :
         /\ n = Length[header.v] /\ header.v \in DOMAIN Length
         /\ pc = "wait"
         /\ Len(queue) \in Nat /\ Len(queue) >= n
         /\ pc' = IF header.v = GPS_longitude THEN "ekf" ELSE "loop"
         /\ header' = NoByte
         /\ UNCHANGED <<insula, damaged, mistaken>>
         /\ queue' \in Seq(Sent) /\ Len(queue') = Len(queue) - n
         /\ \A i \in 1..Len(queue') : queue'[i] = queue[i + n]
         /\ Decode(header.v, [hdr |-> header, bytes |-> field, unit |-> "raw"])
  BY FieldTaken
<1>2. pc' # "wait"
  BY <1>1
<1>3. \A k : Clean(k)' => Clean(k)
  BY <1>1 DEF Clean
<1>4. PICK last : last = queue[n]
  OBVIOUS
<1>5. /\ n \in 1..Len(queue) /\ n \in InLine /\ At(n) = last /\ Sound(last)
      /\ last.m \in Int /\ last.p \in Int
  <2>1. n \in 1..Len(queue)
    BY <1>1
  <2> QED
    BY <1>4, <2>1, InTheLine
<1>6. ASSUME Clean(last.m)
      PROVE  \E q \in {4, 7, 12, 17} :
                /\ last.p + 1 = q /\ ~IsFirst(last)
                /\ q # 17 => \E k : k = last.m /\ Got(k, q)'
  BY <1>1, <1>4, <1>6, FieldInPlace
<1>7. ASSUME queue' # <<>>, Clean(queue[1].m)' PROVE AtBoundary(queue[1])'
  <2>1. /\ 1 \in 1..Len(queue') /\ 1 + n \in 1..Len(queue) /\ n < Len(queue)
        /\ n + 1 = 1 + n
    <3>1. Len(queue') > 0
      BY <1>1, <1>7, EmptySeq
    <3> QED
      BY <1>1, <3>1
  <2>2. PICK c : c = queue[n + 1]
    OBVIOUS
  <2>3. queue'[1] = c /\ Sound(c) /\ c.m \in Int /\ c.p \in 1..16
    <3>1. queue'[1] = queue[1 + n]
      BY <1>1, <2>1
    <3>2. n + 1 \in InLine /\ At(n + 1) = c
      BY <2>1, <2>2, InTheLine
    <3>3. Sound(c) /\ c.m \in 1..MaxMessages /\ c.p \in 1..16
      BY <3>2, InTheLine
    <3> QED
      BY <2>1, <2>2, <3>1, <3>3
  <2>4. Clean(c.m)
    BY <1>1, <1>7, <2>3 DEF Clean
  <2>5. Before(last, c)
    BY <1>4, <1>5, <2>1, <2>2 DEF Later, Ordered
  <2>6. CASE IsFirst(c)
    <3>1. c.t = GPS_speed => c.p = 1 /\ c.t \in DOMAIN Length
      BY <2>3, SoundFacts, Headers
    <3>2. c.p = 1 => Got(c.m, c.p)'
      BY <2>3 DEF Got
    <3>3. queue'[1].p = 1 => Got(queue[1].m, queue[1].p)'
      BY DEF Got
    <3> QED
      BY <2>3, <2>6, <3>1, <3>3 DEF AtBoundary, IsFirst
  <2>7. CASE ~IsFirst(c)
    <3>1. c.m \notin damaged
      <4>1. c.m - 0 = c.m /\ 0 \in 0..2
        BY <2>3
      <4> QED
        BY <2>4, <4>1 DEF Clean
    <3>2. /\ c.m = last.m /\ c.p = last.p + 1
          /\ c.t = IF last.t = FORCE_Y THEN 0 ELSE Fix[c.p]
      BY <2>5, <2>7, <3>1 DEF Before, Follows
    <3>3. PICK q \in {4, 7, 12, 17} :
             /\ last.p + 1 = q /\ ~IsFirst(last)
             /\ q # 17 => \E k : k = last.m /\ Got(k, q)'
      BY <1>6, <2>4, <3>2
    <3>4. q # 17 /\ c.p = q /\ c.t = Fix[q]
      BY <2>3, <3>2, <3>3 DEF IsFirst
    <3>5. c.t \in DOMAIN Length
      BY <3>4, Places, Headers
    <3>6. PICK k : k = c.m /\ Got(k, q)'
      BY <3>2, <3>3, <3>4
    <3>7. Got(queue[1].m, queue[1].p)'
      BY <2>3, <3>4, <3>6 DEF Got, From
    <3> QED
      BY <2>3, <3>5, <3>7 DEF AtBoundary
  <2> QED
    BY <2>6, <2>7
<1>8. ASSUME queue' = <<>>, kind' = "fix", Clean(m)'
      PROVE  p' \in {1, 4, 7, 12} /\ Got(m, p)'
  <2>1. Len(queue) = n /\ UNCHANGED <<kind, m, p>> /\ kind = "fix"
    BY <1>1, <1>8 DEF insula
  <2>2. Clean(m)
    BY <1>1, <1>8, <2>1 DEF Clean
  <2>3. BeforeNext(last)
    BY <1>5, <2>1 DEF Later, Newest
  <2>4. m \in Int /\ p \in 1..16 /\ m \notin damaged
    <3>1. m \in Int /\ p \in 1..16
      BY <2>1, Places DEF IInv, TypeOK
    <3>2. m - 0 = m /\ 0 \in 0..2
      BY <3>1
    <3> QED
      BY <2>2, <3>1, <3>2 DEF Clean
  <2>5. CASE p = 1
    BY <2>1, <2>5 DEF Got
  <2>6. CASE p # 1
    <3>1. Begun
      BY <2>1, <2>4, <2>6 DEF Begun
    <3>2. last.m = m /\ last.p = p - 1
      BY <2>1, <2>3, <2>4, <3>1 DEF BeforeNext
    <3>3. PICK q \in {4, 7, 12, 17} :
             /\ last.p + 1 = q
             /\ q # 17 => \E k : k = last.m /\ Got(k, q)'
      BY <1>6, <2>2, <3>2
    <3>4. p = q /\ q # 17
      BY <2>4, <3>2, <3>3
    <3>5. PICK k : k = m /\ Got(k, q)'
      BY <3>2, <3>3, <3>4
    <3> QED
      BY <2>1, <3>4, <3>5 DEF Got, From
  <2> QED
    BY <2>5, <2>6
<1>9. Complete'
  <2> SUFFICES ASSUME pc' = "ekf", Clean(ypos.hdr.m)'
               PROVE  /\ \A x \in {velocity', heading', xpos', ypos'} :
                            From(x, ypos'.hdr.m)
                      /\ xpos'.unit = "metres"
    BY DEF Complete, From
  <2>1. header.v = GPS_longitude
    BY <1>1
  <2>2. ypos'.hdr = header
    <3>1. ypos' = [[hdr |-> header, bytes |-> field, unit |-> "raw"]
                     EXCEPT !.unit = "metres"]
      BY <1>1, <2>1
      DEF Decode, GPS_speed, GPS_course, GPS_latitude, GPS_longitude
    <3> QED
      BY <3>1
  <2>3. Clean(header.m)
    BY <1>1, <2>2 DEF Clean
  <2>4. PICK h \in DOMAIN Length, k \in Int :
           /\ h = header.v
           /\ h = GPS_longitude =>
                 /\ \A x \in {velocity', heading', xpos', ypos'} : From(x, k)
                 /\ xpos'.unit = "metres" /\ ypos'.hdr.m = k
    BY <2>3, FieldInPlace
  <2> QED
    BY <2>1, <2>4
<1> QED
  BY <1>2, <1>7, <1>8, <1>9 DEF InStep


-----------------------------------------------------------------------------
LEMMA FixInit == Init => FixInv
<1> SUFFICES ASSUME Init PROVE FixInv
  OBVIOUS
<1>1. IInv
  BY InitInvariant
<1>2. InLine = {}
  BY DEF InLine, Init
<1>3. Later
  BY <1>2 DEF Later, Ordered, Newest, ForceTaken, Init
<1>4. InStep /\ Complete /\ EstimateFromOneFix
  BY DEF InStep, Complete, EstimateFromOneFix, Init
<1> QED
  BY <1>1, <1>3, <1>4 DEF FixInv

\* Damage is never undone.
LEMMA DamageGrows ==
    ASSUME [Next]_vars
    PROVE  damaged \subseteq damaged' /\ mistaken \subseteq mistaken'
  BY DEF Next, vars, StartMessage, Send, TakeForce, ExpectForce, StoreChar,
         Lose, EnterMode, LeaveMode, GpsDrive, ReadByte, ReadField,
         PropagateEKF, TrackDrive, ClearNewAngle, LoadAngle, TurnServo, isr

\* No other step of the code changes a reading or the message it is from, nor
\* where the reader is.
LEMMA OnlyReadsChange ==
    ASSUME IInv, [Next]_vars, ~ReadByte, ~ReadField
    PROVE  /\ UNCHANGED <<header, velocity, heading, xpos, ypos>>
           /\ pc' = "wait" <=> pc = "wait"
           /\ pc' = "ekf" => pc = "ekf"
           /\ mistaken' = mistaken
  BY DEF Next, vars, StartMessage, Send, Lose, EnterMode, LeaveMode, GpsDrive,
         PropagateEKF, TrackDrive, ClearNewAngle, LoadAngle, TurnServo,
         readings

LEMMA LaterKept ==
    ASSUME IInv, Later, InStep, [Next]_vars
    PROVE  Later' /\ InStep'
<1>1. CASE Send \/ Lose \/ \E k \in DOMAIN Template : StartMessage(k)
  BY <1>1, SendLater, LoseLater, StartLater, InsulaInStep
<1>2. CASE ReadByte
  BY <1>2, ReadLater, ReadByteInStep
<1>3. CASE ReadField
  BY <1>3, ReadLater, ReadFieldInStep
<1>4. CASE \/ \E d \in Modes : EnterMode(d)
           \/ LeaveMode \/ PropagateEKF \/ TrackDrive \/ UNCHANGED vars
  <2>1. /\ UNCHANGED <<kind, m, p, queue, header, damaged, mistaken, coming,
                       velocity, heading, xpos>>
        /\ pc' = "wait" <=> pc = "wait"
    BY <1>4
    DEF EnterMode, LeaveMode, PropagateEKF, TrackDrive, ClearNewAngle,
        LoadAngle, TurnServo, vars, insula, isr, readings
  <2> QED
    BY <2>1, QuietLater, QuietInStep
<1> QED
  BY <1>1, <1>2, <1>3, <1>4 DEF Next, GpsDrive

LEMMA CompleteKept ==
    ASSUME IInv, Later, InStep, Complete, [Next]_vars
    PROVE  Complete'
<1>1. CASE ReadByte
  BY <1>1 DEF ReadByte, Complete
<1>2. CASE ReadField
  BY <1>2, ReadFieldInStep
<1>3. CASE ~ReadByte /\ ~ReadField
  BY <1>3, OnlyReadsChange, DamageGrows DEF Complete, From, Clean
<1> QED
  BY <1>1, <1>2, <1>3

LEMMA EstimateKept ==
    ASSUME IInv, Complete, EstimateFromOneFix, [Next]_vars
    PROVE  EstimateFromOneFix'
<1>1. CASE estimate' = estimate
  BY <1>1, DamageGrows DEF EstimateFromOneFix, Coherent, Whole
<1>2. CASE PropagateEKF
  <2>1. /\ pc = "ekf" /\ estimate' = <<velocity, heading, xpos, ypos>>
        /\ UNCHANGED <<damaged, mistaken>>
    BY <1>2 DEF PropagateEKF, isr
  <2>2. PICK k : k = ypos.hdr.m
    OBVIOUS
  <2>3. CASE ~Clean(k)
    BY <2>1, <2>2, <2>3 DEF EstimateFromOneFix, Clean
  <2>4. CASE Clean(k)
    <3>1. /\ \A r \in {velocity, heading, xpos, ypos} : From(r, k)
          /\ xpos.unit = "metres"
      BY <2>1, <2>2, <2>4 DEF Complete
    <3>2. k \notin damaged \cup mistaken
      <4>1. k \in damaged \cup mistaken => k \in Int
        BY DEF IInv, TypeOK
      <4>2. k \in Int => k - 0 = k /\ 0 \in 0..2
        OBVIOUS
      <4>3. 0 \in 0..2 => k - 0 \notin damaged \cup mistaken
        BY <2>4 DEF Clean
      <4> QED
        BY <4>1, <4>2, <4>3
    <3>3. \A r \in {velocity, heading, xpos, ypos} : Whole(r) /\ r.hdr.m = k
      BY <3>1, <3>2 DEF From, IInv, Readings, GarbageOnlyFromDamage
    <3>4. PICK e : e = <<velocity, heading, xpos, ypos>>
      OBVIOUS
    <3>5. /\ e[1] = velocity /\ e[2] = heading /\ e[3] = xpos /\ e[4] = ypos
          /\ estimate' = e
      BY <2>1, <3>4
    <3>6. Coherent(e)
      BY <3>1, <3>3, <3>5 DEF Coherent
    <3> QED
      BY <3>5, <3>6 DEF EstimateFromOneFix, Coherent, Whole
  <2> QED
    BY <2>3, <2>4
<1> QED
  BY <1>1, <1>2
  DEF Next, vars, StartMessage, Send, Lose, EnterMode, LeaveMode, GpsDrive,
      ReadByte, ReadField, TrackDrive, ClearNewAngle, LoadAngle, TurnServo

\* The reader is back in step after at most two messages: when a message and
\* the two before it lost no byte and none of their payload was taken for a
\* header, an EKF step on its longitude uses its speed, course and latitude
\* too, each decoded whole, and the position in metres.
THEOREM EstimatesAgree == Spec => []EstimateFromOneFix
<1>1. FixInv /\ [Next]_vars => FixInv'
  BY StepKeepsInvariant, LaterKept, CompleteKept, EstimateKept DEF FixInv
<1>2. FixInv => EstimateFromOneFix
  BY DEF FixInv
<1> QED
  BY FixInit, <1>1, <1>2, PTL DEF Spec
=============================================================================
