# UWIRE in TLA+

UWIRE is an autonomous ground vehicle. Its software is a handful of C++ programs
for AVR microcontrollers that talk over serial lines. This directory holds TLA+
models of the parts that carry its logic, the TLC configurations that check them
and theorems checked by TLAPS. Paths in this file are relative to
`src/Arduino Code/`. `PROJECT.json` says, definition by definition, which lines of the source
each part of a module stands for.

Run anything from this directory:

    tlc -workers 2 -config BrainLink_modes.cfg BrainLink
    tlapm RxRing_proofs.tla

## 1. The system and its parts

    GPS receiver --USART3--> insula --Serial1 (Brain)--> cogzilla USART3
    LIDAR  <------USART2---> insula                      cogzilla --USART1--> motor controller
    sonars <--two-wire bus-> insula                      cogzilla --pulse---> steering servo
                                                         cogzilla <-USART2--> camera (CMUcam2)
                                                         console  --USART0--> cogzilla
                                    insula <--radio (VirtualWire)-- cogzilla

**insula** reads the sensors and sends what it finds; **cogzilla** drives. Each
program is one main loop and a few interrupt routines. There is no operating
system and no lock: `cli`/`sei` are not used around shared data. So the
concurrency is a main program that any interrupt can stop between two machine
instructions, two microcontrollers with a serial line between them, and devices
that answer when they like.

| part | state | operations | what makes it correct |
|---|---|---|---|
| Receive rings (`HardwareSerial`, both programs) | `buffer`, `head`, `tail` | interrupt: `store_char`; main: `available`, `read`, `flush` | a queue: nothing skipped, repeated or overwritten; a count that `available` gave can be read |
| GPS feed (insula, USART3 interrupt, `GPS_send`) | `comma`, `GPS_counter`, `GPS_flags`, `GPS_package`, `Serialflag` | a character decoded in the interrupt; poll, send and clear in `loop` | sentences with a fix go out whole, once, in order; a lost character spoils its own sentence only, and the index stays in the buffer |
| Link insula to cogzilla (`GPS_send`, `send_force`, USART3 interrupt, `insula_read`, `track_drive`) | ring of Serial3, force flags, `steering_angle`, the four readings | write a message; take a force in the interrupt; decode in `gps_drive`; turn in `track_drive` | a field is made of the bytes sent for it; readings of an EKF step belong together; no angle is lost |
| LIDAR scan (`URG04LX::supertest`, USART2 interrupt) | `URG_buffer`, `URG_counter`, `flag2` | command, wait, skip the header, parse | the distances parsed are the distances measured; the waits end |
| Two-wire bus (`twi.c`, `Wire`, `SRF08`, `Sonar_calc`) | `twi_state`, `twi_error`, `twi_masterBuffer` | start a transaction, spin, interrupt per bus status | reports are true; a range is one measurement of the sonar asked, made when it was asked; calls return |
| Drive modes (cogzilla `main.cpp`, `vehicle_control.cpp`) | mode, key, `set_angle`, `set_speed`, motor byte, servo pulse | `CLI` and four drive loops | the vehicle stands still outside a mode; the exit key works |
| CMUcam2 client (`cmu_cam.cpp`) | what the camera answered, the packet of each colour, `*_in_view` | command, acknowledgement, retry with a flush, packet | a call takes the answer to its own question; no wait is for an answer that will never come |
| VirtualWire (`vw_send` on cogzilla, `vw_get_message` on insula) | `vw_tx_buf`, decoder, `vw_rx_buf`, `vw_rx_done` | timer interrupts on both sides; send, fetch | what is returned as good was sent, whole, in order, once; noise does not hold the receiver for long |
| MegaServo, MsTimer2 | pulse table, overflow count | timer interrupts | not modelled (libraries) |
| EKF arithmetic | matrices of floats | `PropagateEKF` | not modelled |
| insula console, GPS configuration | strings to the receiver | `check_msg`, `_GPS::parse` | not modelled |
| cerebellum | successor of insula | the same scan, force per region | not modelled |
| Arduino core, thalamus, `lib`, `Applications`, `Fuzzy Neural` | - | - | third-party code, binaries, experiments |

How they interact: the interrupt routines in both copies of `HardwareSerial.cpp`
are not general drivers. They know the protocol of the line they serve, and
write globals that `main.cpp` reads: `GPS_package` and `Serialflag.flag3`
(insula, line 3), `URG_buffer` and `URG_counter` (insula, line 2),
`steering_angle` and `new_steering_angle` (cogzilla, line 3). Everything else
goes through the rings. What is hard about it is therefore

- interleaving: a 16-bit counter loaded a byte at a time, a 32-bit package
  copied field by field, a flag byte shared by two writers;
- delivery: no checksum, no acknowledgement and no resynchronisation on the line
  between the two programs, and payload bytes that can equal a header; a camera
  whose late answer may meet a retry; a radio whose bits flip and slip;
- queues at their limit: a full ring drops the newest byte, a data register of
  two bytes is read twice;
- waits with no time limit: `insula_read`, `distAcq`, `twi_writeTo`,
  `twi_readFrom`, `read_cmu_byte`;
- state that outlives the mode that made it: `local` and `global` angles and
  speeds, half-read messages, a full ring on entry to `gps_drive`.

The hazards with their lines, and the property that watches each, are the
`hazards` list of `PROJECT.json`.

## 2. Modules

| module | models | checked with |
|---|---|---|
| `RxFifo` | what a serial port promises: a bounded queue (abstract) | `RxRing` implements it |
| `RxRing` | ring of `HardwareSerial`, main and interrupt split at each load and store | `RxRing.cfg` |
| `RxRing_proofs` | inductive invariant of the ring, and its refinement of `RxFifo` | tlapm |
| `GpsFeed`, `MCGpsFeed` | insula's NMEA decoder, poll, `GPS_send`, `setSerial`, lost characters | `MCGpsFeed.cfg`, `MCGpsFeed_gga.cfg` |
| `GpsFeed_proofs` | types, the index into `GPS_buffer`, what `flag3` vouches for, what goes out | tlapm |
| `BrainLink` | the link, both ends, with `gps_drive` and `track_drive` | `BrainLink_damage.cfg`, `BrainLink_modes.cfg`, `BrainLink_alias.cfg` |
| `BrainLink_proofs` | no steering angle is lost; types; a field is read from the bytes sent for it; the readings of an EKF step are one fix | tlapm |
| `LidarScan`, `MCLidarScan` | `supertest` with its interrupt | `MCLidarScan.cfg`, `MCLidarScan_early.cfg` |
| `LidarScan_proofs` | types and bounds; the header search; the distances parsed | tlapm |
| `TwiMaster`, `MCTwiMaster` | `Sonar_calc` down to the TWI interrupt | `MCTwiMaster_range.cfg` |
| `TwiMaster_proofs` | types and reports for any transactions; the range for those of `SRF08` | tlapm |
| `DriveModes` | console, four drive loops, vehicle | `DriveModes_modes.cfg` |
| `DriveModes_proofs` | an idle vehicle stands still; types; the notches of the speed | tlapm |
| `CmuCam`, `MCCmuCam` | the camera's client against a camera | `MCCmuCam.cfg` |
| `CmuCam_proofs` | types; waits; a whole sign; a call's own answer | tlapm |
| `Datagram` | what a radio without acknowledgement promises (abstract) | `VirtualWire` implements it |
| `VirtualWire`, `MCVirtualWire` | transmitter, noise, decoder and `vw_get_message`, bit by bit | `MCVirtualWire.cfg` |
| `VirtualWire_proofs` | the receiver lets go in time; types; what is heard, what is fetched, `Datagram` without faults, damage refused | tlapm |

The modules compose at the queue. `RxRing` is proved to be an `RxFifo` whatever
the interrupt does, so `BrainLink` (`queue`), `DriveModes` (`keys`) and `CmuCam`
(`stream`) use a sequence with atomic append and take, and pay for no pointers.
`DriveModes` sees the link and the camera as calls that may be kept waiting;
`BrainLink` and `CmuCam` show when they are. The two abstract specifications are
`RxFifo`, with `queue <- pending`, and `Datagram`, with `sent <-
SubSeq(Messages, 1, nsent)`.

Operators that stand before a definition under a name like `StoreCharNoTest` or
`ReadFieldEarly` are faulty variants of the definition below them. No
specification uses them. Each is what `PROJECT.json` puts in the place of the
real one to see that the property named there notices.

### RxRing
`StoreChar(b)` is `store_char`, whole: nothing interrupts an interrupt. The main
program's calls are one action per load or store of a shared variable:
`AvailableLoad`, `AvailableReturn`; `ReadEmpty` or `ReadTest`, `ReadFetch`,
`ReadAdvance`; `FlushLoad`, `FlushStore`. `head` and `tail` are 16 bits wide and
not volatile, yet always below 128 (cogzilla) or 256 (insula): their high byte
is 0, so a load of two bytes gives what the load of one would. The accesses are
taken in the order of the program text, as the loops around these calls, which
cross function calls, make the compiler do. The variables `pending` and
`promised` only record.

### GpsFeed
`Receive` is the USART3 interrupt, one character class at a time: `$` resets
(`Dollar`), `,` (written COMMA) counts (`Comma`), line feed ends (`EndOfPacket`), and anything
else is status (`Status`) or a digit (`Digit`) by the number of commas before
it. `Poll`, `LoadLow`, `LoadHighAndWrite` and `ClearFlag` are the check of
`flag3` in `loop` and `GPS_send`, which copies a field of several bytes without
disabling the interrupt: low half and high half are loaded in two steps.
`LoseCharacter` drops any character on the line, `$` and `,` included. `Buffer`
moves `GPS_counter`, which only a `$` resets; when it is past `BufferSize`
(`Overrun`) the byte has been written outside `GPS_buffer` and the interrupt is
not followed further. `Size` is the width of the fields of `GPS_package`, 16 and
32 bits: a damaged sentence can make a number wrap (`Digit`). `comma` has 8 bits
and is never more than `GPS_counter`, which `TypeOK` says, so it needs none.

`SetSerialLoad` and `SetSerialStore` are the read-modify-write of `Serialflag`,
a byte of bit fields that `flag2` (main) and `flag3` (interrupt) share. Three
places of the loop call `supertest`, which does this before and after its scan:
the loop itself while LIDAR detection is on, and the command `g` from the
console or from the radio; `back` is where the call returns to (`After`).
`Console` is any other command, of which `h` toggles the detection.

What a sentence says is defined without the decoder: `Text` gives the places of
a field's characters, `Spelled` the number they spell in base 10, `Says` the
package. `MCGpsFeed` evaluates `Spelled` against the sum of the digits, each
times its power of ten (`SpelledIsNumber`). `SentenceAssumption` is the form of
a sentence: one `$`, in front, and one line feed, at the end.

### BrainLink
`StartMessage` and `Send` are insula's main loop writing a fix or a force.
`TakeForce`, `ExpectForce` and `StoreChar` are the three ways through cogzilla's
USART3 interrupt. `ReadByte` and `ReadField` are `insula_read` (the header, and
the decoding after the wait); `PropagateEKF` is what `gps_drive` does when
`new_gps_data` is up. `ClearNewAngle`, `LoadAngle` and `TurnServo` are the
hand-over in `track_drive`, where the angle, a float of 4 bytes, is loaded a
half at a time. A byte carries, next to its value, which message it belongs to,
its place there and the header it was written as: the code never looks at those,
the properties do. `EnterMode` and `LeaveMode` may happen at any time, so a mode
may find half a fix in the ring, or a ring that filled up while no mode read it.
`gps_drive` has a `Serial3.flush` in code that never runs
(`cogzilla/src/main.cpp:336-349`, under `if(false)`), so nothing empties the
ring.

### LidarScan
`Arrive` puts a byte in the USART's receive register, a queue of two.
`FillBuffer` is the interrupt while `flag2` is up. It reads `UDR2` twice
(`HardwareSerial.cpp:134` and `139`); a second read finds the next byte if there
is one and the same byte if there is none. `SetSerialOff`, `LaserOn` and
`WriteCommand` start a scan, `WaitHeader`, `SkipHeader`, `WaitScan` and `Parse`
are `distAcq`, and `SetSerialOn` ends it. `LoadLow` is the first half of a load
of `URG_counter`. After an interrupt an AVR executes one instruction before it
takes another, so at most one interrupt falls between the two halves, and the
split matters only when it carries, at a low byte of 255: `LoadLow` exists only
there. The reply has the real length of 588 bytes.

### TwiMaster
`BecomeMaster` is the first half of `twi_writeTo` and `twi_readFrom`, `Spin`
their wait, `ReturnWrite` and `ReturnRead` their results as `Wire` and `SRF08`
pass them on. `SlaveAddress`, `Transmit`, `TransmitEnd`, `Receive`, `ReceiveEnd`
and `Fail` are the TWI interrupt by bus status. The sonars are part of the model
(a command of the right bytes starts a measurement, whose number is kept modulo
3), and each keeps the register it answers from: the first byte of a write
selects it (`Take`), each byte read moves it on (`Give`). The master
acknowledges one byte more than it was asked for, because `TWI_vect` counts the
bytes in the buffer and not the one it is about to ask for (`twi.c:357`). That
byte goes to the buffer too, so a read that fills the buffer would write one
past its end; the code makes none, and `Read` is strictly shorter than the
buffer for that reason. Insula is the only master and nothing addresses it as a
slave.

### DriveModes
`CLI` is `loop` with `CLI`; `StartByHand`, `DriveByHand`, `NoKey`, `Look`,
`Flush` are `rc_drive` and `camera_check`; `StartTrack`, `UseCam`, `Track` are
`track_drive`; `StartGps`, `DriveByGps` are `gps_drive`; `Leave` is their common
end. `pc = "away"` is a call of `track_stop_sign` or `insula_read`: both wait
for bytes with no limit. The first may retry for ever (`CmuCam`), and at this
commit the camera's set-up is in a comment of `setup()`
(`cogzilla/src/main.cpp:527`); the second is stuck once a message was damaged
(`BrainLink`). Speeds and angles are numbers, and `SpeedByte` and `Pulse` are
the conversions of `vehicle_control.cpp` and `MegaServo.cpp` with C's division
and the width of the byte.

### CmuCam
`Answer` and `Refuse` are the camera, which takes its commands one after the
other and answers when it likes: an acknowledgement, for a request to track a
packet of ten bytes, and the prompt. One byte of an answer may be lost; that no
answer loses two is an assumption, which `InViewIsWhole` rests on. `stream`
is everything answered and not read, in the ring or still on its way, so a flush
drops any number of bytes from its front (`Flushed`): that is how a late answer
races a retry. `Track` is the call of `track_stop_sign` or `track_red_light`;
`Want` sends a command and `AckBegins`, `AckRest` and `Retry` are `ack_recieved`
and the loops around it. `Hunt`, `Kind` and `Data` read the packet; `Broken` and
`Whole` are its two ends. Only the first byte of a packet is 255, as the client
takes for granted when it looks for one (`CameraAssumption`). `setup_cmu_cam` is the start of the program, and
`FlushCam` the callers' flush. A byte carries the packet it belongs to, which
the code never sees.

### VirtualWire and Datagram
A step is one bit period. `Transmit` is the sender's half of the timer
interrupt, and `vw_pll` what the receiver does with a bit it has decided for:
`StartSymbol`, `Collect`, `Drop` or `Store`. Symbols, header and check sequence
are the real ones, so what a flipped bit turns a message into is what it would.
The eight samples of a bit by which the phase locked loop decides are abstracted
to their outcomes (`Fault`): the bit, its opposite, no bit or the bit twice.
`vw_get_message` is split where the interrupt can come in between: `Test`,
`Length`, `Copy`, `Clear`, `Check`. It takes less than a bit period (`InTime`),
so the interrupt falls at most once into it. `Datagram` says what is left of a
promise: messages arrive whole, in order and once, or not at all.

## 3. What the runs show

States are distinct states found by TLC.

| run | instance | states | shows |
|---|---|---|---|
| `rx_ring` | 4 slots, 3 byte values | 261 468 | In every interleaving the slots from `tail` to `head` are the bytes not yet taken (`WindowIsPending`), `available`'s answer can be relied on (`PromiseKept`), and the ring is the queue of `RxFifo` (`ImplementsFifo`). Four slots wrap and fill; the proofs cover the other sizes. |
| `gps_feed` | 3 RMC sentences, the second without a fix, one lost character, fields of 7 and 8 bits | 1 584 036 | `flag3` vouches only for a whole package (`FlagMeansComplete`); what goes out are fixes, whole, in order, not twice, and a lost character or an overlap spoils only its own sentences' messages (`ForwardsFixes`); none is lost (`EveryFixForwarded`); the decoder writes past its buffer only while it has missed a `$` (`StaysInBuffer`); numbers stay in their fields (`TypeOK`). Three sentences are the least in which one without a fix stands between two with one. The buffer holds a sentence and a half, as 128 bytes do. The numbers of a sentence fit the fields and two fields run together by a lost comma do not, as with 16 and 32 bits. |
| `link_damage` | ring of 4, payload values 0, 161 and 242, 4 messages, 2 accidents | 2 639 623 | `insula_read` misreads only fields of messages that were damaged or held a payload byte it took for a header (`GarbageOnlyFromDamage`), and is in step again after two messages at most (`EstimateFromOneFix`). The ring holds less than a field with its header, so it overflows easily. |
| `link_modes` | ring of 5, 3 messages, 1 accident, modes gps and track | 87 908 | No steering angle is lost (`NoAngleLost`); without damage a wait of `insula_read` ends (`ReaderUnblocks`). Five is the least capacity with which a latitude and its header fit together. |
| `lidar_scan` | reply of 588 bytes over the bytes of the scan before | 139 220 | Without a torn load the distances are the sensor's (`ParsedIsMeasured`); the header search ends right after the time stamp (`HeaderFound`); a scan ends (`ScanEnds`). |
| `drive_modes` | 8 keys, 5 typed, 3 ahead, angles 900 and 1799 | 282 928 | The vehicle stands still outside the modes (`StoppedWhenIdle`); driving by hand starts from rest and goes by notches (`OneNotch`); a typed exit key ends the mode, except in `rc_drive`, which flushes it, and unless a call never comes back (`ExitKeyEnds`). Five keys enter a mode, change speed, leave, enter another and act. |
| `twi_range` | two sonars, 3 faults | 47 833 | `twi_writeTo` reports truly (`ReportIsTrue`); a range is two successive bytes of the sonar asked, of the measurement its call began unless a write was refused, or nothing (`RangeIsOneMeasurement`); calls return (`CallsReturn`). Deadlock is checked. Three faults fail a write, a read and the attempt after. |
| `cam` | two colours, 2 calls, 3 sends of a command, 1 accident; a packet of the letter A and one that breaks off at a colon | 532 256 | A call takes only the answer to its own question, unless a packet broke off (`AnswerIsFresh`); a stop sign in view is one whole packet (`InViewIsWhole`); the client never waits while nothing is to come (`NoVainWait`); only endless retries keep a call from ending (`CallEnds`). Two calls are the least in which an old answer can meet a new question. The packet of A's looks like an acknowledgement to the client. |
| `radio` | 2 messages, a receive buffer of 8 bytes, 2 faults | 2 352 056 | What `vw_get_message` returns as good are messages sent, whole, in order, once (`ImplementsDatagram`); a message that meets a free receiver and no fault is heard (`HeardWhenFree`); without faults none vanishes uncounted (`NoneVanishes`); the receiver lets go in time (`ReceiverIsReleased`). Deadlock is checked. With two faults one can damage the count and another the bytes after it. |

`CHECK_DEADLOCK FALSE` stands in the runs with a bounded input (sentences,
messages, keys, one scan): when it is used up, the model stops. `rx_ring`,
`twi_range` and `radio` run for ever and are checked for deadlock.

Some properties have a condition that names an event the code cannot prevent;
history variables record it: `overlapped` (the sentences that began before the
main loop was done with the one before; the receiver sends one a second),
`raced` (the sentences of which a character came between `setSerial`'s load and
store, with another `flag3` for a result than the one stored), `damaged` (a byte
of the message was lost, refused or stolen), `mistaken` (a payload byte was
taken for a header), `torn` (a load of `URG_counter` gave a value it never had),
`refused` (a write of this `range()` failed), `damaged` in `GpsFeed` (sentences
that lost a character; `begun` is the one whose `$` came last), `accidents` in
`CmuCam` and `faults` in `VirtualWire`. A property with a condition says that
nothing *else* goes wrong. The conditions are needed, and what TLC finds without
them is worth knowing:

- without `~refused`, a refused choice of register makes a sonar answer with its
  version and its light sensor, and `range` takes them for a distance;
- without `accidents = 0`, the packet of an earlier call, left over after a
  refused command, is taken for the answer to this one: a stop sign for a red
  light;
- without the condition on `packets`, a packet that breaks off at a colon leaves
  its rest in the ring. An A in it acknowledges the next command, the client is
  then one answer behind, and with a third call TLC finds one that accepts the
  packet of an earlier call;
- without `overlapped`, a sentence that begins while `GPS_send` is at work blanks
  the package: the message mixes two sentences. It excuses one message for each
  of the two (`Trodden`), and nothing before or after;
- without `raced`, a `flag3` that the last character of a sentence raises inside
  `setSerial` is stored over, and the fix is lost. Only `FlagMeansComplete` and
  `EveryFixForwarded` need it, and only for that sentence: a flag that
  `setSerial` puts back never makes a false message (`ForwardsFixes`);
- without `damaged`, a lost `$` has the sentence before forwarded once more, and
  a lost comma moves the fields that follow by one, which nothing detects.

`ended`, `packets` (`CmuCam`), `heard`, `missed`, `held` and `due`
(`VirtualWire`) and `pending` only record what happened, for the properties to
compare with.

Bounds are constants (`MaxMessages`, `MaxAccidents`, `MaxKeys`, `MaxAhead`,
`MaxFaults`, `MaxLost`, `MaxCalls`, `MaxSends`) or the length of `Feed` and
`Reply`; `accidents` and `faults` count the misfortunes so that TLC explores
every placement of a few rather than endless damage. `link_damage` was also run
with three accidents: after five minutes and a half without a violation the
search was stopped, not finished.
The payload values are 0 (nothing), 161 (equal to `GPS_speed`, a header for
`insula_read`) and 242 (equal to `FORCE_X_POS`, a header for the interrupt): the
code distinguishes no others but the remaining headers, which act alike. Old
bytes in `URG_buffer` are a scan that differs in its last distance, the one a
wait that ends early gets wrong.

### Disagreements found

Three runs end in a violation, each of one property that a comment of the source
states. The traces are the shortest TLC finds.

| run | the source says | what happens |
|---|---|---|
| `link_alias` | `insula_read(); //for gps readings..` (`cogzilla/src/main.cpp:385`) | `FORCE_Y` and its value are left in the ring; a value of 161 is taken for `GPS_speed` and the bytes after it become the velocity. The line damaged nothing. |
| `gps_gga` | `//set 'bad status' flag` (`insula/src/arduino/HardwareSerial.cpp:205`) | The flag is set by a character other than A. An empty field has none: a GGA sentence without a fix is forwarded. |
| `lidar_early` | `incoming data is always 588 bytes` (`insula/src/URG04LX.cpp:82`), awaited before parsing | Between 0x01FF and 0x0200 a split load gives 0x02FF, the wait ends 73 bytes early and bytes of the old scan are parsed. |

Three more were met while modelling and have no run:

- With `Latency = 2` in `LidarScan` the interrupt may be late by a byte. Its
  second read of `UDR2` then takes the next one and the first is dropped: the
  reply is one byte short of the 588 that `URG04LX.cpp:82` speaks of.
- `cogzilla/src/vehicle_control.h:18` says `64 full forward, -64 full backward`.
  Nothing limits the speed; after 39 times `w` the byte has wrapped to almost
  full backward. This is also why `OneNotch` is a theorem for up to twelve keys
  and not for any number.
- `MegaServo::write` takes a value below 200 for degrees (`MegaServo.cpp:246`).
  The angle key `d` reaches it in 45 steps, and the servo turns to the other
  side.

## 4. Fairness

- Interrupts (`Receive`, `Isr`, and `Send`, which includes the interrupt it
  causes) are weakly fair: the hardware raises them for what has come, and no
  code disables them for ever. `Arrive` and the bus statuses are fair because a
  sensor sends what it was asked for and the TWI hardware finishes each byte;
  *which* status it ends with is free.
- The main program (`Main`, `GpsDrive`, `TrackDrive`) is weakly fair: it is the
  only program, spins or goes on, and returns from every interrupt. In `GpsFeed`
  this stops short of one step, the end of a scan: `pc = "scan"` stands for
  `distAcq`, whose two waits have no limit (`URG04LX.cpp:63`, `82`). That they
  end when the sensor sends its whole reply is `ScanEnds` of `LidarScan`, where
  `Arrive` is fair.
- In `CmuCam` the camera's `Answer` is weakly fair, because it answers in the
  end what it was sent, and so is `Client`, which reads what has come. Nothing
  makes a flush fall well, so `CallEnds` allows the retry that never stops
  (`sends = MaxSends`). `VirtualWire` states no fairness: its properties are
  about what has happened, and a radio promises nothing else.
- Not fair: keys, the next message, the next sentence, entering and leaving a
  mode, accidents, faults, the end of a scan in `GpsFeed`, and `ComeBack`, the
  return of a call that waits for the camera or for insula. A liveness property
  never depends on one of them: `EveryFixForwarded` starts from a sentence
  begun and allows the scan that never ends, which leaves the fix in the package
  with its flag up (without that exception TLC finds it violated), and
  `ExitKeyEnds` allows the call that never comes back.

## 5. What is proved

| theorem | statement | argument |
|---|---|---|
| `RxRing_proofs!TypeCorrect`, `WindowCorrect`, `PromiseCorrect` | `Spec => []TypeOK`, `[]WindowIsPending`, `[]PromiseKept`, for every `Size >= 2` and set of bytes | `IInv` is inductive |
| `RxRing_proofs!RingImplementsFifo` | `Spec => Fifo!FifoSpec` with `queue <- pending` | initial state and each action map to a step of `RxFifo` or to none, under `IInv` |
| `BrainLink_proofs!AngleNeverLost` | `Spec => []NoAngleLost`, for every capacity, payload, number of messages and accidents | `AngleInv` is inductive |
| `BrainLink_proofs!TypeCorrect`, `FieldsAreWhole` | `Spec => []TypeOK`, `[]GarbageOnlyFromDamage`, for the same | `IInv` (the line is in order) is inductive |
| `BrainLink_proofs!EstimatesAgree` | `Spec => []EstimateFromOneFix`, for the same | `FixInv` (what insula has read and what is on the line, from the last damage on) is inductive |
| `DriveModes_proofs!IdleIsStopped` | `Spec => []StoppedWhenIdle`, for every set of keys and number of them | `StoppedWhenIdle` is inductive |
| `DriveModes_proofs!TypeCorrect` | `Spec => []TypeOK`, for every integer the link brings for an angle | `TypeOK` with numbers for the settings is inductive |
| `DriveModes_proofs!OneNotchAtATime` | `MaxKeys <= 12 => (Spec => [][...]_vars)`, which is `OneNotch`: a mode by hand starts from rest and a key moves the motor by one notch | the speed is at most five for each key typed |
| `DriveModes_proofs!NotchWhileInRange` | the same step property, for any number of keys, from any speed whose byte does not wrap | that step alone |
| `TwiMaster_proofs!TypeCorrect`, `ReportCorrect` | `Spec => []TypeOK`, `[]ReportIsTrue`, for every script of transactions that fit the buffer, any length of it and number of faults | `IInv` (the transaction under way) is inductive |
| `TwiMaster_proofs!RangeCorrect` | `IsRange => (Spec => []RangeIsOneMeasurement)`: for the transactions of `SRF08::range`, any buffer that holds them, any number of faults | `RInv`, on top of the `IInv` above, is inductive |
| `LidarScan_proofs!TypeCorrect` | `Spec => []TypeOK`, for both latencies and every reply of the sensor's layout | the bytes received and to come are the reply's |
| `LidarScan_proofs!ScanIsTheSensors`, `StopsAtTheTimeStamp` | `Latency = 1 => (Spec => []ParsedIsMeasured)`, `[]HeaderFound` | nothing is lost; what is parsed is a prefix of what the sensor sent |
| `CmuCam_proofs!TypeCorrect`, `SignIsWhole` | `Spec => []TypeOK`, `[]InViewIsWhole`, for every set of packets, refusals and losses | what is on the line is pieces of answers, in order |
| `CmuCam_proofs!NoWaitInVain`, `OwnAnswer` | `Spec => []NoVainWait`, `[]AnswerIsFresh` | what the client wants is on the line or asked for |
| `GpsFeed_proofs!IndexInBuffer` | `Spec => []StaysInBuffer`, for every buffer, sentences that fit it, and losses | what is buffered and what is to come fit |
| `GpsFeed_proofs!TypeCorrect` | `Spec => []TypeOK`, for every feed, widths that its numbers fit, and losses | `Typed` is inductive |
| `GpsFeed_proofs!FlagIsTrue`, `FixesForwarded` | `AllRmc => (Spec => []FlagMeansComplete)`, `[]ForwardsFixes`: for every feed of RMC sentences, any length, digits, losses, overlaps and splits of `setSerial` | the package is what the part of the sentence that was decoded spells |
| `VirtualWire_proofs!AlwaysReleased`, `TypeCorrect` | `Spec => []ReceiverIsReleased`, `[]TypeOK`, for every size of buffer, messages and noise | `held` counts the bits collected |
| `VirtualWire_proofs!FreeHears` | `VW_MAX_MESSAGE_LEN <= 203 => (Spec => []HeardWhenFree)`, for all messages and faults | from the start symbol on the decoder holds what the air has carried |
| `VirtualWire_proofs!NothingVanishes` | `Spec => []NoneVanishes`, for every size of buffer and all messages | while no fault has come the receiver follows the transmitter, and the bytes fetched are a message's |
| `VirtualWire_proofs!RadioImplementsDatagram` | `Spec /\ [](faults = 0) => ImplementsDatagram`, for the same | initial states and steps map to those of `Datagram`, under the invariant above |
| `VirtualWire_proofs!DamageIsRefused` | a `Check` step returns nothing when one byte of the frame, or two neighbouring ones, are not what was sent, for every message | no step of `vw_crc` maps two values to one |

*RxRing.* None of the properties is inductive. A step in the middle of a call
uses what earlier loads saw, so `Midway` says what those still mean while the
interrupt goes on: past the test of `read` the ring cannot become empty, the
byte fetched is still the one at `tail` because `store_char` never writes there,
`flush` holds the current `tail` because only the main program moves it, and the
count from the `head` that `available` loaded can only be too small. `IInv` is
`TypeOK`, `WindowIsPending`, `PromiseKept` and `Midway`. The arithmetic modulo
`Size` (`Count`, `Advance`) is settled once in lemmas. Assumptions:
`SizeAssumption` (at least two slots) and `ByteAssumption` (read's -1 is no
byte).

*BrainLink.* `NoAngleLost` speaks of the moments between two turns of the loop.
The strengthening adds what holds inside a turn: after the flag has been
cleared, if it is still down then the angle loaded is the newest one
(`HalfLoaded`); and the place in the code fits the mode (`PlaceOfMode`), so that
leaving a mode never abandons half a turn. The order in `track_drive` (clear,
then load) is the reason; the mutant that clears last loses an angle.

*BrainLink, the fields.* `insula_read` knows no boundary between messages, so
the invariant speaks of the whole line: the header it waits with, followed by
the queue. `Contiguous` says of each byte in it that it stands where its message
has it (`Sound`) and that, if its message is undamaged and goes on, the next
byte in the line is the next of the message, or it is the last in the line and
insula is about to write that next byte (`Unbroken`). `Waiting` says that the
header waited with is one, or its message is marked as mistaken. A field of an
undamaged message that is decoded is then the stretch of line after its header.
The work is in `Send`, with its three ways through the interrupt, and in the
decoding, which takes 2 or 4 bytes off (`Shift`). `BoundsAssumption`: payload
values are bytes, the bounds are numbers.

*BrainLink, one fix.* For `EstimateFromOneFix` the line must be in order
backwards too: before the byte of an undamaged message stands the byte before it
or the end of the message before (`Ordered`), the same at the end of the line
for the byte that insula writes next (`Newest`), and the value of an undamaged
force goes to the interrupt (`ForceTaken`). `Clean(k)`: neither `k` nor the two
messages before it are damaged or mistaken. `InStep` says that the reader enters
a clean message at its beginning and its fields at their headers, with the
readings of the fields it has passed (`Got`). Two messages are what it takes: a
field of a damaged message waits for four bytes at most, and each message after
it brings the ring at least two. `Complete` is what has been reached when the longitude comes.

*DriveModes.* Only `Leave` makes the mode idle, and it stops the motor; no
action of an idle mode writes to it. The proof is one step per action of `Next`.
For `TypeOK` the invariant adds that the settings are numbers: with C's division
and a byte's width, `SpeedByte` then gives a byte for every one of them. For the
notches it adds that the motor has been told the speed in `local` (`Told`) and
that this is at most five for each key typed (`Notches`). A byte tells speeds
apart up to 63 forward and backward; the thirteenth key may be past that, hence
`MaxKeys <= 12`, and `NotchWhileInRange` for any number of keys.

*TwiMaster.* While a write is under way, what the sonar has taken is the first
part of the data, as long as the index says until something fails
(`WriteUnderWay`); an error is recorded only with the bus given back
(`UnderWay`). So at the end, no error means all of it. For a read, the index
stays below the length asked for until the last byte, one byte more than asked
(`ReadUnderWay`): this is where `ScriptAssumption` needs reads shorter than the
buffer. `RangeCorrect` follows one `range()`: a command that was not refused
makes the measurement fresh (`Measuring`), a choice that was not refused leaves
the register at the range (`Selecting`), and then byte `k` in the buffer is what
that register and the `k` after it hold (`Reading`, where `Base` computes the
first register back from the index).

*LidarScan.* `Typed` holds for both latencies: the sensor sends what it was
asked for (`Counted`), and the header search, which trusts a counter that may be
torn, is at most two bytes ahead of the true one (`Ahead`), so it reads no byte
beyond `URG_buffer`. `Whole` is about `Latency = 1`, where the interrupt's two
reads of `UDR2` see the same byte: buffer, register and line together are the
reply (`NothingLost`), the characters since the last line feed are a line of it
(`LineSoFar`), and the distances parsed so far are the first of the sensor's,
with the parser at the next or at the check sum before it (`Decoded`). That the
header has one line of five characters (`HeaderAssumption`) makes the search
stop there and nowhere else. `ReplyAssumption` and `DataAssumption` are the
layout of the sensor's reply.

*CmuCam.* `Wanted`: without accidents, when every command is answered, what is
left to read is at least what the client will wait for (`Enough`). A flush
cannot break that, because only a retry flushes inside a call and it sends a
command again. `Intact`: behind the first byte of a packet come eight of its
bytes, and then the ninth or the prompt, whatever single byte was lost
(`Leads`); so what `track_stop_sign` copies once it has found that byte is one
packet. `Fresh`: without accidents or packets that break off, a byte is known by
its distance from the end of the line (`Echoes`), and since flushes take from
the front only, so is the packet that answers the last request (`Preparing`,
`Requesting`, `Answered`).

*VirtualWire.* `held` is 12 bits for each byte stored and the bits of the next
one (`Collecting`). The first byte is the only one that says how long the
message is, and it has been tested by the time it counts, so noise may lie about
the length but never beyond the buffer; that is also why `Store` writes inside
`vw_rx_buf` (`TypeCorrect`). `LengthAssumption`: the messages are bytes and fit
the buffer, and its size is a byte.

What a message becomes on the air and in the decoder is settled first, without
any state. `vw_rx_bits` is the last twelve bits of the air (`Seen`,
`ShiftedIn`), so at the end of a byte it holds the two symbols, and
`vw_symbol_6to4` gives its halves back (`SymbolIsRead`, `PairIsRead`,
`ByteRead`). In the header the decoder sees the start symbol where it is
(`StartFound`) and nowhere else (`NoFalseStart`), except at the second training
bit, together with ten bits that noise left in the register. The check sequence
over a frame that ends with the complement of its own is the good one
(`ComplementIsGood`, `CheckAfter`), and that of no bytes at all is not
(`NothingIsNotGood`).

`FreeHears` assumes nothing about the state in which a transmission begins but
what `due` says: the receiver is free. `Tracked` is the strengthening: while
`due` is more than `heard` the register holds what the air has carried
(`OnAir`); a receiver that a false start symbol has started counts the bits from
there (`InHeader`); and behind the start symbol the bytes stored and the bits of
the next one are as many as were sent (`InFrame`). The false start is where the
hypothesis comes from. The byte after it is made of training bits, 204
(`FalseByte`). A buffer of up to 203 bytes drops it as a count that makes no
sense, in time for the real start symbol. With `VW_MAX_MESSAGE_LEN = 204` and
3296 in the register at the start, as noise may leave it, TLC finds
`HeardWhenFree` violated; with 203 it holds, and the code has 30.

`NothingVanishes` and the refinement speak of the states without a fault only
(`Faultless`); there the register is too empty for that false start. The
receiver is where the transmitter is (`Following`). What it has stored when a
message is over, and what `vw_get_message` has copied, is that message
(`Fetched`, `Whole`), unless the successor's start symbol came during the fetch:
it has emptied the buffer, and the check sequence of nothing is not good. What
was returned, waits and was missed add up (`Balanced`), and what was returned is
picked from the messages in rising order, up to `heard` (`Ordered`, `Picks`),
which makes it the subsequence that `Datagram` asks for.

`DamageIsRefused` is about one step with a fault behind it. The high byte of an
entry of the table says which entry it is (`TableHigh`), so a step of the check
sequence can be undone (`UpdateKnown`): it keeps two sequences apart when the
bytes that follow are the same, and keeps two pairs of bytes apart when the
sequence before them is the same (`UpdateSame`, `UpdatesSame`). A flipped bit on
the air damages one byte. When that is the count, the receiver collects another
number of bytes, and when a bit was lost or doubled, all that follow are
different: of those the check sequence finds most, not all.

*GpsFeed.* Once the `$` of the sentence on the line has come, the characters
buffered and those to come are no more than the sentence has (`Fits`).
`FeedAssumption`: no sentence is longer than the buffer, as none of NMEA 0183
is. Losses only shorten. `SizeAssumption`: the numbers of an undamaged sentence
fit their fields, from the first digit on, so there the remainder in `Digit` is
the number itself; only damage wraps.

What `flag3` vouches for takes four parts. A sentence that lost nothing is
followed from its `$` on (`Followed`). Of the sentence whose `$` came last,
`begun`, the package holds what the characters that have come spell (`Decoded`);
when the next sentence loses its `$`, its characters stand behind the ninth
comma of `begun` and change nothing. That is what the hypothesis `AllRmc` is
for: every sentence has a status and nine commas. The GGA sentences of
`gps_gga` do not meet it, and for them `FixesForwarded` would be false. The flag goes
up with the last character and down with the first of the next (`Vouched`),
unless a `setSerial` that a character of this very sentence has split stores
another one.

For what goes out, a sentence that does not tread on the one before stands
complete, and still, in the package as long as the main loop is `Busy` with it
(`Orderly`). The message that `GPS_send` ends then has a sentence behind it
(`Delivers`): the complete one, or one of two that overlap. `Free` is the last
sentence that no later message can come from; the origins of the messages sent
rise up to it (`Origin`, `Forwarded`). `Spelled` is a recursive function;
that it exists is proved from a least counterexample (`SpelledByOne`, with
`Least` from the well-foundedness of the natural numbers), since the library's
induction theorems, which take an operator, cannot be used.

Each inductive invariant was first checked by TLC: those of `CmuCam`,
`LidarScan`, `GpsFeed`, `DriveModes`, `RxRing` and the bus on the instances of
their runs, `FixInv` of `BrainLink_proofs` on that of `link_damage`, and its
`IInv` also with 3 messages and both modes (6 174 384 states); and `Awaited`,
`Calm` and `Ordered` of the radio on the instance of its run.

Only model-checked: all liveness (`ExitKeyEnds`, `EveryFixForwarded`,
`ReaderUnblocks`, `ScanEnds`, `CallsReturn`, `CallEnds`), since the prover does
not do fairness or `ENABLED`; and `ImplementsDatagram` with faults. That cannot be a
theorem for every `MaxFaults`: enough faults turn a message into another one
with a right check sequence, and nothing says that one fault in the count, or
one slip, never does for some messages. So TLC
shows it for the messages and the two faults of the run, and the theorem for
none. The remaining
assumptions on constants (`KeysAssumption`, `MaxAheadAssumption`,
`LatencyAssumption`) say what a bound may be. TLC evaluates all of them in the
runs, with `FeedIsRmc` for `AllRmc`.

## 6. What is taken for granted

- The programs are built by avr-gcc in the project's Eclipse configuration:
  `char` is unsigned, `int` has 16 bits, loads of two bytes take the low byte
  first, and a bit field is changed by load, or/and, store.
- An interrupt routine runs to its end; `SIGNAL` handlers leave interrupts
  disabled.
- Single steps of the main program that touch no shared state are not
  distinguished.
- `Serial.print` and `write` always finish; what they wait for is the
  transmitter alone.
- A call of `vw_get_message` takes less than a bit period of the radio.
- When `vw_get_message` copies more than `vw_rx_buf` has, the byte past its end
  is an arbitrary one (0); after an overrun of `GPS_buffer` nothing is said of
  the memory behind it.
- The camera, the sonars, the LIDAR and the receiver are external: the models
  give them the behaviour that the code relies on, and the faults it has a path
  for.

## 7. What is not modelled, and why

- **EKF arithmetic, BruteCalc, range forces**: floating-point formulas. The
  models keep which inputs they use, and leave out what they compute.
- **insula's console, GPS configuration, `_GPS::parse`**: formatting of
  commands; `parse` has no caller. The commands `h` and `g`, which start
  scans, are in `GpsFeed`.
- **Console test messages E and F of insula, answers of the sensor to the
  console's own commands**: only sent by hand while testing.
- **MegaServo's pulses, MsTimer2**: libraries by another author. One servo is
  used, so the part of the interrupt that passes from servo to servo never
  matters, and nothing starts MsTimer2. What `MegaServo::write` makes of an
  angle is in `DriveModes`. Reading it showed that `detach` in the middle of a
  pulse leaves the pin high; no text of the repository says otherwise.
- **VirtualWire's other halves**: cogzilla's receiver and insula's transmitter,
  which no program uses; the samples of the phase locked loop.
- **cerebellum**: not complete in the tree (its Arduino core is missing). Its
  scan is insula's; `RegionCalc` is a formula over the distances, which counts
  the measurement on a border for both regions. Nothing in the repository says
  what it should compute.
- **Arduino core, thalamus, `lib`, `Applications`, `Fuzzy Neural`**: a copy of
  the core, binaries, papers, MATLAB experiments, and in `lib` two projects of
  other authors (FemtoOS and ser2net) that no program of the vehicle is built
  with. They are most of the repository's lines, so the share that the models
  cover stays small.

## 8. Plan

Done, in this order because a later module rests on an earlier one and the link
carries most of the risk: `RxFifo`, `RxRing` and its proofs; `GpsFeed`;
`BrainLink`; `LidarScan`; `TwiMaster`; `DriveModes`; the proofs for the angle
and the modes. Then `CmuCam`; `VirtualWire` with `Datagram`; lost characters in
`GpsFeed`; the sonars' registers in `TwiMaster`; the proofs for the bus, the
range, the fields of the link, the radio's receiver and the GPS index. Then the
proofs for the camera's client, the LIDAR scan, the EKF step's one fix, the
notches of the speed, the radio's types, and what the GPS decoder forwards. Then
the proofs of what the radio hears and returns, that it is `Datagram` while no
fault comes, and that it refuses damaged bytes.

Next:

1. For which messages a damaged count or a slip leaves a right check sequence,
   and so the weakest assumption under which one fault does no harm to
   `ImplementsDatagram`.
2. An abstract specification of the link (a sequence of fixes of which the
   reader sees a subsequence) that `BrainLink` without accidents implements.
3. MegaServo's interrupt with `attach`, `detach` and `write` in between.
4. `cerebellum`'s `RegionCalc`, once the repository says what it computes.
