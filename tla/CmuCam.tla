------------------------------- MODULE CmuCam -------------------------------
(***************************************************************************)
(* Cogzilla's client of the camera (a CMUcam2 on Serial2): the commands,   *)
(* their acknowledgements, the retries, and the packet that answers        *)
(* "track this colour".  The camera is external: it takes commands one     *)
(* after the other and answers when it likes.  stream is what it has       *)
(* answered and the client has not read, in the ring or still on the line, *)
(* so a flush drops any number of bytes from its front.  Each byte carries *)
(* the packet it belongs to, which the code never sees.                    *)
(***************************************************************************)
EXTENDS Integers, Sequences, SequencesExt

CONSTANTS
    Colours,       \* what can be tracked: a stop sign, a red light
    Measured,      \* the data of a packet: sequences of eight bytes
    MaxCalls,      \* bound: calls of track_stop_sign and track_red_light
    MaxSends,      \* bound: times a command is sent for one acknowledgement
    MaxAccidents   \* bound: commands refused and bytes lost

\* A packet has eight bytes of data, and only its first byte is 255: that is
\* how the client finds it.
ASSUME CameraAssumption ==
    /\ "stop_sign" \in Colours
    /\ \A data \in Measured : data \in Seq(0..254) /\ Len(data) = 8
    /\ MaxCalls \in Nat /\ MaxSends \in Nat \ {0} /\ MaxAccidents \in Nat

VARIABLES
    commands,      \* sent and not yet taken by the camera
    stream,        \* answered and not yet read
    pc,            \* where the client is
    cmd,           \* the command whose acknowledgement it wants
    sends,         \* how often it has sent it
    left,          \* bytes of the acknowledgement, or of the packet, to read
    colour,        \* what the call under way tracks
    in_view,       \* stop_sign_in_view, red_light_in_view
    track_info,    \* stop_sign_track_info, red_light_track_info
    ended,         \* history: how the last call ended
    calls,         \* history: calls made
    packets,       \* history: the packets sent, with the call that asked, and
                   \* whether a byte of it looks like the end of an answer
    accidents

device == <<commands, packets, accidents>>
results == <<in_view, track_info>>
vars == <<device, stream, pc, cmd, sends, left, colour, results, ended, calls>>

\* ASCII, and the byte a packet begins with.
A == 65
C == 67
K == 75
N == 78
T == 84
CR == 13
COLON == 58
HEADER == 255

\* Places in a packet.
MX == 1
MY == 2
CONF == 8

Plain(bytes) == [i \in DOMAIN bytes |-> [val |-> bytes[i], packet |-> 0]]

-----------------------------------------------------------------------------
\* The camera.  In poll mode (PM 1) a request to track is answered by one
\* packet; the prompt, a colon, ends every answer.
Prompt == Plain(<<COLON>>)
Ack == Plain(<<A, C, K, CR>>)
Nck == Plain(<<N, C, K, CR>>)
Packet(data) == [i \in 1..10 |-> [val |-> (<<HEADER, T>> \o data)[i],
                                  packet |-> Len(packets) + 1]]

Breaks(byte) == byte \in {COLON, CR}
Asked(data) == [colour |-> Head(commands).colour, call |-> Head(commands).call,
                breaks |-> \E i \in DOMAIN data : Breaks(data[i])]

\* The bytes of a reply that arrive: all, or all but one.
Reply(reply) ==
    /\ commands' = Tail(commands)
    /\ \/ stream' = stream \o reply /\ UNCHANGED accidents
       \/ /\ accidents < MaxAccidents
          /\ accidents' = accidents + 1
          /\ \E i \in DOMAIN reply : stream' = stream \o RemoveAt(reply, i)

Answer ==
    /\ commands # <<>>
    /\ IF Head(commands).cmd = "TC"
       THEN \E data \in Measured :
                /\ Reply(Ack \o Packet(data) \o Prompt)
                /\ packets' = Append(packets, Asked(data))
       ELSE Reply(Ack \o Prompt) /\ UNCHANGED packets
    /\ UNCHANGED <<pc, cmd, sends, left, colour, results, ended, calls>>

\* A command that arrives garbled is refused.
Refuse ==
    /\ commands # <<>>
    /\ accidents < MaxAccidents
    /\ accidents' = accidents + 1
    /\ commands' = Tail(commands)
    /\ stream' = stream \o Nck \o Prompt
    /\ UNCHANGED <<packets, pc, cmd, sends, left, colour, results, ended,
                   calls>>

-----------------------------------------------------------------------------
\* The client.  print of the command, with its carriage return.
Send(c) == commands' = Append(commands, [cmd |-> c, colour |-> colour',
                                         call |-> calls'])

Want(c) == cmd' = c /\ sends' = 1 /\ pc' = "ack" /\ Send(c)

Flushed(s) == {SubSeq(s, k, Len(s)) : k \in 1..Len(s) + 1}

\* setup_cmu_cam, up to its first wait.
Init ==
    /\ stream = <<>>
    /\ cmd = "RM" /\ sends = 1 /\ pc = "ack" /\ left = 0
    /\ colour \in Colours
    /\ calls = 0
    /\ commands = <<[cmd |-> "RM", colour |-> colour, call |-> 0]>>
    /\ in_view = [c \in Colours |-> FALSE]
    /\ track_info = [c \in Colours |-> Plain([i \in 1..8 |-> 0])]
    /\ ended = "none"
    /\ packets = <<>>
    /\ accidents = 0

\* track_stop_sign or track_red_light is called.
Track(c) ==
    /\ pc = "idle" /\ calls < MaxCalls
    /\ calls' = calls + 1
    /\ colour' = c
    /\ ended' = "none"
    /\ Want("PM")
    /\ UNCHANGED <<packets, accidents, stream, left, results>>

FlushCam ==
    /\ pc = "idle" /\ stream # <<>>
    /\ stream' \in Flushed(stream)
    /\ UNCHANGED <<device, pc, cmd, sends, left, colour, results, ended, calls>>

\* read_cmu_byte: waits, and takes a byte.
read_cmu_byte == stream # <<>> /\ stream' = Tail(stream)
Byte == Head(stream).val

Begin(place, n) == pc' = place /\ left' = n

\* ack_recieved: the rest of an acknowledgement is read by its length.  The
\* variant counts the A, which has been read.
bytes_in_ack_with_a == 4 + (IF cmd = "TC" THEN 0 ELSE 1)

bytes_in_ack == 3 + (IF cmd = "TC" THEN 0 ELSE 1)

AckBegins ==
    /\ pc = "ack"
    /\ read_cmu_byte
    /\ Byte = A
    /\ Begin("rest", bytes_in_ack)
    /\ UNCHANGED <<device, cmd, sends, colour, results, ended, calls>>

\* Anything else: drop what is there and send the command again.
Retry ==
    /\ pc = "ack" /\ stream # <<>> /\ Byte # A
    /\ sends < MaxSends
    /\ sends' = sends + 1
    /\ stream' \in Flushed(Tail(stream))
    /\ UNCHANGED <<packets, accidents, pc, cmd, left, colour, results, ended,
                   calls>>
    /\ Send(cmd)

\* What follows an acknowledged command.
Acknowledged ==
    CASE cmd = "RM" -> Want("CR")
      [] cmd = "CR" -> pc' = "idle" /\ UNCHANGED <<commands, cmd, sends>>
      [] cmd = "PM" -> Want("TC")
      [] cmd = "TC" -> pc' = "hunt" /\ UNCHANGED <<commands, cmd, sends>>

AckRest ==
    /\ pc = "rest"
    /\ read_cmu_byte
    /\ left' = left - 1
    /\ UNCHANGED <<packets, accidents, colour, results, ended, calls>>
    /\ IF left = 1 THEN Acknowledged ELSE UNCHANGED <<commands, pc, cmd, sends>>

\* Skip to the beginning of a packet.
Hunt ==
    /\ pc = "hunt"
    /\ read_cmu_byte
    /\ pc' = IF Byte = HEADER THEN "kind" ELSE pc
    /\ UNCHANGED <<device, cmd, sends, left, colour, results, ended, calls>>

\* The second byte of a packet tells its kind.  Without a T the function ends
\* without a return: in_view stays.
Kind ==
    /\ pc = "kind"
    /\ read_cmu_byte
    /\ IF Byte = T
       THEN Begin("data", 8) /\ UNCHANGED ended
       ELSE pc' = "idle" /\ ended' = "not T" /\ UNCHANGED left
    /\ UNCHANGED <<device, cmd, sends, colour, results, calls>>

InView(info) == info[MX].val > 0 /\ info[MY].val > 0 /\ info[CONF].val > 0

\* A colon or a carriage return inside a packet: track_stop_sign clears
\* in_view, track_red_light does not.
BrokenKeepsView ==
    /\ Breaks(Byte)
    /\ pc' = "idle"
    /\ ended' = "broken"
    /\ UNCHANGED <<left, in_view>>

Broken ==
    /\ Breaks(Byte)
    /\ pc' = "idle"
    /\ ended' = "broken"
    /\ in_view' = [in_view EXCEPT !["stop_sign"] =
                      @ /\ colour # "stop_sign"]
    /\ UNCHANGED left

\* A byte of the packet; the call ends when last of them are left.
ByteOfPacket(last) ==
    /\ ~Breaks(Byte)
    /\ left' = left - 1
    /\ IF left = last
       THEN /\ pc' = "idle"
            /\ ended' = "packet"
            /\ in_view' = [in_view EXCEPT
                              ![colour] = InView(track_info'[colour])]
       ELSE UNCHANGED <<pc, ended, in_view>>

WholeEarly == ByteOfPacket(2)

WholeLate == ByteOfPacket(0)

Whole == ByteOfPacket(1)

Data ==
    /\ pc = "data"
    /\ read_cmu_byte
    /\ track_info' = [track_info EXCEPT ![colour][9 - left] = Head(stream)]
    /\ Broken \/ Whole
    /\ UNCHANGED <<device, cmd, sends, colour, calls>>

Client == AckBegins \/ Retry \/ AckRest \/ Hunt \/ Kind \/ Data

Next ==
    \/ Answer \/ Refuse
    \/ \E c \in Colours : Track(c)
    \/ FlushCam
    \/ Client

\* The camera answers what it was sent, and the program reads on.
Spec == Init /\ [][Next]_vars /\ WF_vars(Answer) /\ WF_vars(Client)

-----------------------------------------------------------------------------
Bytes == [val : 0..255, packet : 0..Len(packets)]

TypeOK ==
    /\ \A i \in DOMAIN stream : stream[i] \in Bytes
    /\ pc \in {"idle", "ack", "rest", "hunt", "kind", "data"}
    /\ cmd \in {"RM", "CR", "PM", "TC"}
    /\ sends \in 1..MaxSends
    /\ left \in 0..8
    /\ pc \in {"rest", "data"} => left > 0
    /\ colour \in Colours
    /\ in_view \in [Colours -> BOOLEAN]
    /\ track_info \in [Colours -> [1..8 -> Bytes]]
    /\ calls \in 0..MaxCalls
    /\ accidents \in 0..MaxAccidents

\* The info of c is one packet.
Of(c, p) == \A i \in 1..8 : track_info[c][i].packet = p

\* A call that accepted a packet read the answer to its own question: one
\* packet, whole, measured for this colour and asked for by this call,
\* whatever retries left in the ring.  A packet that broke off leaves its rest
\* for the next call, which may take an A in it for an acknowledgement and from
\* then on be one answer behind.
AnswerIsFresh ==
    ended = "packet" /\ accidents = 0 /\ (\A p \in DOMAIN packets :
                                               ~packets[p].breaks) =>
        \E p \in DOMAIN packets : /\ Of(colour, p)
                                  /\ packets[p].colour = colour
                                  /\ packets[p].call = calls

\* What the program takes for a stop sign in view is one packet, whole: a
\* packet that turns out to be broken takes the sign out of view.
InViewIsWhole ==
    pc = "idle" /\ in_view["stop_sign"] =>
        \E p \in DOMAIN packets : Of("stop_sign", p)

\* No wait is in vain: while the client wants a byte, there is one or a command
\* whose answer is still to come, however the retries and their flushes fell.
\* Only a lost byte or a refused command makes an unlimited wait endless.
NoVainWait ==
    pc # "idle" /\ accidents = 0 => stream # <<>> \/ commands # <<>>

\* Only endless retries keep a call from ending: when no byte is lost and no
\* command refused, each wait for an acknowledgement, for the beginning of a
\* packet and for its bytes is over some day.
CallEnds ==
    pc # "idle" ~> pc = "idle" \/ accidents > 0 \/ sends = MaxSends
=============================================================================
