---------------------------- MODULE MCLidarScan ----------------------------
(***************************************************************************)
(* The sensor's reply with its real layout: the answer to BM (8 bytes),    *)
(* the echo of MS (21), the header with the time stamp (26), 8 lines of 64 *)
(* characters with a check sum, one of 2, and a final line feed.           *)
(***************************************************************************)
EXTENDS LidarScan

\* Characters of the header: what they are does not matter, only line lengths.
Line(n) == [i \in 1..(n + 1) |-> IF i > n THEN LF ELSE 77]

Header == Line(2) \o Line(3) \o Line(0)                  \* BM
          \o Line(15) \o Line(3) \o Line(0)              \* MS, accepted
          \o Line(15) \o Line(3) \o Line(5)              \* MS, with data

\* Distances that cross both bounds of the filter.
MCDistances == [i \in 1..Measurements |-> 10 * (264 - i)]

\* The scan before saw the same, but for the last distance.
OldDistances == [MCDistances EXCEPT ![Measurements] = 101]

Spell(d) == <<48 + (d \div 64), 48 + (d % 64)>>

\* The characters of distances a..b, then their check sum and a line feed.
DataLine(ds, a, b) ==
    [i \in 1..(2 * (b - a + 1)) |->
        Spell(ds[a + ((i - 1) \div 2)])[1 + ((i - 1) % 2)]] \o <<60, LF>>

Data(ds) ==
    DataLine(ds, 1, 32) \o DataLine(ds, 33, 64) \o DataLine(ds, 65, 96)
    \o DataLine(ds, 97, 128) \o DataLine(ds, 129, 160)
    \o DataLine(ds, 161, 192) \o DataLine(ds, 193, 224)
    \o DataLine(ds, 225, 256) \o DataLine(ds, 257, 257) \o <<LF>>

MCReply == Header \o Data(MCDistances)

ASSUME ReplyIs588 == Len(MCReply) = 588

\* URG_buffer holds the scan before.
AfterScan == Header \o Data(OldDistances)
MCStale == { [i \in 0..(BufferSize - 1) |->
                IF i < Len(AfterScan) THEN AfterScan[i + 1] ELSE 0] }
============================================================================
