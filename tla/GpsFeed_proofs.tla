--------------------------- MODULE GpsFeed_proofs ---------------------------
(***************************************************************************)
(* The safety of GpsFeed for every size of GPS_buffer and of the fields of *)
(* GPS_package, every sequence of sentences that fit them, and any number  *)
(* of characters lost anywhere.                                            *)
(***************************************************************************)
EXTENDS GpsFeed, SequenceTheorems, FiniteSetTheorems, WellFoundedInduction,
        TLAPS

\* Once the dollar sign of the sentence on the line has come, the characters
\* buffered and those still to come are no more than the sentence has.
Fits ==
    begun = nth /\ nth > 0 => GPS_counter + Len(line) <= Len(Feed[nth])

IInv ==
    /\ nth \in 0..Len(Feed)
    /\ begun \in 0..nth
    /\ GPS_counter \in Nat
    /\ line \in Seq(STRING)
    /\ nth = 0 => line = <<>> /\ GPS_counter = 0
    /\ nth > 0 => Len(line) <= Len(Feed[nth])
    /\ Fits

LEMMA SentenceFits ==
    ASSUME NEW k \in 1..Len(Feed)
    PROVE  Feed[k] \in Seq(STRING) /\ Len(Feed[k]) \in 0..BufferSize
  BY FeedAssumption, ElementOfSeq, LenProperties

\* Taking a character off the line makes it shorter by one.
LEMMA TailOfLine ==
    ASSUME line \in Seq(STRING), line # <<>>
    PROVE  /\ Tail(line) \in Seq(STRING)
           /\ Len(line) \in Nat /\ Len(line) > 0
           /\ Len(Tail(line)) = Len(line) - 1
  BY HeadTailProperties, EmptySeq, LenProperties

LEMMA StartKeeps == ASSUME IInv, StartSentence PROVE IInv'
<1>1. nth' \in 1..Len(Feed) /\ line' = Feed[nth'] /\ begun' < nth'
      /\ UNCHANGED <<begun, GPS_counter>>
  BY FeedAssumption, LenProperties DEF IInv, StartSentence, decoder
<1>2. line' \in Seq(STRING) /\ Len(line') \in Nat
  BY <1>1, SentenceFits
<1> QED
  BY <1>1, <1>2 DEF IInv, Fits

LEMMA LoseKeeps == ASSUME IInv, LoseCharacter PROVE IInv'
<1>1. /\ line # <<>> /\ line' = Tail(line) /\ nth > 0
      /\ UNCHANGED <<nth, begun, GPS_counter>>
  BY DEF IInv, LoseCharacter, decoder
<1>2. Len(Feed[nth]) \in Nat
  BY <1>1, SentenceFits DEF IInv
<1> QED
  BY <1>1, <1>2, TailOfLine DEF IInv, Fits

LEMMA ReceiveKeeps == ASSUME IInv, Receive PROVE IInv'
<1>0. /\ line # <<>> /\ line' = Tail(line) /\ nth' = nth
      /\ Buffer(Head(line))
      /\ begun' = IF Head(line) = "$" THEN nth ELSE begun
  BY DEF Receive
<1>1. nth > 0
  BY <1>0 DEF IInv
<1>2. Len(Feed[nth]) \in Nat
  BY <1>1, SentenceFits DEF IInv
<1>3. CASE Head(line) = "$"
  <2>1. GPS_counter' = 1 /\ begun' = nth
    BY <1>0, <1>3 DEF Buffer
  <2> QED
    BY <1>0, <1>1, <1>2, <2>1, TailOfLine DEF IInv, Fits
<1>4. CASE Head(line) # "$"
  <2>1. GPS_counter' = GPS_counter + 1 /\ begun' = begun
    BY <1>0, <1>4 DEF Buffer, IInv
  <2> QED
    BY <1>0, <1>1, <1>2, <2>1, TailOfLine DEF IInv, Fits
<1> QED
  BY <1>3, <1>4

LEMMA StepKeepsInvariant == ASSUME IInv, [Next]_vars PROVE IInv'
<1>1. CASE StartSentence
  BY <1>1, StartKeeps
<1>2. CASE LoseCharacter
  BY <1>2, LoseKeeps
<1>3. CASE Receive
  BY <1>3, ReceiveKeeps
<1>4. CASE Main \/ UNCHANGED vars
  <2>1. UNCHANGED <<nth, begun, GPS_counter, line>>
    BY <1>4
    DEF Main, Poll, LoadLow, LoadHighAndWrite, ClearFlag, LidarOff,
        SetSerialLoad, SetSerialStore, Console, vars, device, decoder, history
  <2> QED
    BY <2>1 DEF IInv, Fits
<1> QED
  BY <1>1, <1>2, <1>3, <1>4 DEF Next

\* The interrupt never writes past the end of GPS_buffer in a sentence whose
\* dollar sign has come.
THEOREM IndexInBuffer == Spec => []StaysInBuffer
<1>1. Init => IInv
  BY FeedAssumption, LenProperties DEF Init, IInv, Fits
<1>2. IInv => StaysInBuffer
  <2> SUFFICES ASSUME IInv, Overrun PROVE begun < nth
    BY DEF StaysInBuffer
  <2>1. CASE nth = 0
    BY <2>1, FeedAssumption DEF IInv, Overrun
  <2>2. CASE nth > 0
    <3>1. Len(Feed[nth]) \in 0..BufferSize /\ Len(line) \in Nat
      BY <2>2, SentenceFits, LenProperties DEF IInv
    <3> QED
      BY <2>2, <3>1, FeedAssumption DEF IInv, Fits, Overrun
  <2> QED
    BY <2>1, <2>2 DEF IInv
<1> QED
  BY <1>1, <1>2, StepKeepsInvariant, PTL DEF Spec

-----------------------------------------------------------------------------
\* Every set of natural numbers with a member has a least one.
LEMMA Least ==
    ASSUME NEW S, S \subseteq Nat, S # {}
    PROVE  \E n \in S : \A k \in S : n <= k
<1>1. PICK R : R = OpToRel(<, Nat)
  OBVIOUS
<1>2. IsWellFoundedOn(R, Nat)
  BY <1>1, NatLessThanWellFounded
<1>3. PICK n \in S : \A k \in S : ~(<<k, n>> \in R)
  BY <1>2, WFMin
<1>4. \A k \in S : ~(k < n)
  <2> TAKE k \in S
  <2>1. k < n => <<k, n>> \in R
    BY <1>1 DEF OpToRel
  <2> QED
    BY <1>3, <2>1
<1> QED
  BY <1>4

\* What a sentence spells is computed from its first character to its last: up
\* to every place there is a function that does, for the empty beginning and
\* then a character at a time.
Spells(g, l, text, c) ==
    g = [i \in 0..l |-> IF i = 0 THEN 0
                        ELSE IF i \in text THEN 10 * g[i - 1] + c[i]
                        ELSE g[i - 1]]

LEMMA SpellsOn ==
    ASSUME NEW l \in Nat, NEW text, NEW c, NEW g, Spells(g, l, text, c)
    PROVE  \E h : Spells(h, l + 1, text, c)
<1>1. /\ DOMAIN g = 0..l /\ g[0] = 0
      /\ \A i \in 1..l : g[i] = IF i \in text THEN 10 * g[i - 1] + c[i]
                                ELSE g[i - 1]
  BY DEF Spells
<1> DEFINE h == [i \in 0..(l + 1) |->
                    IF i <= l THEN g[i]
                    ELSE IF i \in text THEN 10 * g[l] + c[i] ELSE g[l]]
<1>2. h[0] = 0 /\ h[l] = g[l]
  BY <1>1
<1>3. ASSUME NEW i \in 1..l
      PROVE  h[i] = IF i \in text THEN 10 * h[i - 1] + c[i] ELSE h[i - 1]
  <2>1. i - 1 \in 0..(l + 1) /\ i - 1 <= l /\ i \in 0..(l + 1) /\ i <= l
    OBVIOUS
  <2>2. h[i] = g[i] /\ h[i - 1] = g[i - 1]
    BY <2>1
  <2> QED
    BY <1>1, <2>2
<1>4. h[l + 1] = IF l + 1 \in text THEN 10 * h[l + 1 - 1] + c[l + 1]
                 ELSE h[l + 1 - 1]
  <2>1. l + 1 - 1 = l /\ ~(l + 1 <= l) /\ l + 1 \in 0..(l + 1)
    OBVIOUS
  <2> QED
    BY <1>2, <2>1
<1>5. h = [i \in 0..(l + 1) |-> h[i]]
  OBVIOUS
<1> HIDE DEF h
<1>6. ASSUME NEW i \in 0..(l + 1)
      PROVE  h[i] = IF i = 0 THEN 0
                    ELSE IF i \in text THEN 10 * h[i - 1] + c[i]
                    ELSE h[i - 1]
  <2>1. CASE i = 0
    BY <1>2, <2>1
  <2>2. CASE i \in 1..l
    <3>1. i # 0
      BY <2>2
    <3> QED
      BY <1>3, <2>2, <3>1
  <2>3. CASE i = l + 1
    <3>1. i # 0
      BY <2>3
    <3> QED
      BY <1>4, <2>3, <3>1
  <2>4. i = 0 \/ i \in 1..l \/ i = l + 1
    OBVIOUS
  <2> QED
    BY <2>1, <2>2, <2>3, <2>4
<1>7. Spells(h, l + 1, text, c)
  BY <1>5, <1>6 DEF Spells
<1> QED
  BY <1>7

LEMMA SpellsAll ==
    ASSUME NEW n \in Nat, NEW text, NEW c
    PROVE  \E g : Spells(g, n, text, c)
<1> DEFINE Fails == {l \in Nat : ~ \E g : Spells(g, l, text, c)}
<1>1. Spells([i \in 0..0 |-> 0], 0, text, c)
  BY DEF Spells
<1>2. CASE Fails # {}
  <2>1. PICK l \in Fails : \A k \in Fails : l <= k
    BY <1>2, Least
  <2>2. l # 0
    BY <1>1, <2>1
  <2>3. l - 1 \in Nat /\ l - 1 \notin Fails
    BY <2>1, <2>2
  <2>4. PICK g : Spells(g, l - 1, text, c)
    BY <2>3
  <2>5. \E h : Spells(h, l - 1 + 1, text, c)
    BY <2>3, <2>4, SpellsOn
  <2>6. l - 1 + 1 = l
    BY <2>1
  <2> QED
    BY <2>1, <2>5, <2>6
<1>3. CASE Fails = {}
  BY <1>3
<1> QED
  BY <1>2, <1>3

LEMMA SpelledByOne ==
    ASSUME NEW s \in Seq(STRING), NEW n
    PROVE  /\ Spelled(s, n)[0] = 0
           /\ \A i \in 1..Len(s) :
                 Spelled(s, n)[i] = IF i \in Text(s, n)
                                    THEN 10 * Spelled(s, n)[i - 1] + Code[s[i]]
                                    ELSE Spelled(s, n)[i - 1]
<1>1. PICK l \in Nat : l = Len(s)
  BY LenProperties
<1>2. PICK c : c = [i \in 1..l |-> Code[s[i]]]
  OBVIOUS
<1>3. PICK text : text = Text(s, n)
  OBVIOUS
<1>4. PICK g : Spells(g, l, text, c)
  BY SpellsAll
<1>5. Spelled(s, n) = CHOOSE number : number =
          [i \in 0..l |-> IF i = 0 THEN 0
                          ELSE IF i \in text
                          THEN 10 * number[i - 1] + Code[s[i]]
                          ELSE number[i - 1]]
  BY <1>1, <1>3 DEF Spelled
<1>6. g = [i \in 0..l |-> IF i = 0 THEN 0
                          ELSE IF i \in text THEN 10 * g[i - 1] + Code[s[i]]
                          ELSE g[i - 1]]
  <2>1. g = [i \in 0..l |-> IF i = 0 THEN 0
                            ELSE IF i \in text THEN 10 * g[i - 1] + c[i]
                            ELSE g[i - 1]]
    BY <1>4 DEF Spells
  <2>2. \A i \in 0..l : i # 0 => c[i] = Code[s[i]]
    BY <1>2
  <2> QED
    BY <2>1, <2>2
<1>7. Spelled(s, n) =
          [i \in 0..l |-> IF i = 0 THEN 0
                          ELSE IF i \in text
                          THEN 10 * Spelled(s, n)[i - 1] + Code[s[i]]
                          ELSE Spelled(s, n)[i - 1]]
  BY <1>5, <1>6
<1> QED
  BY <1>1, <1>3, <1>7

\* Commas are counted a character at a time.
LEMMA CommasByOne ==
    ASSUME NEW s \in Seq(STRING)
    PROVE  /\ CommasBefore(s, 1) = 0
           /\ \A i \in Nat \ {0} :
                 /\ CommasBefore(s, i) \in Nat
                 /\ s[i] = "COMMA" =>
                       CommasBefore(s, i + 1) = CommasBefore(s, i) + 1
                 /\ s[i] # "COMMA" =>
                       CommasBefore(s, i + 1) = CommasBefore(s, i)
<1> DEFINE commas == {j \in Nat : s[j] = "COMMA"}
           before(i) == (1..(i - 1)) \cap commas
<1>1. ASSUME NEW i \in Nat \ {0}
      PROVE  CommasBefore(s, i) = Cardinality(before(i))
  <2>1. before(i) = {j \in 1..(i - 1) : s[j] = "COMMA"}
    <3>1. \A j : j \in 1..(i - 1) => j \in Nat
      OBVIOUS
    <3> QED
      BY <3>1, Zenon
  <2> QED
    BY <2>1 DEF CommasBefore
<1>2. \A i \in Nat \ {0} : s[i] = "COMMA" <=> i \in commas
  OBVIOUS
<1> HIDE DEF commas
<1>3. CommasBefore(s, 1) = 0
  <2>1. before(1) = {}
    OBVIOUS
  <2> QED
    BY <1>1, <2>1, FS_EmptySet
<1>4. ASSUME NEW i \in Nat \ {0}
      PROVE  /\ CommasBefore(s, i) \in Nat
             /\ i \in commas =>
                   CommasBefore(s, i + 1) = CommasBefore(s, i) + 1
             /\ i \notin commas => CommasBefore(s, i + 1) = CommasBefore(s, i)
  <2>1. IsFiniteSet(before(i))
    <3>1. IsFiniteSet(1..(i - 1))
      BY FS_Interval
    <3> QED
      BY <3>1, FS_Subset
  <2>2. before(i + 1) = IF i \in commas THEN before(i) \cup {i} ELSE before(i)
    OBVIOUS
  <2>3. i \notin before(i)
    OBVIOUS
  <2>4. /\ CommasBefore(s, i) = Cardinality(before(i))
        /\ CommasBefore(s, i + 1) = Cardinality(before(i + 1))
    BY <1>1
  <2> HIDE DEF before
  <2>5. Cardinality(before(i)) \in Nat
    BY <2>1, FS_CardinalityType
  <2>6. Cardinality(before(i) \cup {i}) = Cardinality(before(i)) + 1
    BY <2>1, <2>3, FS_AddElement
  <2> QED
    BY <2>2, <2>4, <2>5, <2>6
<1> QED
  BY <1>2, <1>3, <1>4

LEMMA SentenceFacts ==
    ASSUME NEW k \in 1..Len(Feed)
    PROVE  /\ Feed[k] \in Seq(STRING) /\ Len(Feed[k]) \in Nat \ {0}
           /\ Len(Feed[k]) <= BufferSize
           /\ \A i \in 1..Len(Feed[k]) :
                 /\ Feed[k][i] = "$" <=> i = 1
                 /\ Feed[k][i] = "LF" <=> i = Len(Feed[k])
                 /\ Feed[k][i] \in Punctuation
                    \/ Code[Feed[k][i]] \in Int
<1>1. DOMAIN Feed = 1..Len(Feed) /\ Feed[k] \in Seq(STRING)
  BY FeedAssumption, ElementOfSeq, LenProperties
<1>2. /\ DOMAIN Feed[k] = 1..Len(Feed[k]) /\ Len(Feed[k]) \in Nat
      /\ Feed[k] # <<>> => Len(Feed[k]) # 0
  BY <1>1, LenProperties, EmptySeq
<1>3. k \in DOMAIN Feed
  BY <1>1
<1>4. Len(Feed[k]) <= BufferSize /\ Feed[k] # <<>>
  BY <1>3, FeedAssumption, SentenceAssumption
<1>5. \A i \in 1..Len(Feed[k]) :
          /\ Feed[k][i] = "$" <=> i = 1
          /\ Feed[k][i] = "LF" <=> i = Len(Feed[k])
          /\ Feed[k][i] \in Punctuation \/ Code[Feed[k][i]] \in Int
  BY <1>2, <1>3, SentenceAssumption, Zenon
<1> QED
  BY <1>1, <1>2, <1>4, <1>5

\* Two orders in which the end of a sequence is named.
LEMMA EndIsSuffix ==
    ASSUME NEW s \in Seq(STRING), NEW l \in Seq(STRING), Len(l) <= Len(s),
           \A i \in 1..Len(l) : l[i] = s[Len(s) - Len(l) + i]
    PROVE  IsSuffix(l, s)
<1>1. PICK m \in Nat, n \in Nat : m = Len(l) /\ n = Len(s)
  BY LenProperties
<1>2. /\ Reverse(l) = [i \in 1..m |-> l[m - i + 1]]
      /\ Reverse(s) = [i \in 1..n |-> s[n - i + 1]]
  BY <1>1 DEF Reverse
<1>3. Reverse(l) \in Seq(STRING) /\ Reverse(s) \in Seq(STRING)
  <2>1. ASSUME NEW i \in 1..m PROVE l[m - i + 1] \in STRING
    BY <1>1, ElementOfSeq
  <2>2. ASSUME NEW i \in 1..n PROVE s[n - i + 1] \in STRING
    BY <1>1, ElementOfSeq
  <2> QED
    BY <1>2, <2>1, <2>2, IsASeq
<1>4. Len(Reverse(l)) = m /\ Len(Reverse(s)) = n
  BY <1>2, <1>3, LenProperties
<1>5. ASSUME NEW i \in 1..m PROVE Reverse(l)[i] = Reverse(s)[i]
  <2>1. m - i + 1 \in 1..m /\ n - m + (m - i + 1) = n - i + 1 /\ i \in 1..n
    BY <1>1
  <2>2. l[m - i + 1] = s[n - i + 1]
    BY <1>1, <2>1
  <2> QED
    BY <1>2, <2>1, <2>2
<1>6. SubSeq(Reverse(l), 1, m) = SubSeq(Reverse(s), 1, m)
  <2>1. PICK r \in Seq(STRING), t \in Seq(STRING) :
            r = Reverse(l) /\ t = Reverse(s)
    BY <1>3
  <2>2. Len(r) = m /\ Len(t) = n /\ m <= n
    BY <1>1, <1>4, <2>1
  <2>3. /\ SubSeq(r, 1, m) \in Seq(STRING) /\ Len(SubSeq(r, 1, m)) = m
        /\ \A i \in 1..m : SubSeq(r, 1, m)[i] = r[i]
    BY <2>2
  <2>4. /\ SubSeq(t, 1, m) \in Seq(STRING) /\ Len(SubSeq(t, 1, m)) = m
        /\ \A i \in 1..m : SubSeq(t, 1, m)[i] = t[i]
    BY <2>2
  <2> QED
    BY <1>5, <2>1, <2>3, <2>4, SeqEqual
<1> QED
  BY <1>1, <1>4, <1>6 DEF IsSuffix, IsPrefix

-----------------------------------------------------------------------------
\* The characters of the sentence under way that have gone by.
Pos == Len(Feed[nth]) - Len(line)

InFields(p) == p \in [Field -> Nat] /\ \A f \in Field : p[f] < Size[f]

\* The line holds the end of the sentence under way, and GPS_send is somewhere
\* in its message.
Typed ==
    /\ TypeOK
    /\ line \in Seq(STRING)
    /\ nth = 0 => line = <<>>
    /\ nth > 0 => /\ Len(line) <= Len(Feed[nth])
                  /\ \A i \in 1..Len(line) : line[i] = Feed[nth][Pos + i]
    /\ half \in Int /\ message \in Seq(SUBSET Int)
    /\ Len(message) <= 4
    /\ ~Sending => message = <<>>
    /\ pc = "clear" => Len(message) = 4

\* How far the sentence is decoded whose dollar sign came last.
Known == begun > 0 /\ begun \notin damaged
Done == IF begun = nth THEN Pos ELSE Len(Feed[begun])

\* A sentence that has lost nothing is followed from its dollar sign on.
Followed ==
    /\ nth > 0 /\ nth \notin damaged /\ Pos > 0 => begun = nth
    /\ begun = 0 /\ 1 \notin damaged => nth <= 1

\* What of a sentence has come is decoded, and what comes of a sentence without
\* its dollar sign changes nothing: it stands behind the ninth comma.
Decoded ==
    Known =>
        /\ \A n \in DOMAIN FieldAt :
              GPS_package[FieldAt[n]] = Spelled(Feed[begun], n)[Done]
        /\ begun = nth => comma = CommasBefore(Feed[nth], Pos + 1)
        /\ begun < nth => comma >= 9
        /\ GPS_flags_a = 0 =>
              \A i \in Text(Feed[begun], 2) :
                  i <= Done => Feed[begun][i] = "A"

\* flag3 goes up with the last character of a sentence, and down with the first
\* of the next, and setSerial stores no other one unless it was split.
Vouched ==
    (flag3 = 3 \/ loaded = 3) /\ begun \notin raced =>
        /\ begun = nth => line = <<>>
        /\ begun = 0 => 1 \in damaged

\* Unless the sentence began too early, the main loop has to do with it only
\* when it has come, and the package stands still while GPS_send copies it.
Orderly ==
    /\ 1 \notin overlapped
    /\ nth \notin overlapped =>
          /\ Busy => nth > 0 /\ line = <<>> /\ GPS_flags_a = 0
          /\ pc = "high" => half = Current
          /\ \A j \in 1..Len(message) :
                message[j] = {GPS_package[SendOrder[j]]}

\* The sentences behind the messages sent.  The one on the line is not among
\* them, nor the one that the main loop still has to do with, which is the one
\* before it when it began too early.
Excused(k) == k \in damaged \/ Trodden(k)

Free ==
    IF line # <<>> /\ Busy THEN nth - 2
    ELSE IF line # <<>> \/ Busy THEN nth - 1 ELSE nth

Origin(f) ==
    /\ f \in [DOMAIN sent -> 1..nth]
    /\ \A i \in DOMAIN sent : Excused(f[i]) \/ Forwards(f[i], sent[i])
    /\ \A i, j \in DOMAIN sent : i < j => f[i] < f[j]
    /\ \A i \in DOMAIN sent : f[i] <= Free

Forwarded == \E f \in [DOMAIN sent -> 1..nth] : Origin(f)

-----------------------------------------------------------------------------
\* The characters on the line.
LEMMA LineFacts ==
    ASSUME Typed
    PROVE  /\ nth \in 0..Len(Feed) /\ Len(Feed) \in Nat
           /\ line \in Seq(STRING) /\ Len(line) \in Nat
           /\ line # <<>> => nth \in 1..Len(Feed) /\ Len(line) > 0
           /\ nth > 0 => nth \in 1..Len(Feed) /\ Pos \in 0..Len(Feed[nth])
           /\ nth > 0 => (line = <<>> <=> Pos = Len(Feed[nth]))
<1>1. Len(Feed) \in Nat /\ nth \in 0..Len(Feed)
  BY FeedAssumption, LenProperties DEF Typed, TypeOK
<1>2. /\ line \in Seq(STRING) /\ Len(line) \in Nat
      /\ line = <<>> <=> Len(line) = 0
  BY LenProperties, EmptySeq DEF Typed
<1>3. nth = 0 => line = <<>>
  BY DEF Typed
<1>4. ASSUME nth > 0
      PROVE  /\ nth \in 1..Len(Feed) /\ Pos \in 0..Len(Feed[nth])
             /\ line = <<>> <=> Pos = Len(Feed[nth])
  <2>1. nth \in 1..Len(Feed)
    BY <1>1, <1>4
  <2>2. PICK n \in Nat, l \in Nat : n = Len(Feed[nth]) /\ l = Len(line)
    BY <1>2, <2>1, SentenceFacts
  <2>3. l <= n /\ Pos = n - l
    BY <1>4, <2>2 DEF Typed, Pos
  <2> QED
    BY <1>2, <2>1, <2>2, <2>3
<1> QED
  BY <1>1, <1>2, <1>3, <1>4

\* The next character to come.
LEMMA HeadFacts ==
    ASSUME Typed, line # <<>>, line' = Tail(line), nth' = nth
    PROVE  /\ nth \in 1..Len(Feed)
           /\ Pos \in Nat /\ Pos < Len(Feed[nth])
           /\ Head(line) = Feed[nth][Pos + 1]
           /\ Pos' = Pos + 1
           /\ line' \in Seq(STRING)
           /\ Len(line') <= Len(Feed[nth])
           /\ \A i \in 1..Len(line') : line'[i] = Feed[nth][Pos' + i]
           /\ line' = <<>> <=> Pos + 1 = Len(Feed[nth])
<1>1. /\ nth \in 1..Len(Feed) /\ line \in Seq(STRING)
  BY LineFacts
<1>2. PICK n \in Nat, l \in Nat : n = Len(Feed[nth]) /\ l = Len(line)
  BY <1>1, SentenceFacts, LenProperties
<1>3. l > 0 /\ l <= n
  BY <1>1, <1>2, LineFacts DEF Typed
<1>4. /\ Head(line) = line[1] /\ Tail(line) \in Seq(STRING)
      /\ Len(Tail(line)) = l - 1
      /\ \A i \in 1..(l - 1) : Tail(line)[i] = line[i + 1]
  BY <1>1, <1>2, HeadTailProperties
<1>5. Pos = n - l /\ Pos' = n - (l - 1)
  BY <1>2, <1>4 DEF Pos
<1>6. \A i \in 1..l : line[i] = Feed[nth][Pos + i]
  BY <1>1, <1>2 DEF Typed
<1>7. Head(line) = Feed[nth][Pos + 1]
  BY <1>3, <1>4, <1>6
<1>8. \A i \in 1..Len(line') : line'[i] = Feed[nth][Pos' + i]
  <2> TAKE i \in 1..Len(line')
  <2>1. i \in 1..(l - 1) /\ i + 1 \in 1..l
    BY <1>3, <1>4
  <2>2. line'[i] = Feed[nth][Pos + (i + 1)]
    BY <1>4, <1>6, <2>1
  <2>3. Pos + (i + 1) = Pos' + i
    BY <1>5, <2>1
  <2> QED
    BY <2>2, <2>3
<1>9. line' = <<>> <=> Pos + 1 = n
  <2>1. Tail(line) = <<>> <=> l - 1 = 0
    BY <1>4, EmptySeq
  <2> QED
    BY <1>3, <1>5, <2>1
<1>10. Pos \in Nat /\ Pos < n /\ Pos' = Pos + 1 /\ Len(line') <= n
  BY <1>3, <1>4, <1>5
<1> QED
  BY <1>1, <1>2, <1>4, <1>7, <1>8, <1>9, <1>10

LEMMA LineIsSuffix ==
    ASSUME line \in Seq(STRING), nth \in 1..Len(Feed),
           Len(line) <= Len(Feed[nth]),
           \A i \in 1..Len(line) : line[i] = Feed[nth][Pos + i]
    PROVE  IsSuffix(line, Feed[nth])
  BY SentenceFacts, EndIsSuffix DEF Pos

\* A field, and the numbers that a sentence spells in it.
LEMMA SizeFacts ==
    ASSUME NEW n \in DOMAIN FieldAt
    PROVE  /\ FieldAt[n] \in Field /\ Size[FieldAt[n]] \in Nat \ {0}
           /\ \A k \in 1..Len(Feed) : \A i \in 0..Len(Feed[k]) :
                 Spelled(Feed[k], n)[i] \in 0..(Size[FieldAt[n]] - 1)
<1>1. FieldAt[n] \in Field
  BY DEF FieldAt, Field
<1>2. \A m \in DOMAIN FieldAt : FieldAt[m] = FieldAt[n] => m = n
  BY DEF FieldAt
<1>3. PlaceOf[FieldAt[n]] = n
  BY <1>1, <1>2 DEF PlaceOf
<1>4. DOMAIN Feed = 1..Len(Feed)
  BY FeedAssumption, LenProperties
<1> QED
  BY <1>1, <1>3, <1>4, SizeAssumption

\* A remainder is below its divisor, and a number below it is its own.
LEMMA Remainder ==
    ASSUME NEW x \in Int, NEW m \in Nat \ {0}
    PROVE  /\ x % m \in 0..(m - 1)
           /\ x \in 0..(m - 1) => x % m = x
  OBVIOUS

\* What the interrupt makes of a character keeps its types.
LEMMA DecodeTypes ==
    ASSUME Typed, NEW ch,
           ch \notin Punctuation => Code[ch] \in Int, Decode(ch)
    PROVE  /\ comma' \in 0..(comma + 1) /\ (ch = "$" => comma' = 0)
           /\ GPS_flags_a' \in {0, 1}
           /\ InFields(GPS_package') /\ flag3' \in {0, 3}
<1>1. /\ comma \in Nat /\ GPS_flags_a \in {0, 1}
      /\ InFields(GPS_package) /\ flag3 \in {0, 3}
  <2>1. GPS_counter \in Nat
    BY FeedAssumption DEF Typed, TypeOK
  <2> QED
    BY <2>1 DEF Typed, TypeOK, InFields
<1>2. CASE ch = "$"
  <2>1. /\ comma' = 0 /\ GPS_flags_a' = 0 /\ flag3' = 0
        /\ GPS_package' = [f \in Field |-> 0]
    BY <1>2 DEF Decode, Dollar, Blank
  <2>2. \A f \in Field : 0 < Size[f]
    BY SizeAssumption
  <2> QED
    BY <1>1, <2>1, <2>2 DEF InFields
<1>3. CASE ch = "COMMA"
  <2>1. Comma
    BY <1>3 DEF Decode
  <2>2. /\ comma' = comma + 1 /\ GPS_flags_a' = GPS_flags_a
        /\ GPS_package' = GPS_package /\ flag3' = flag3
    BY <2>1 DEF Comma
  <2>3. comma' \in 0..(comma + 1)
    BY <1>1, <2>2
  <2> QED
    BY <1>1, <1>3, <2>2, <2>3
<1>4. CASE ch = "LF"
  BY <1>1, <1>4 DEF Decode, EndOfPacket
<1>5. CASE ch = "."
  BY <1>1, <1>5 DEF Decode, Ignored
<1>6. CASE ch \notin Punctuation
  <2>1. Code[ch] \in Int /\ ch # "$"
    BY <1>6 DEF Punctuation
  <2>2. \/ comma = 2 /\ Status(ch)
        \/ comma \in DOMAIN FieldAt /\ Digit(ch)
        \/ Ignored
    BY <1>6 DEF Decode, Punctuation
  <2>3. CASE Status(ch)
    BY <1>1, <2>1, <2>3 DEF Status
  <2>4. CASE comma \in DOMAIN FieldAt /\ Digit(ch)
    <3>1. PICK g : g = FieldAt[comma] /\ g \in Field /\ Size[g] \in Nat \ {0}
      BY <2>4, SizeFacts
    <3>2. PICK x \in Int : x = 10 * GPS_package[g] + Code[ch]
      <4>1. PICK p \in Nat : p = GPS_package[g]
        BY <1>1, <3>1 DEF InFields
      <4> QED
        BY <2>1, <4>1
    <3>3. GPS_package' = [GPS_package EXCEPT ![g] = x % Size[g]]
      BY <2>4, <3>1, <3>2 DEF Digit
    <3>4. x % Size[g] \in Nat /\ x % Size[g] < Size[g]
      <4>1. PICK n \in Nat \ {0} : n = Size[g]
        BY <3>1
      <4>2. x % n \in 0..(n - 1)
        BY <3>2, <4>1, Remainder
      <4>3. x % n \in Nat /\ x % n < n
        BY <4>1, <4>2
      <4> QED
        BY <4>1, <4>3
    <3>5. InFields(GPS_package')
      BY <1>1, <3>1, <3>3, <3>4 DEF InFields
    <3>6. comma' = comma /\ GPS_flags_a' = GPS_flags_a /\ flag3' = flag3
      BY <2>4 DEF Digit
    <3> QED
      BY <1>1, <2>1, <3>5, <3>6
  <2>5. CASE Ignored
    BY <1>1, <2>1, <2>5 DEF Ignored
  <2> QED
    BY <2>2, <2>3, <2>4, <2>5
<1> QED
  BY <1>2, <1>3, <1>4, <1>5, <1>6 DEF Punctuation

LEMMA TypedInit == Init => Typed
<1> SUFFICES ASSUME Init PROVE Typed
  OBVIOUS
<1>1. TypeOK
  <2>1. Len(Feed) \in Nat /\ BufferSize \in Nat
    BY FeedAssumption, LenProperties
  <2>2. InFields(GPS_package)
    <3>1. \A f \in Field : 0 < Size[f]
      BY SizeAssumption
    <3> QED
      BY <3>1 DEF Init, Blank, InFields
  <2>3. Len(message) < Len(SendOrder)
    BY EmptySeq DEF Init, SendOrder
  <2>4. 0 \in 0..Len(Feed) /\ 0 \in 0..(BufferSize + 1)
    BY <2>1
  <2>5. /\ nth \in 0..Len(Feed) /\ GPS_counter \in 0..(BufferSize + 1)
        /\ comma \in 0..GPS_counter /\ begun \in 0..nth
        /\ damaged \cup overlapped \cup raced \subseteq 1..nth
    BY <2>4 DEF Init
  <2>6. /\ GPS_flags_a \in {0, 1} /\ flag3 \in {0, 3} /\ flag2 \in {0, 3}
        /\ upper \in BOOLEAN /\ loaded \in {0, 3} /\ line = <<>>
    BY DEF Init
  <2>7. pc = "poll" /\ back = "poll" /\ loaded = 0
    BY DEF Init
  <2> QED
    BY <2>2, <2>3, <2>5, <2>6, <2>7 DEF TypeOK, InFields
<1>2. /\ line \in Seq(STRING) /\ half \in Int
      /\ message \in Seq(SUBSET Int) /\ Len(message) = 0
  BY EmptySeq DEF Init
<1> QED
  BY <1>1, <1>2 DEF Init, Typed, Sending

\* What the receiver and the interrupt leave alone.
LEMMA LineStepTypes ==
    ASSUME Typed, UNCHANGED main, nth' \in 0..Len(Feed),
           line' \in Seq(STRING),
           nth' = 0 => line' = <<>>,
           nth' > 0 => /\ nth' \in 1..Len(Feed)
                       /\ Len(line') <= Len(Feed[nth'])
                       /\ \A i \in 1..Len(line') :
                             line'[i] = Feed[nth'][Pos' + i],
           GPS_counter' \in 0..(BufferSize + 1), comma' \in 0..GPS_counter',
           GPS_flags_a' \in {0, 1}, InFields(GPS_package'),
           flag3' \in {0, 3}, begun' \in 0..nth',
           damaged' \cup overlapped' \cup raced' \subseteq 1..nth'
    PROVE  Typed'
<1>1. /\ UNCHANGED <<flag2, upper, pc, back, loaded, half, message, sent>>
      /\ Sending' = Sending
  BY DEF main, sender, Sending
<1>2. line' = <<>> \/ (nth' > 0 /\ IsSuffix(line', Feed[nth']))
  <2> SUFFICES ASSUME nth' # 0 PROVE IsSuffix(line', Feed[nth'])
    OBVIOUS
  <2>1. nth' > 0 /\ nth' \in 1..Len(Feed)
    OBVIOUS
  <2>2. Feed[nth'] \in Seq(STRING)
    BY <2>1, SentenceFacts
  <2>3. PICK s \in Seq(STRING), l \in Seq(STRING) : s = Feed[nth'] /\ l = line'
    BY <2>2
  <2>4. Pos' = Len(s) - Len(l)
    BY <2>3 DEF Pos
  <2>5. Len(l) <= Len(s) /\ \A i \in 1..Len(l) : l[i] = s[Len(s) - Len(l) + i]
    BY <2>1, <2>3, <2>4
  <2>6. IsSuffix(l, s)
    BY <2>5, EndIsSuffix
  <2> QED
    BY <2>3, <2>6
<1>3. TypeOK'
  BY <1>1, <1>2 DEF Typed, TypeOK, InFields
<1> QED
  BY <1>1, <1>3 DEF Typed

\* The same for what they leave alone themselves.
LEMMA DecoderTypes ==
    ASSUME Typed
    PROVE  /\ GPS_counter \in 0..(BufferSize + 1)
           /\ comma \in 0..GPS_counter /\ comma \in Nat
           /\ GPS_flags_a \in {0, 1} /\ InFields(GPS_package)
           /\ flag3 \in {0, 3} /\ begun \in 0..nth
           /\ damaged \cup overlapped \cup raced \subseteq 1..nth
           /\ nth \in 0..Len(Feed)
<1>1. GPS_counter \in Nat
  BY FeedAssumption DEF Typed, TypeOK
<1> QED
  BY <1>1 DEF Typed, TypeOK, InFields

LEMMA StartTyped == ASSUME Typed, StartSentence PROVE Typed'
<1>1. /\ UNCHANGED main /\ UNCHANGED decoder
      /\ UNCHANGED <<begun, damaged, raced>>
      /\ overlapped' \subseteq overlapped \cup {nth + 1}
      /\ nth' = nth + 1 /\ line' = Feed[nth'] /\ nth < Len(Feed)
  BY DEF StartSentence
<1>2. nth \in Nat /\ Len(Feed) \in Nat
  BY LineFacts
<1>3. PICK k \in 1..Len(Feed) : k = nth'
  BY <1>1, <1>2
<1>4. Feed[k] \in Seq(STRING) /\ Len(Feed[k]) \in Nat
  BY SentenceFacts
<1>5. Pos' = 0
  BY <1>1, <1>3, <1>4 DEF Pos
<1>6. /\ line' \in Seq(STRING) /\ Len(line') <= Len(Feed[nth'])
      /\ \A i \in 1..Len(line') : line'[i] = Feed[nth'][Pos' + i]
  BY <1>1, <1>3, <1>4, <1>5
<1>7. /\ GPS_counter' \in 0..(BufferSize + 1) /\ comma' \in 0..GPS_counter'
      /\ GPS_flags_a' \in {0, 1} /\ InFields(GPS_package')
      /\ flag3' \in {0, 3} /\ begun \in 0..nth
  BY <1>1, DecoderTypes DEF decoder
<1>8. begun' \in 0..nth'
  BY <1>1, <1>2, <1>7
<1>9. damaged' \cup overlapped' \cup raced' \subseteq 1..nth'
  <2>1. damaged \cup overlapped \cup raced \subseteq 1..nth
    BY DecoderTypes
  <2>2. 1..nth \subseteq 1..nth' /\ nth + 1 \in 1..nth'
    BY <1>1, <1>2
  <2> QED
    BY <1>1, <2>1, <2>2, Zenon
<1>10. nth' \in 0..Len(Feed) /\ nth' > 0 /\ nth' \in 1..Len(Feed)
  BY <1>2, <1>3
<1> QED
  BY <1>1, <1>6, <1>7, <1>8, <1>9, <1>10, LineStepTypes

LEMMA LoseTyped == ASSUME Typed, LoseCharacter PROVE Typed'
<1>1. /\ UNCHANGED main /\ UNCHANGED decoder
      /\ UNCHANGED <<begun, nth, overlapped, raced>>
      /\ line # <<>> /\ line' = Tail(line) /\ damaged' = damaged \cup {nth}
  BY DEF LoseCharacter
<1>2. /\ nth \in 1..Len(Feed) /\ line' \in Seq(STRING)
      /\ Len(line') <= Len(Feed[nth])
      /\ \A i \in 1..Len(line') : line'[i] = Feed[nth][Pos' + i]
  BY <1>1, HeadFacts
<1>3. /\ GPS_counter' \in 0..(BufferSize + 1) /\ comma' \in 0..GPS_counter'
      /\ GPS_flags_a' \in {0, 1} /\ InFields(GPS_package')
      /\ flag3' \in {0, 3} /\ begun' \in 0..nth' /\ nth' \in 0..Len(Feed)
  BY <1>1, DecoderTypes DEF decoder
<1>4. damaged' \cup overlapped' \cup raced' \subseteq 1..nth'
  <2>1. damaged \cup overlapped \cup raced \subseteq 1..nth
    BY DecoderTypes
  <2>2. nth \in 1..nth
    BY <1>2, LineFacts
  <2> QED
    BY <1>1, <2>1, <2>2, Zenon
<1> QED
  BY <1>1, <1>2, <1>3, <1>4, LineStepTypes

LEMMA ReceiveTyped == ASSUME Typed, Receive PROVE Typed'
<1>1. /\ UNCHANGED main /\ nth' = nth
      /\ UNCHANGED <<damaged, overlapped>> /\ raced' \subseteq raced \cup {nth}
      /\ line # <<>> /\ line' = Tail(line) /\ ~Overrun
      /\ Buffer(Head(line)) /\ Decode(Head(line))
      /\ begun' = IF Head(line) = "$" THEN nth ELSE begun
  BY DEF Receive
<1>2. /\ nth \in 1..Len(Feed) /\ line' \in Seq(STRING)
      /\ Pos \in Nat /\ Pos < Len(Feed[nth])
      /\ Head(line) = Feed[nth][Pos + 1]
      /\ Len(line') <= Len(Feed[nth])
      /\ \A i \in 1..Len(line') : line'[i] = Feed[nth][Pos' + i]
  BY <1>1, HeadFacts
<1>3. PICK n \in Nat : n = Len(Feed[nth])
  BY <1>2, SentenceFacts
<1>4. Pos + 1 \in 1..Len(Feed[nth])
  BY <1>2, <1>3
<1>5. Head(line) \in Punctuation \/ Code[Head(line)] \in Int
  BY <1>2, <1>4, SentenceFacts
<1>6. PICK ch : ch = Head(line)
  OBVIOUS
<1>7. /\ comma' \in 0..(comma + 1) /\ (ch = "$" => comma' = 0)
      /\ GPS_flags_a' \in {0, 1}
      /\ InFields(GPS_package') /\ flag3' \in {0, 3}
  BY <1>1, <1>5, <1>6, DecodeTypes
<1>8. GPS_counter' \in 0..(BufferSize + 1) /\ comma' \in 0..GPS_counter'
  <2>1. /\ GPS_counter \in Nat /\ BufferSize \in Nat
        /\ GPS_counter <= BufferSize /\ comma \in 0..GPS_counter
    BY <1>1, DecoderTypes, FeedAssumption DEF Overrun
  <2>2. CASE ch = "$"
    BY <1>1, <1>6, <1>7, <2>1, <2>2 DEF Buffer
  <2>3. CASE ch # "$"
    <3>1. GPS_counter' = 1 + GPS_counter
      BY <1>1, <1>6, <2>3 DEF Buffer
    <3> QED
      BY <1>7, <2>1, <3>1
  <2> QED
    BY <2>2, <2>3
<1>9. begun' \in 0..nth' /\ nth' \in 0..Len(Feed)
  BY <1>1, <1>2, DecoderTypes
<1>10. damaged' \cup overlapped' \cup raced' \subseteq 1..nth'
  <2>1. damaged \cup overlapped \cup raced \subseteq 1..nth
    BY DecoderTypes
  <2>2. nth \in 1..nth
    BY <1>2, LineFacts
  <2> QED
    BY <1>1, <2>1, <2>2, Zenon
<1> QED
  BY <1>1, <1>2, <1>7, <1>8, <1>9, <1>10, LineStepTypes

\* GPS_send and the rest of the main loop.
LEMMA MainStepTypes ==
    ASSUME Typed, UNCHANGED device, UNCHANGED history,
           UNCHANGED <<comma, GPS_counter, GPS_flags_a, GPS_package>>,
           flag3' \in {0, 3}, flag2' \in {0, 3}, upper' \in BOOLEAN,
           loaded' \in {0, 3},
           loaded' = 3 => pc' \in {"store_off", "store_on"},
           back' \in {"console", "radio", "poll"},
           pc' \in {"poll", "low", "high", "clear", "lidar", "store_off",
                    "scan", "store_on", "console", "radio"},
           half' \in Int, message' \in Seq(SUBSET Int), Len(message') <= 4,
           Len(message') < 4 \/ pc' = "clear",
           ~Sending' => message' = <<>>,
           pc' = "clear" => Len(message') = 4
    PROVE  Typed'
<1>1. /\ UNCHANGED <<line, nth, overlapped, raced, begun, damaged, lost>>
      /\ Pos' = Pos
  BY DEF device, history, Pos
<1>2. Len(SendOrder) = 4
  BY DEF SendOrder
<1>3. TypeOK'
  BY <1>1, <1>2 DEF Typed, TypeOK
<1> QED
  BY <1>1, <1>3 DEF Typed

LEMMA MainTyped == ASSUME Typed, Main PROVE Typed'
<1>1. /\ flag3 \in {0, 3} /\ flag2 \in {0, 3} /\ upper \in BOOLEAN
      /\ loaded \in {0, 3} /\ GPS_package \in [Field -> Nat]
      /\ loaded = 3 => pc \in {"store_off", "store_on"}
      /\ back \in {"console", "radio", "poll"}
      /\ half \in Int /\ message \in Seq(SUBSET Int) /\ Len(message) <= 4
      /\ Len(message) < 4 \/ pc = "clear"
      /\ ~Sending => message = <<>>
      /\ Len(message) \in Nat
  BY LenProperties DEF Typed, TypeOK, SendOrder
<1>2. Len(message) < 4 => Current \in Int
  <2> SUFFICES ASSUME Len(message) < 4 PROVE Current \in Int
    OBVIOUS
  <2>1. Len(message) + 1 \in {1, 2, 3, 4}
    BY <1>1
  <2>2. SendOrder[Len(message) + 1] \in Field
    BY <2>1 DEF SendOrder, Field
  <2> QED
    BY <1>1, <2>2 DEF Current
<1>3. CASE Poll \/ LidarOff \/ SetSerialLoad \/ SetSerialStore \/ Console
  <2>1. /\ UNCHANGED <<device, history, half, message>>
        /\ UNCHANGED <<comma, GPS_counter, GPS_flags_a, GPS_package>>
        /\ flag3' \in {0, 3} /\ flag2' \in {0, 3} /\ upper' \in BOOLEAN
        /\ loaded' \in {0, 3} /\ ~Sending /\ pc' # "clear"
        /\ loaded' = 3 => pc' \in {"store_off", "store_on"}
        /\ back' \in {"console", "radio", "poll"}
        /\ pc' \in {"poll", "low", "high", "clear", "lidar", "store_off",
                    "scan", "store_on", "console", "radio"}
    <3>1. CASE Poll
      BY <1>1, <3>1 DEF Poll, decoder, sender, Sending
    <3>2. CASE LidarOff
      BY <1>1, <3>2 DEF LidarOff, After, decoder, sender, Sending
    <3>3. CASE SetSerialLoad
      BY <1>1, <3>3 DEF SetSerialLoad, After, decoder, sender, Sending
    <3>4. CASE SetSerialStore
      BY <1>1, <3>4 DEF SetSerialStore, sender, Sending
    <3>5. CASE Console
      BY <1>1, <3>5 DEF Console, After, decoder, sender, Sending
    <3> QED
      BY <1>3, <3>1, <3>2, <3>3, <3>4, <3>5
  <2>3. message' = <<>> /\ Len(message') = 0 /\ message' \in Seq(SUBSET Int)
    BY <1>1, <2>1, EmptySeq
  <2> QED
    BY <1>1, <2>1, <2>3, MainStepTypes
<1>4. CASE LoadLow
  <2>1. /\ UNCHANGED <<device, history, message, flag3, flag2, upper, back>>
        /\ UNCHANGED loaded
        /\ UNCHANGED <<comma, GPS_counter, GPS_flags_a, GPS_package>>
        /\ pc = "low" /\ pc' = "high" /\ half' = Current
    BY <1>4 DEF LoadLow, decoder
  <2>2. Sending' /\ half' \in Int
    BY <1>1, <1>2, <2>1 DEF Sending
  <2> QED
    BY <1>1, <2>1, <2>2, MainStepTypes
<1>5. CASE LoadHighAndWrite
  <2>1. /\ UNCHANGED <<device, history, flag3, flag2, upper, back, loaded>>
        /\ UNCHANGED <<comma, GPS_counter, GPS_flags_a, GPS_package>>
        /\ pc = "high" /\ message' = Append(message, {half, Current})
        /\ pc' = IF Len(message') = 4 THEN "clear" ELSE "low"
    BY <1>5 DEF LoadHighAndWrite, decoder, SendOrder
  <2>2. Len(message) < 4
    BY <1>1, <2>1
  <2>3. {half, Current} \in SUBSET Int /\ half' \in Int
    BY <1>1, <1>5, <1>2, <2>2 DEF LoadHighAndWrite
  <2>4. message' \in Seq(SUBSET Int) /\ Len(message') = Len(message) + 1
    BY <1>1, <2>1, <2>3, AppendProperties
  <2>5. Sending'
    BY <2>1 DEF Sending
  <2> QED
    BY <1>1, <2>1, <2>2, <2>3, <2>4, <2>5, MainStepTypes
<1>6. CASE ClearFlag
  <2>1. /\ UNCHANGED <<device, history, flag2, upper, back, loaded>>
        /\ UNCHANGED <<comma, GPS_counter, GPS_flags_a, GPS_package>>
        /\ flag3' = 0 /\ message' = <<>> /\ pc' = "lidar" /\ half' = half
    BY <1>6 DEF ClearFlag
  <2>2. message' \in Seq(SUBSET Int) /\ Len(message') = 0
    BY <2>1, EmptySeq
  <2>3. loaded # 3
    BY <1>6 DEF ClearFlag, Typed, TypeOK
  <2> QED
    BY <1>1, <2>1, <2>2, <2>3, MainStepTypes
<1> QED
  BY <1>3, <1>4, <1>5, <1>6 DEF Main

LEMMA TypedNext == ASSUME Typed, [Next]_vars PROVE Typed'
<1>1. CASE UNCHANGED vars
  BY <1>1
  DEF Typed, TypeOK, Pos, Sending, vars, device, decoder, main, sender, history
<1> QED
  BY <1>1, StartTyped, LoseTyped, ReceiveTyped, MainTyped DEF Next

\* Whatever characters are lost, the decoder keeps its types: no digit is stored
\* outside the fields, no number leaves its field, the commas counted are no
\* more than the characters buffered, and GPS_send is never past its last field.
THEOREM TypeCorrect == Spec => []TypeOK
<1>1. Typed => TypeOK
  BY DEF Typed
<1>2. Typed /\ [Next]_vars => Typed'
  BY TypedNext
<1> QED
  BY <1>1, <1>2, TypedInit, PTL DEF Spec

-----------------------------------------------------------------------------
\* What the main loop and a stutter leave alone.
LEMMA MainLeavesDecoder ==
    ASSUME Main \/ UNCHANGED vars
    PROVE  /\ UNCHANGED <<line, nth, comma, GPS_flags_a, GPS_package, begun,
                          damaged, overlapped, raced>>
           /\ Pos' = Pos /\ Done' = Done
<1>1. UNCHANGED <<line, nth, comma, GPS_flags_a, GPS_package, begun, damaged,
                  overlapped, raced>>
  BY DEF Main, Poll, LoadLow, LoadHighAndWrite, ClearFlag, LidarOff,
         SetSerialLoad, SetSerialStore, Console, vars, device, decoder, history
<1> QED
  BY <1>1 DEF Pos, Done

\* A character that comes, with its place in the sentence.
LEMMA Received ==
    ASSUME Typed, Receive
    PROVE  /\ nth \in 1..Len(Feed) /\ nth' = nth /\ damaged' = damaged
           /\ line # <<>> /\ Decode(Head(line))
           /\ Pos \in Nat /\ Pos' = Pos + 1 /\ Pos + 1 \in 1..Len(Feed[nth])
           /\ Head(line) = Feed[nth][Pos + 1]
           /\ Head(line) = "$" <=> Pos = 0
           /\ Head(line) = "LF" <=> line' = <<>>
           /\ begun' = IF Head(line) = "$" THEN nth ELSE begun
<1>1. /\ nth' = nth /\ damaged' = damaged /\ Decode(Head(line))
      /\ line # <<>> /\ line' = Tail(line)
      /\ begun' = IF Head(line) = "$" THEN nth ELSE begun
  BY DEF Receive
<1>2. /\ nth \in 1..Len(Feed) /\ Pos \in Nat /\ Pos < Len(Feed[nth])
      /\ Head(line) = Feed[nth][Pos + 1] /\ Pos' = Pos + 1
      /\ line' = <<>> <=> Pos + 1 = Len(Feed[nth])
  BY <1>1, HeadFacts
<1>3. PICK n \in Nat : n = Len(Feed[nth])
  BY <1>2, SentenceFacts
<1>4. Pos + 1 \in 1..Len(Feed[nth])
  BY <1>2, <1>3
<1>5. /\ Feed[nth][Pos + 1] = "$" <=> Pos + 1 = 1
      /\ Feed[nth][Pos + 1] = "LF" <=> Pos + 1 = Len(Feed[nth])
  BY <1>2, <1>4, SentenceFacts
<1>6. Pos + 1 = 1 <=> Pos = 0
  BY <1>2
<1> QED
  BY <1>1, <1>2, <1>4, <1>5, <1>6

LEMMA Started ==
    ASSUME Typed, StartSentence
    PROVE  /\ nth' = nth + 1 /\ nth' \in 1..Len(Feed) /\ Pos' = 0
           /\ line = <<>> /\ line' # <<>>
           /\ nth \in Nat /\ nth > 0 => nth \in 1..Len(Feed)
           /\ nth > 0 => Pos = Len(Feed[nth]) /\ Pos > 0
           /\ UNCHANGED decoder /\ UNCHANGED main
           /\ UNCHANGED <<begun, damaged, raced>>
<1>1. /\ nth' = nth + 1 /\ nth < Len(Feed) /\ line' = Feed[nth'] /\ line = <<>>
      /\ UNCHANGED decoder /\ UNCHANGED main
      /\ UNCHANGED <<begun, damaged, raced>>
  BY DEF StartSentence
<1>2. nth \in Nat /\ nth > 0 => nth \in 1..Len(Feed)
  BY LineFacts
<1>3. PICK k \in 1..Len(Feed) : k = nth'
  BY <1>1, <1>2, LineFacts
<1>4. Len(Feed[k]) \in Nat \ {0} /\ Feed[k] # <<>>
  BY SentenceFacts, EmptySeq
<1>5. Pos' = 0 /\ line' # <<>>
  BY <1>1, <1>3, <1>4 DEF Pos
<1>6. ASSUME nth > 0 PROVE Pos = Len(Feed[nth]) /\ Pos > 0
  BY <1>1, <1>2, <1>6, LineFacts, SentenceFacts
<1> QED
  BY <1>1, <1>2, <1>3, <1>5, <1>6

LEMMA FollowedInit == Init => Followed
  BY DEF Init, Followed

LEMMA FollowedNext == ASSUME Typed, Followed, [Next]_vars PROVE Followed'
<1>0. nth \in Nat /\ begun \in 0..nth
  BY LineFacts DEF Typed, TypeOK
<1>1. CASE StartSentence
  BY <1>0, <1>1, Started DEF Followed
<1>2. CASE LoseCharacter
  <2>1. nth' = nth /\ begun' = begun /\ damaged' = damaged \cup {nth}
    BY <1>2 DEF LoseCharacter
  <2> QED
    BY <2>1 DEF Followed
<1>3. CASE Receive
  <2>1. nth' \notin damaged' => begun' = nth'
    BY <1>3, Received DEF Followed
  <2>2. begun' = 0 => begun = 0
    BY <1>3, Received
  <2> QED
    BY <1>3, <2>1, <2>2, Received DEF Followed
<1>4. CASE Main \/ UNCHANGED vars
  BY <1>4, MainLeavesDecoder DEF Followed
<1> QED
  BY <1>1, <1>2, <1>3, <1>4 DEF Next

\* What is asked of a feed beyond the form of its sentences.
AllRmc == \A k \in DOMAIN Feed : IsRmc(Feed[k])

LEMMA NineCommas ==
    ASSUME AllRmc, NEW k \in 1..Len(Feed)
    PROVE  CommasBefore(Feed[k], Len(Feed[k]) + 1) >= 9
<1>1. PICK s \in Seq(STRING), n \in Nat \ {0} : s = Feed[k] /\ n = Len(s)
  BY SentenceFacts
<1>2. CommasBefore(s, n) >= 9
  <2>1. k \in DOMAIN Feed
    BY FeedAssumption, LenProperties
  <2> QED
    BY <1>1, <2>1 DEF AllRmc, IsRmc
<1>3. /\ CommasBefore(s, n) \in Nat
      /\ \/ CommasBefore(s, n + 1) = CommasBefore(s, n) + 1
         \/ CommasBefore(s, n + 1) = CommasBefore(s, n)
  BY <1>1, CommasByOne
<1>4. CommasBefore(s, n + 1) >= 9
  BY <1>2, <1>3
<1> QED
  BY <1>1, <1>4

\* A character of a field, and where it stands.
LEMMA InText ==
    ASSUME NEW s \in Seq(STRING), NEW i \in 1..Len(s), NEW n
    PROVE  i \in Text(s, n) <=> /\ s[i] \notin Punctuation
                                /\ CommasBefore(s, i) = n
<1>1. DOMAIN s = 1..Len(s)
  BY LenProperties
<1> QED
  BY <1>1 DEF Text

\* Behind the ninth comma a character changes nothing but the count of commas
\* and, at the end, the flag.
LEMMA DecodeBehind ==
    ASSUME Typed, comma >= 9, NEW ch, ch # "$", Decode(ch)
    PROVE  comma' >= 9 /\ UNCHANGED <<GPS_package, GPS_flags_a>>
<1>1. comma \in Nat
  BY DecoderTypes
<1>2. CASE ch = "COMMA"
  BY <1>1, <1>2 DEF Decode, Comma
<1>3. CASE ch = "LF"
  BY <1>3 DEF Decode, EndOfPacket
<1>4. CASE ch \notin {"$", "COMMA", "LF"}
  <2>1. comma # 2 /\ comma \notin DOMAIN FieldAt
    BY <1>1 DEF FieldAt
  <2> QED
    BY <1>4, <2>1 DEF Decode, Ignored
<1> QED
  BY <1>2, <1>3, <1>4

LEMMA DecodedStart ==
    ASSUME Typed, AllRmc, Decoded, StartSentence PROVE Decoded'
<1> SUFFICES ASSUME Known
             PROVE  /\ \A n \in DOMAIN FieldAt :
                          GPS_package[FieldAt[n]] =
                              Spelled(Feed[begun], n)[Done']
                    /\ comma >= 9
                    /\ GPS_flags_a = 0 =>
                          \A i \in Text(Feed[begun], 2) :
                              i <= Done' => Feed[begun][i] = "A"
  <2>1. /\ UNCHANGED <<begun, damaged, comma, GPS_flags_a, GPS_package>>
        /\ nth' = nth + 1 /\ nth \in Nat /\ begun \in 0..nth
    BY Started DEF decoder, Typed, TypeOK
  <2>2. begun' < nth' /\ Known' = Known
    BY <2>1 DEF Known
  <2> QED
    BY <2>1, <2>2 DEF Decoded
<1>1. /\ begun' = begun /\ nth' = nth + 1 /\ nth \in Nat
      /\ begun \in 0..nth /\ begun > 0
  BY Started DEF Known, Typed, TypeOK
<1>2. Done' = Len(Feed[begun])
  BY <1>1 DEF Done
<1>3. CASE begun = nth
  <2>1. nth \in 1..Len(Feed) /\ Pos = Len(Feed[nth])
    BY <1>1, <1>3, Started
  <2>2. Done = Done'
    BY <1>2, <1>3, <2>1 DEF Done
  <2>3. comma = CommasBefore(Feed[nth], Len(Feed[nth]) + 1)
    BY <1>3, <2>1 DEF Decoded
  <2>4. comma >= 9
    BY <2>1, <2>3, NineCommas
  <2> QED
    BY <2>2, <2>4 DEF Decoded
<1>4. CASE begun # nth
  <2>1. Done = Done' /\ begun < nth
    BY <1>1, <1>2, <1>4 DEF Done
  <2> QED
    BY <2>1 DEF Decoded
<1> QED
  BY <1>3, <1>4

LEMMA DecodedLose == ASSUME Typed, Decoded, LoseCharacter PROVE Decoded'
<1>1. /\ UNCHANGED <<nth, begun, comma, GPS_flags_a, GPS_package>>
      /\ damaged' = damaged \cup {nth}
  BY DEF LoseCharacter, decoder
<1>2. Known' => Known /\ begun # nth
  BY <1>1 DEF Known
<1>3. Known' => Done' = Done
  BY <1>1, <1>2 DEF Done
<1> QED
  BY <1>1, <1>2, <1>3 DEF Decoded

\* The branches of the interrupt, for anything but a dollar sign.
DecodeSays(ch) ==
    /\ ch = "COMMA" => comma' = comma + 1
    /\ ch # "COMMA" => comma' = comma
    /\ ch \in Punctuation => UNCHANGED <<GPS_flags_a, GPS_package>>
    /\ ch \notin Punctuation =>
          /\ comma \in DOMAIN FieldAt =>
                GPS_package' = [GPS_package EXCEPT
                    ![FieldAt[comma]] = (10 * GPS_package[FieldAt[comma]]
                                            + Code[ch]) % Size[FieldAt[comma]]]
          /\ comma \notin DOMAIN FieldAt => UNCHANGED GPS_package
          /\ comma = 2 =>
                GPS_flags_a' = IF ch # "A" THEN 1 ELSE GPS_flags_a
          /\ comma # 2 => UNCHANGED GPS_flags_a

LEMMA DecodeByKind ==
    ASSUME NEW ch, ch # "$", Decode(ch)
    PROVE  DecodeSays(ch)
<1>1. CASE ch = "COMMA"
  BY <1>1 DEF Decode, Comma, DecodeSays, Punctuation
<1>2. CASE ch = "LF"
  BY <1>2 DEF Decode, EndOfPacket, DecodeSays, Punctuation
<1>3. CASE ch = "."
  BY <1>3 DEF Decode, Ignored, DecodeSays, Punctuation
<1>4. CASE ch \notin Punctuation
  <2>1. ch # "COMMA"
    BY <1>4 DEF Punctuation
  <2>2. 2 \notin DOMAIN FieldAt
    BY DEF FieldAt
  <2>3. \/ comma = 2 /\ Status(ch)
        \/ comma # 2 /\ comma \in DOMAIN FieldAt /\ Digit(ch)
        \/ comma # 2 /\ comma \notin DOMAIN FieldAt /\ Ignored
    BY <1>4, <2>2 DEF Decode, Punctuation
  <2>4. CASE comma = 2 /\ Status(ch)
    BY <1>4, <2>1, <2>2, <2>4 DEF Status, DecodeSays
  <2>5. CASE comma # 2 /\ comma \in DOMAIN FieldAt /\ Digit(ch)
    BY <1>4, <2>1, <2>5 DEF Digit, DecodeSays
  <2>6. CASE comma # 2 /\ comma \notin DOMAIN FieldAt /\ Ignored
    BY <1>4, <2>1, <2>6 DEF Ignored, DecodeSays
  <2> QED
    BY <2>3, <2>4, <2>5, <2>6
<1> QED
  BY <1>1, <1>2, <1>3, <1>4 DEF Punctuation

\* A character of the sentence that is followed.
LEMMA DecodedOn ==
    ASSUME Typed, Decoded, Known, begun = nth, Receive, Pos > 0
    PROVE  Decoded'
<1>1. /\ nth \in 1..Len(Feed) /\ nth' = nth /\ damaged' = damaged
      /\ begun' = begun /\ Decode(Head(line))
      /\ Pos' = Pos + 1 /\ Pos \in Nat /\ Pos + 1 \in 1..Len(Feed[nth])
      /\ Head(line) = Feed[nth][Pos + 1] /\ Head(line) # "$"
  BY Received
<1>2. PICK s \in Seq(STRING), i \in Nat \ {0}, ch \in STRING :
          /\ s = Feed[nth] /\ i = Pos + 1 /\ ch = s[i]
  <2>1. Feed[nth] \in Seq(STRING) /\ Pos + 1 \in Nat \ {0}
    BY <1>1, SentenceFacts
  <2>2. Feed[nth][Pos + 1] \in STRING
    BY <1>1, <2>1
  <2> QED
    BY <2>1, <2>2
<1>3. /\ i \in 1..Len(s) /\ Decode(ch) /\ ch # "$" /\ i - 1 = Pos
  BY <1>1, <1>2
<1>4. /\ Done = i - 1 /\ Done' = i /\ begun' = nth'
  BY <1>1, <1>2, <1>3 DEF Done
<1>5. /\ \A n \in DOMAIN FieldAt :
            GPS_package[FieldAt[n]] = Spelled(s, n)[i - 1]
      /\ comma = CommasBefore(s, i)
      /\ GPS_flags_a = 0 =>
            \A j \in Text(s, 2) : j <= i - 1 => s[j] = "A"
  BY <1>1, <1>2, <1>4 DEF Decoded
<1>6. ASSUME NEW n
      PROVE  i \in Text(s, n) <=> ch \notin Punctuation /\ comma = n
  BY <1>2, <1>3, <1>5, InText
<1>7. /\ comma \in Nat
      /\ ch = "COMMA" => CommasBefore(s, i + 1) = comma + 1
      /\ ch # "COMMA" => CommasBefore(s, i + 1) = comma
  BY <1>2, <1>5, CommasByOne
<1>8. ASSUME NEW n
      PROVE  Spelled(s, n)[i] = IF ch \notin Punctuation /\ comma = n
                                THEN 10 * Spelled(s, n)[i - 1] + Code[ch]
                                ELSE Spelled(s, n)[i - 1]
  BY <1>2, <1>3, <1>6, SpelledByOne
<1>9. DecodeSays(ch)
  BY <1>3, <1>7, DecodeByKind
<1>10. comma' = CommasBefore(s, i + 1)
  BY <1>7, <1>9 DEF DecodeSays
<1>11. ASSUME NEW n \in DOMAIN FieldAt
       PROVE  GPS_package'[FieldAt[n]] = Spelled(s, n)[i]
  <2>1. CASE ch \notin Punctuation /\ comma = n
    <3>1. PICK g, x : g = FieldAt[n] /\ x = 10 * GPS_package[g] + Code[ch]
      OBVIOUS
    <3>2. g \in DOMAIN GPS_package /\ Size[g] \in Nat \ {0}
      BY <3>1, SizeFacts DEF Typed, TypeOK
    <3>3. GPS_package'[g] = x % Size[g]
      <4>1. GPS_package' = [GPS_package EXCEPT ![g] = x % Size[g]]
        BY <1>9, <2>1, <3>1 DEF DecodeSays
      <4> QED
        BY <3>2, <4>1
    <3>4. x = Spelled(s, n)[i]
      BY <1>5, <1>8, <2>1, <3>1
    <3>5. Spelled(s, n)[i] \in 0..(Size[g] - 1)
      <4>1. i \in 0..Len(Feed[nth])
        BY <1>2, <1>3
      <4> QED
        BY <1>1, <1>2, <3>1, <4>1, SizeFacts
    <3>6. x \in Int /\ x \in 0..(Size[g] - 1)
      BY <3>2, <3>4, <3>5
    <3>7. x % Size[g] = x
      BY <3>2, <3>6, Remainder
    <3> QED
      BY <3>1, <3>3, <3>4, <3>7
  <2>2. CASE ch \in Punctuation \/ comma # n
    <3>1. GPS_package'[FieldAt[n]] = GPS_package[FieldAt[n]]
      <4>1. CASE ch \notin Punctuation /\ comma \in DOMAIN FieldAt
        <5>1. GPS_package' = [GPS_package EXCEPT
                    ![FieldAt[comma]] = (10 * GPS_package[FieldAt[comma]]
                                            + Code[ch]) % Size[FieldAt[comma]]]
          BY <1>9, <4>1 DEF DecodeSays
        <5>2. FieldAt[n] # FieldAt[comma] /\ FieldAt[n] \in Field
          BY <2>2, <4>1 DEF FieldAt, Field
        <5> QED
          BY <5>1, <5>2 DEF Typed, TypeOK
      <4>2. CASE ch \in Punctuation \/ comma \notin DOMAIN FieldAt
        BY <1>9, <4>2 DEF DecodeSays
      <4> QED
        BY <4>1, <4>2
    <3> QED
      BY <1>5, <1>8, <2>2, <3>1
  <2> QED
    BY <2>1, <2>2
<1>12. ASSUME GPS_flags_a' = 0, NEW j \in Text(s, 2), j <= i PROVE s[j] = "A"
  <2>1. GPS_flags_a = 0 /\ (ch \notin Punctuation /\ comma = 2 => ch = "A")
    BY <1>9, <1>12 DEF DecodeSays
  <2>2. CASE j = i
    BY <1>2, <1>6, <2>1, <2>2
  <2>3. CASE j # i
    <3>1. j \in 1..Len(s)
      BY <1>2, LenProperties DEF Text
    <3>2. j <= i - 1
      BY <1>12, <2>3, <3>1
    <3> QED
      BY <1>5, <2>1, <3>2
  <2> QED
    BY <2>2, <2>3
<1>13. /\ Feed[begun'] = s /\ Feed[nth'] = s /\ Done' = i /\ Pos' + 1 = i + 1
       /\ begun' = nth' /\ nth' \in Nat
  BY <1>1, <1>2, <1>4
<1>14. /\ \A n \in DOMAIN FieldAt :
              GPS_package'[FieldAt[n]] = Spelled(Feed[begun'], n)[Done']
       /\ comma' = CommasBefore(Feed[nth'], Pos' + 1)
       /\ ~(begun' < nth')
  BY <1>10, <1>11, <1>13
<1>15. GPS_flags_a' = 0 => \A j \in Text(Feed[begun'], 2) :
                              j <= Done' => Feed[begun'][j] = "A"
  BY <1>12, <1>13
<1> QED
  BY <1>14, <1>15 DEF Decoded

\* A dollar sign begins a sentence: nothing of it is decoded yet.
LEMMA DecodedDollar ==
    ASSUME Typed, Receive, Pos = 0
    PROVE  Decoded'
<1>1. /\ nth \in 1..Len(Feed) /\ nth' = nth /\ damaged' = damaged
      /\ begun' = nth /\ Head(line) = "$" /\ Decode(Head(line)) /\ Pos' = 1
      /\ 1 \in 1..Len(Feed[nth]) /\ Feed[nth][1] = "$"
  BY Received
<1>2. /\ comma' = 0 /\ GPS_flags_a' = 0 /\ GPS_package' = Blank
  BY <1>1 DEF Decode, Dollar
<1>3. PICK s \in Seq(STRING) : s = Feed[nth]
  BY <1>1, SentenceFacts
<1>4. 1 \in 1..Len(s) /\ s[1] \in Punctuation /\ s[1] # "COMMA"
  BY <1>1, <1>3 DEF Punctuation
<1>5. ASSUME NEW n \in DOMAIN FieldAt
      PROVE  GPS_package'[FieldAt[n]] = Spelled(s, n)[1]
  <2>1. 1 \notin Text(s, n)
    BY <1>4, InText
  <2>2. Spelled(s, n)[1] = Spelled(s, n)[1 - 1] /\ Spelled(s, n)[0] = 0
    BY <1>4, <2>1, SpelledByOne
  <2>3. Blank[FieldAt[n]] = 0
    BY DEF Blank, FieldAt, Field
  <2> QED
    BY <1>2, <2>2, <2>3
<1>6. CommasBefore(s, 1 + 1) = 0
  BY <1>4, CommasByOne
<1>7. ASSUME NEW j \in Text(s, 2), j <= 1 PROVE s[j] = "A"
  <2>1. j \in 1..Len(s)
    BY LenProperties DEF Text
  <2>2. j = 1
    BY <1>7, <2>1
  <2> QED
    BY <1>4, <2>2, InText
<1>8. /\ Feed[begun'] = s /\ Feed[nth'] = s /\ Done' = 1 /\ ~(begun' < nth')
  BY <1>1, <1>3 DEF Done
<1>9. /\ \A n \in DOMAIN FieldAt :
             GPS_package'[FieldAt[n]] = Spelled(Feed[begun'], n)[Done']
      /\ comma' = CommasBefore(Feed[nth'], Pos' + 1)
  BY <1>1, <1>2, <1>5, <1>6, <1>8
<1>10. \A j \in Text(Feed[begun'], 2) : j <= Done' => Feed[begun'][j] = "A"
  BY <1>7, <1>8
<1> QED
  BY <1>8, <1>9, <1>10 DEF Decoded

\* A character of a sentence whose dollar sign was lost.
LEMMA DecodedBehind ==
    ASSUME Typed, Decoded, Receive, Pos > 0, begun # nth
    PROVE  Decoded'
<1>1. /\ nth' = nth /\ damaged' = damaged /\ begun' = begun
      /\ Head(line) # "$" /\ Decode(Head(line))
      /\ nth \in Nat /\ begun \in 0..nth
  BY Received DEF Typed, TypeOK
<1>2. Known' = Known /\ Done' = Done /\ begun < nth
  BY <1>1 DEF Known, Done
<1> SUFFICES ASSUME Known PROVE Decoded'
  BY <1>2 DEF Decoded
<1>3. comma >= 9
  BY <1>2 DEF Decoded
<1>4. PICK ch : ch = Head(line)
  OBVIOUS
<1>5. comma' >= 9 /\ UNCHANGED <<GPS_package, GPS_flags_a>>
  BY <1>1, <1>3, <1>4, DecodeBehind
<1> QED
  BY <1>1, <1>2, <1>5 DEF Decoded

LEMMA DecodedInit == Init => Decoded
  BY DEF Init, Decoded, Known

LEMMA DecodedNext ==
    ASSUME AllRmc, Typed, Followed, Decoded, [Next]_vars PROVE Decoded'
<1>1. CASE Receive
  <2>1. Pos \in Nat /\ nth' = nth /\ nth > 0
    BY <1>1, Received
  <2>2. CASE Pos = 0
    BY <1>1, <2>2, DecodedDollar
  <2>3. CASE Pos > 0 /\ begun # nth
    BY <1>1, <2>3, DecodedBehind
  <2>4. CASE Pos > 0 /\ begun = nth /\ Known
    BY <1>1, <2>4, DecodedOn
  <2>5. CASE Pos > 0 /\ begun = nth /\ ~Known
    <3>1. begun' = begun /\ damaged' = damaged
      BY <1>1, <2>5, Received
    <3> QED
      BY <2>5, <3>1 DEF Decoded, Known
  <2> QED
    BY <2>1, <2>2, <2>3, <2>4, <2>5
<1>2. CASE Main \/ UNCHANGED vars
  BY <1>2, MainLeavesDecoder DEF Decoded, Known
<1> QED
  BY <1>1, <1>2, DecodedStart, DecodedLose DEF Next

-----------------------------------------------------------------------------
\* The flag.
LEMMA VouchedInit == Init => Vouched
  BY DEF Init, Vouched

LEMMA VouchedNext ==
    ASSUME Typed, Followed, Vouched, [Next]_vars PROVE Vouched'
<1>0. nth \in Nat /\ begun \in 0..nth
  BY LineFacts DEF Typed, TypeOK
<1>1. CASE StartSentence
  BY <1>0, <1>1, Started DEF Vouched, main, decoder
<1>2. CASE LoseCharacter
  <2>1. /\ UNCHANGED <<nth, begun, flag3, loaded, raced>>
        /\ line # <<>> /\ damaged' = damaged \cup {nth}
    BY <1>2 DEF LoseCharacter, decoder, main
  <2> QED
    BY <2>1 DEF Vouched
<1>3. CASE Receive
  <2> SUFFICES ASSUME flag3' = 3 \/ loaded' = 3, begun' \notin raced'
               PROVE  /\ begun' = nth' => line' = <<>>
                      /\ begun' = 0 => 1 \in damaged'
    BY DEF Vouched
  <2>1. /\ loaded' = loaded /\ raced \subseteq raced'
        /\ pc \in {"store_off", "store_on"} /\ flag3' # loaded =>
              nth \in raced'
    BY <1>3 DEF Receive, main
  <2>2. loaded = 3 => pc \in {"store_off", "store_on"}
    BY DEF Typed, TypeOK
  <2>3. ASSUME begun' = nth' PROVE line' = <<>>
    <3>1. CASE Head(line) = "$"
      <4>1. flag3' = 0 /\ begun' = nth
        BY <1>3, <3>1, Received DEF Decode, Dollar
      <4> QED
        BY <2>1, <2>2, <4>1
    <3>2. CASE Head(line) # "$"
      <4>1. begun' = begun /\ begun = nth /\ line # <<>> /\ nth' = nth
        BY <1>3, <2>3, <3>2, Received
      <4>2. flag3 # 3 /\ loaded # 3
        BY <2>1, <4>1 DEF Vouched
      <4>3. flag3' = 3
        BY <2>1, <4>2
      <4>4. Head(line) = "LF"
        BY <1>3, <3>2, <4>2, <4>3, Received
        DEF Decode, Comma, Ignored, Status, Digit
      <4> QED
        BY <1>3, <4>4, Received
    <3> QED
      BY <3>1, <3>2
  <2>4. begun' = 0 => 1 \in damaged'
    <3>1. Followed' /\ nth' \in Nat /\ nth' > 0 /\ Pos' > 0
      BY <1>3, FollowedNext, Received DEF Next
    <3> QED
      BY <3>1 DEF Followed
  <2> QED
    BY <2>3, <2>4
<1>4. CASE Main \/ UNCHANGED vars
  <2>1. UNCHANGED <<line, nth, begun, damaged, raced>>
    BY <1>4, MainLeavesDecoder
  <2>2. CASE SetSerialLoad
    BY <2>1, <2>2 DEF SetSerialLoad, Vouched, decoder
  <2>3. CASE SetSerialStore
    BY <2>1, <2>3 DEF SetSerialStore, Vouched
  <2>4. CASE ClearFlag
    BY <2>1, <2>4 DEF ClearFlag, Vouched
  <2>5. CASE \/ Poll \/ LoadLow \/ LoadHighAndWrite \/ LidarOff \/ Console
             \/ UNCHANGED vars
    <3>1. flag3' = flag3 /\ loaded' = loaded
      BY <2>5 DEF Poll, LoadLow, LoadHighAndWrite, LidarOff, Console, vars,
                  decoder, main
    <3> QED
      BY <2>1, <3>1 DEF Vouched
  <2> QED
    BY <1>4, <2>2, <2>3, <2>4, <2>5 DEF Main
<1> QED
  BY <1>1, <1>2, <1>3, <1>4 DEF Next

\* A sentence that has come as a whole is decoded as a whole.
LEMMA WholeSentence ==
    ASSUME Typed, Decoded, Known, begun = nth => line = <<>>
    PROVE  /\ GPS_package = Meaning[begun]
           /\ AllRmc /\ GPS_flags_a = 0 => HasFix(Feed[begun])
<1>1. /\ begun \in 1..Len(Feed) /\ nth \in 1..Len(Feed)
      /\ DOMAIN Feed = 1..Len(Feed)
  <2>1. begun \in 0..nth /\ nth \in 0..Len(Feed) /\ Len(Feed) \in Nat
    BY LineFacts DEF Typed, TypeOK
  <2>2. DOMAIN Feed = 1..Len(Feed)
    BY FeedAssumption, LenProperties
  <2> QED
    BY <2>1, <2>2 DEF Known
<1>2. PICK s \in Seq(STRING), l \in Nat : s = Feed[begun] /\ l = Len(s)
  BY <1>1, SentenceFacts
<1>3. Done = l
  <2>1. CASE begun = nth
    BY <1>1, <1>2, <2>1, LineFacts DEF Done
  <2>2. CASE begun # nth
    BY <1>2, <2>2 DEF Done
  <2> QED
    BY <2>1, <2>2
<1>4. ASSUME NEW f \in Field
      PROVE  GPS_package[f] = Spelled(s, PlaceOf[f])[l]
  <2>1. \E n \in DOMAIN FieldAt : FieldAt[n] = f
    <3>1. /\ {1, 3, 5, 7, 8} = DOMAIN FieldAt
          /\ FieldAt[1] = "time" /\ FieldAt[3] = "latitude"
          /\ FieldAt[5] = "longitude" /\ FieldAt[7] = "speed"
          /\ FieldAt[8] = "course"
      BY DEF FieldAt
    <3> QED
      BY <3>1 DEF Field
  <2>2. PlaceOf[f] \in DOMAIN FieldAt /\ FieldAt[PlaceOf[f]] = f
    BY <2>1 DEF PlaceOf
  <2> QED
    BY <1>2, <1>3, <2>2 DEF Decoded
<1>5. GPS_package = Says(s)
  <2>1. GPS_package = [f \in Field |-> GPS_package[f]]
    BY DEF Typed, TypeOK
  <2> QED
    BY <1>2, <1>4, <2>1 DEF Says
<1>6. Meaning[begun] = Says(s)
  BY <1>1, <1>2 DEF Meaning
<1>7. ASSUME AllRmc, GPS_flags_a = 0 PROVE HasFix(s)
  <2>1. \A i \in Text(s, 2) : s[i] = "A"
    <3> TAKE i \in Text(s, 2)
    <3>1. i \in 1..l
      BY <1>2, LenProperties DEF Text
    <3> QED
      BY <1>2, <1>3, <1>7, <3>1 DEF Decoded
  <2>2. Text(s, 2) # {}
    BY <1>1, <1>2, <1>7 DEF AllRmc, IsRmc
  <2>3. {s[i] : i \in Text(s, 2)} = {"A"}
    BY <2>1, <2>2, Zenon
  <2> QED
    BY <2>3 DEF HasFix
<1> QED
  BY <1>2, <1>5, <1>6, <1>7

\* flag3 vouches for a whole package, for every feed of RMC sentences, every
\* interleaving of the interrupt with the main loop and any losses, unless a
\* character of the sentence itself fell between a setSerial's load and store.
THEOREM FlagIsTrue ==
    ASSUME AllRmc PROVE Spec => []FlagMeansComplete
<1> DEFINE Inv == Typed /\ Followed /\ Decoded /\ Vouched
<1>1. Init => Inv
  BY TypedInit, FollowedInit, DecodedInit, VouchedInit
<1>2. Inv /\ [Next]_vars => Inv'
  BY AllRmc, TypedNext, FollowedNext, DecodedNext, VouchedNext
<1>3. Inv => FlagMeansComplete
  <2> SUFFICES ASSUME Inv, flag3 = 3, begun \notin raced
               PROVE  /\ begun = nth => line = <<>>
                      /\ \/ begun > 0 /\ GPS_package = Meaning[begun]
                         \/ begun \in damaged
                         \/ begun = 0 /\ 1 \in damaged
    BY DEF FlagMeansComplete
  <2>1. begun = nth => line = <<>>
    BY DEF Vouched
  <2>2. CASE Known
    BY <2>1, <2>2, WholeSentence DEF Known
  <2>3. CASE ~Known
    <3>1. begun \in Nat
      BY LineFacts DEF Typed, TypeOK
    <3> QED
      BY <2>1, <2>3, <3>1 DEF Known, Vouched
  <2> QED
    BY <2>2, <2>3
<1> QED
  BY <1>1, <1>2, <1>3, PTL DEF Spec
-----------------------------------------------------------------------------
\* GPS_send.
LEMMA OrderlyInit == Init => Orderly
<1> SUFFICES ASSUME Init PROVE Orderly
  OBVIOUS
<1>1. flag3 = 0 /\ loaded = 0 /\ pc = "poll" /\ Len(message) = 0
  BY EmptySeq DEF Init
<1>2. 1 \notin overlapped
  BY DEF Init
<1> QED
  BY <1>1, <1>2 DEF Orderly, Busy, Sending

\* While the main loop has nothing to do with a sentence.
LEMMA NothingToSend ==
    ASSUME Typed, ~Busy
    PROVE  flag3 # 3 /\ loaded # 3 /\ ~Sending /\ Len(message) = 0
  BY EmptySeq DEF Busy, Typed

\* It has to do with another one only when a flag goes up.
LEMMA BusySince ==
    ASSUME Typed, [Next]_vars, ~Busy, Busy'
    PROVE  Receive /\ Head(line) = "LF"
<1>1. flag3 # 3 /\ loaded # 3 /\ ~Sending
  BY NothingToSend
<1>2. CASE StartSentence \/ LoseCharacter \/ UNCHANGED vars
  <2>1. UNCHANGED <<flag3, loaded, pc>>
    BY <1>2 DEF StartSentence, LoseCharacter, vars, decoder, main
  <2> QED
    BY <1>1, <2>1 DEF Busy, Sending
<1>3. CASE Receive
  <2>1. UNCHANGED <<loaded, pc>> /\ Decode(Head(line))
    BY <1>3 DEF Receive, main
  <2>2. flag3' = 3
    BY <1>1, <2>1 DEF Busy, Sending
  <2>3. Head(line) = "LF"
    BY <1>1, <2>1, <2>2 DEF Decode, Dollar, Comma, Ignored, Status, Digit
  <2> QED
    BY <1>3, <2>3
<1>4. CASE Main
  <2>1. CASE Poll \/ LidarOff \/ Console
    <3>1. UNCHANGED <<flag3, loaded>> /\ ~Sending'
      <4>1. CASE Poll
        BY <1>1, <4>1 DEF Poll, decoder, Sending
      <4>2. CASE LidarOff
        BY <1>1, <4>2 DEF LidarOff, After, decoder, Sending
      <4>3. CASE Console
        BY <1>1, <4>3 DEF Console, After, decoder, Sending
      <4> QED
        BY <2>1, <4>1, <4>2, <4>3
    <3> QED
      BY <1>1, <3>1 DEF Busy
  <2>2. CASE LoadLow \/ LoadHighAndWrite \/ ClearFlag
    BY <1>1, <2>2 DEF LoadLow, LoadHighAndWrite, ClearFlag, Sending
  <2>3. CASE SetSerialLoad
    <3>1. /\ flag3' = flag3 /\ loaded' = flag3
          /\ pc' \in {"store_off", "store_on"}
      BY <2>3 DEF SetSerialLoad, decoder
    <3> QED
      BY <1>1, <3>1 DEF Busy, Sending
  <2>4. CASE SetSerialStore
    <3>1. /\ flag3' = loaded /\ loaded' = 0
          /\ pc' \in {"scan", "console", "radio", "poll"}
      BY <2>4 DEF SetSerialStore, Typed, TypeOK
    <3> QED
      BY <1>1, <3>1 DEF Busy, Sending
  <2> QED
    BY <1>4, <2>1, <2>2, <2>3, <2>4 DEF Main
<1> QED
  BY <1>2, <1>3, <1>4 DEF Next

LEMMA OrderlyNext ==
    ASSUME Typed, Orderly, [Next]_vars PROVE Orderly'
<1>0. 1 \notin overlapped'
  <2>1. CASE StartSentence
    <3>1. nth \in Nat /\ (nth = 0 => nth \notin overlapped)
      BY DecoderTypes
    <3>2. nth = 0 => ~Busy
      BY <3>1 DEF Orderly
    <3> QED
      BY <2>1, <3>1, <3>2 DEF StartSentence, Orderly
  <2>2. CASE ~StartSentence
    <3>1. overlapped' = overlapped
      BY <2>2, MainLeavesDecoder DEF Next, LoseCharacter, Receive
    <3> QED
      BY <3>1 DEF Orderly
  <2> QED
    BY <2>1, <2>2
<1> SUFFICES ASSUME nth' \notin overlapped'
             PROVE  /\ Busy' => nth' > 0 /\ line' = <<>> /\ GPS_flags_a' = 0
                    /\ pc' = "high" => half' = Current'
                    /\ \A j \in 1..Len(message') :
                          message'[j] = {GPS_package'[SendOrder[j]]}
  BY <1>0 DEF Orderly
<1>1. CASE StartSentence
  <2>1. ~Busy
    BY <1>1 DEF StartSentence
  <2>2. Len(message) = 0 /\ ~Sending
    BY <2>1, NothingToSend
  <2>3. ~Busy'
    BY <1>1, <2>1, BusySince DEF Next, StartSentence, Receive
  <2>4. pc' = pc /\ message' = message
    BY <1>1 DEF StartSentence, main, sender
  <2> QED
    BY <2>2, <2>3, <2>4 DEF Sending
<1>2. CASE LoseCharacter
  <2>1. nth \notin overlapped /\ line # <<>>
    BY <1>2 DEF LoseCharacter
  <2>2. ~Busy
    BY <2>1 DEF Orderly
  <2>3. UNCHANGED <<pc, message, flag3, loaded>>
    BY <1>2 DEF LoseCharacter, main, sender, decoder
  <2>4. ~Busy' /\ Len(message') = 0 /\ pc' # "high"
    BY <2>2, <2>3, NothingToSend DEF Busy, Sending
  <2> QED
    BY <2>4
<1>3. CASE Receive
  <2>1. nth \notin overlapped /\ line # <<>>
    BY <1>3 DEF Receive
  <2>2. ~Busy
    BY <2>1 DEF Orderly
  <2>3. pc' = pc /\ message' = message
    BY <1>3 DEF Receive, main, sender
  <2>4. flag3 # 3 /\ ~Sending /\ Len(message) = 0
    BY <2>2, NothingToSend
  <2>5. ASSUME Busy'
        PROVE  nth' > 0 /\ line' = <<>> /\ GPS_flags_a' = 0
    <3>1. Head(line) = "LF"
      BY <1>3, <2>2, <2>5, BusySince
    <3>2. flag3' = 3
      <4>1. UNCHANGED <<loaded, pc>>
        BY <1>3 DEF Receive, main
      <4> QED
        BY <2>2, <2>5, <4>1 DEF Busy, Sending
    <3>3. GPS_flags_a' = GPS_flags_a /\ GPS_flags_a = 0
      BY <1>3, <2>4, <3>1, <3>2, Received DEF Decode, EndOfPacket
    <3> QED
      BY <1>3, <3>1, <3>3, Received
  <2> QED
    BY <2>3, <2>4, <2>5 DEF Sending
<1>4. CASE Main \/ UNCHANGED vars
  <2>1. /\ UNCHANGED <<line, nth, GPS_flags_a, GPS_package>>
        /\ nth \notin overlapped
    BY <1>4, MainLeavesDecoder
  <2>2. /\ Busy => nth > 0 /\ line = <<>> /\ GPS_flags_a = 0
        /\ pc = "high" => half = Current
        /\ \A j \in 1..Len(message) : message[j] = {GPS_package[SendOrder[j]]}
    BY <2>1 DEF Orderly
  <2>3. Busy' => Busy
    <3> SUFFICES ASSUME ~Busy, Busy' PROVE FALSE
      OBVIOUS
    <3>1. Receive
      BY <1>4, BusySince DEF Next
    <3>2. line' = Tail(line) /\ line # <<>> /\ line' = line
      BY <2>1, <3>1 DEF Receive
    <3> QED
      BY <3>2, TailOfLine DEF Typed
  <2>4. CASE LoadLow
    <3>1. message' = message /\ half' = Current /\ Current' = Current
      BY <2>1, <2>4 DEF LoadLow, Current
    <3> QED
      BY <2>1, <2>2, <2>3, <3>1
  <2>5. CASE LoadHighAndWrite
    <3>1. /\ pc' # "high"
          /\ message' = Append(message, {half, Current}) /\ half = Current
      BY <2>2, <2>5 DEF LoadHighAndWrite, SendOrder
    <3>2. PICK n \in Nat : n = Len(message)
      BY LenProperties DEF Typed
    <3>3. /\ Len(message') = n + 1 /\ message'[n + 1] = {half, Current}
          /\ \A j \in 1..n : message'[j] = message[j]
      BY <3>1, <3>2, <1>4
    <3>4. Current = GPS_package[SendOrder[n + 1]]
      BY <3>2 DEF Current
    <3>5. ASSUME NEW j \in 1..Len(message')
          PROVE  message'[j] = {GPS_package'[SendOrder[j]]}
      <4>1. CASE j = n + 1
        BY <2>1, <3>1, <3>3, <3>4, <4>1
      <4>2. CASE j # n + 1
        <5>1. j \in 1..n
          BY <3>3, <4>2
        <5> QED
          BY <2>1, <2>2, <3>2, <3>3, <5>1
      <4> QED
        BY <4>1, <4>2
    <3> QED
      BY <2>1, <2>2, <2>3, <3>1, <3>5
  <2>6. CASE ClearFlag
    <3>1. pc' = "lidar" /\ Len(message') = 0
      BY <2>6, EmptySeq DEF ClearFlag
    <3> QED
      BY <2>1, <2>2, <2>3, <3>1
  <2>7. CASE \/ Poll \/ LidarOff \/ Console \/ SetSerialLoad
             \/ SetSerialStore
    <3>1. message' = message /\ pc' # "high"
      <4>1. CASE Poll
        BY <4>1 DEF Poll, sender
      <4>2. CASE LidarOff
        BY <4>2 DEF LidarOff, After, sender
      <4>3. CASE Console
        BY <4>3 DEF Console, After, sender
      <4>4. CASE SetSerialLoad
        BY <4>4 DEF SetSerialLoad, sender
      <4>5. CASE SetSerialStore
        BY <4>5 DEF SetSerialStore, sender, Typed, TypeOK
      <4> QED
        BY <2>7, <4>1, <4>2, <4>3, <4>4, <4>5
    <3> QED
      BY <2>1, <2>2, <2>3, <3>1
  <2>8. CASE UNCHANGED vars
    <3>1. UNCHANGED <<message, pc, half, Current>>
      BY <2>8 DEF vars, decoder, main, sender, Current
    <3> QED
      BY <2>1, <2>2, <2>3, <3>1
  <2> QED
    BY <1>4, <2>4, <2>5, <2>6, <2>7, <2>8 DEF Main
<1> QED
  BY <1>1, <1>2, <1>3, <1>4 DEF Next

\* The messages sent.
SentTyped == sent \in Seq(Seq(SUBSET Int))

LEMMA SentTypedNext == ASSUME Typed, SentTyped, [Next]_vars PROVE SentTyped'
<1>1. message \in Seq(SUBSET Int)
  BY DEF Typed
<1>2. CASE ClearFlag
  BY <1>1, <1>2, AppendProperties DEF ClearFlag, SentTyped
<1>3. CASE ~ClearFlag
  <2>1. sent' = sent
    BY <1>3 DEF Next, Main, StartSentence, LoseCharacter, Receive, Poll,
           LoadLow, LoadHighAndWrite, LidarOff, SetSerialLoad, SetSerialStore,
           Console, vars, main, sender
  <2> QED
    BY <2>1 DEF SentTyped
<1> QED
  BY <1>2, <1>3

\* As long as nothing is sent, the same sentences are behind the messages.
LEMMA OriginKept ==
    ASSUME NEW f, Origin(f), UNCHANGED sent, nth \in Nat, nth' \in Nat,
           nth <= nth', damaged \subseteq damaged',
           overlapped \subseteq overlapped',
           Free \in Int, Free' \in Int, Free <= Free'
    PROVE  Forwarded'
<1>0. PICK D : D = DOMAIN sent
  OBVIOUS
<1>a. PICK n \in Nat, m \in Nat : n = nth /\ m = nth'
  OBVIOUS
<1>b. PICK a \in Int, b \in Int : a = Free /\ b = Free'
  OBVIOUS
<1>2. f \in [D -> 1..n] /\ n <= m /\ a <= b
  BY <1>0, <1>a, <1>b DEF Origin
<1>3. f \in [D -> 1..m] /\ \A i \in D : f[i] \in Nat
  BY <1>2
<1>4. /\ \A i \in D : Excused(f[i]) \/ Forwards(f[i], sent[i])
      /\ \A i, j \in D : i < j => f[i] < f[j]
      /\ \A i \in D : f[i] <= a
  BY <1>0, <1>b DEF Origin
<1>5. \A i \in D : f[i] <= b
  BY <1>2, <1>3, <1>4
<1>6. \A k : Excused(k) => Excused(k)'
  BY DEF Excused, Trodden
<1>7. Origin(f)'
  BY <1>0, <1>a, <1>b, <1>3, <1>4, <1>5, <1>6 DEF Origin, Forwards
<1> QED
  BY <1>0, <1>a, <1>3, <1>7 DEF Forwarded

LEMMA FreeKept ==
    ASSUME Typed, [Next]_vars, ~ClearFlag
    PROVE  /\ nth \in Nat /\ nth' \in Nat /\ nth <= nth'
           /\ Free \in Int /\ Free' \in Int /\ Free <= Free'
<1>1. nth \in Nat
  BY LineFacts
<1>2. CASE StartSentence
  <2>1. nth' = nth + 1 /\ line = <<>> /\ line' # <<>>
    BY <1>2, Started
  <2>2. Busy' = Busy
    BY <1>2 DEF StartSentence, decoder, main, Busy, Sending
  <2> QED
    BY <1>1, <2>1, <2>2 DEF Free
<1>3. CASE ~StartSentence
  <2>1. nth' = nth
    BY <1>3, MainLeavesDecoder DEF Next, LoseCharacter, Receive
  <2>2. line = <<>> => line' = <<>>
    BY <1>3, MainLeavesDecoder DEF Next, LoseCharacter, Receive
  <2>3. ~Busy /\ Busy' => line # <<>> /\ line' = <<>>
    BY BusySince, Received
  <2> QED
    BY <1>1, <2>1, <2>2, <2>3 DEF Free
<1> QED
  BY <1>2, <1>3

\* The message that GPS_send has written is what the sentence on the line says.
LEMMA MessageIsFix ==
    ASSUME AllRmc, Typed, Followed, Decoded, Orderly, nth \notin overlapped,
           pc = "clear"
    PROVE  /\ nth \in 1..Len(Feed) /\ line = <<>>
           /\ nth \in damaged \/ Forwards(nth, message)
<1>1. nth \in 1..Len(Feed) /\ line = <<>> /\ GPS_flags_a = 0
  BY LineFacts DEF Orderly, Busy, Sending
<1>2. ASSUME nth \notin damaged PROVE Forwards(nth, message)
  <2>1. Pos = Len(Feed[nth]) /\ Pos > 0
    BY <1>1, LineFacts, SentenceFacts
  <2>2. begun = nth /\ Known
    BY <1>1, <1>2, <2>1 DEF Followed, Known
  <2>3. GPS_package = Meaning[nth] /\ HasFix(Feed[nth])
    BY <1>1, <2>2, WholeSentence
  <2>4. message \in Seq(SUBSET Int) /\ Len(message) = 4
    BY DEF Typed
  <2>5. \A j \in 1..4 : message[j] = {Meaning[nth][SendOrder[j]]}
    BY <2>3, <2>4 DEF Orderly
  <2>6. message = [j \in 1..4 |-> message[j]]
    BY <2>4
  <2>7. MessageOf(nth) = [j \in 1..4 |-> {Meaning[nth][SendOrder[j]]}]
    <3>1. DOMAIN SendOrder = 1..4
      BY DEF SendOrder
    <3> QED
      BY <3>1 DEF MessageOf
  <2>8. message = MessageOf(nth)
    BY <2>5, <2>6, <2>7
  <2> QED
    BY <2>3, <2>8 DEF Forwards
<1> QED
  BY <1>1, <1>2

\* The sentence behind the message that GPS_send has written: the one that is
\* complete, or the one before that on the line, which began too early.
Delivers(k) == /\ Free = k - 1 /\ Free' = k
               /\ Excused(k) \/ Forwards(k, message)

LEMMA BehindMessage ==
    ASSUME AllRmc, Typed, Followed, Decoded, Orderly, ClearFlag
    PROVE  \E k \in 1..nth : Delivers(k)
<1>1. /\ pc = "clear" /\ pc' = "lidar" /\ flag3' = 0 /\ loaded' = loaded
      /\ UNCHANGED <<nth, line>>
  BY DEF ClearFlag, device
<1>2. Busy /\ ~Busy'
  BY <1>1 DEF Busy, Sending, Typed, TypeOK
<1>3. nth \in Nat /\ overlapped \subseteq 1..nth
  BY LineFacts, DecoderTypes
<1>4. CASE nth \notin overlapped
  <2>1. /\ nth \in 1..nth /\ line = <<>>
        /\ nth \in damaged \/ Forwards(nth, message)
    BY <1>1, <1>3, <1>4, MessageIsFix
  <2>2. Free = nth - 1 /\ Free' = nth
    BY <1>1, <1>2, <2>1 DEF Free
  <2> QED
    BY <2>1, <2>2 DEF Excused, Delivers
<1>5. CASE nth \in overlapped /\ line = <<>>
  <2>1. nth \in 1..nth /\ Excused(nth)
    BY <1>3, <1>5 DEF Excused, Trodden
  <2>2. Free = nth - 1 /\ Free' = nth
    BY <1>1, <1>2, <1>5 DEF Free
  <2> QED
    BY <2>1, <2>2 DEF Delivers
<1>6. CASE nth \in overlapped /\ line # <<>>
  <2>1. nth > 1
    BY <1>3, <1>6 DEF Orderly
  <2>2. PICK k \in 1..nth : k = nth - 1 /\ k + 1 = nth
    BY <1>3, <2>1
  <2>3. Excused(k)
    BY <1>6, <2>2 DEF Excused, Trodden
  <2>4. Free = k - 1 /\ Free' = k
    BY <1>1, <1>2, <1>3, <1>6, <2>2 DEF Free
  <2> QED
    BY <2>3, <2>4 DEF Delivers
<1> QED
  BY <1>4, <1>5, <1>6

LEMMA ForwardedInit == Init => Forwarded
<1> SUFFICES ASSUME Init PROVE \E f \in [DOMAIN sent -> 1..nth] : Origin(f)
  BY DEF Forwarded
<1>1. DOMAIN sent = {}
  BY DEF Init
<1>2. PICK f : f = [i \in {} |-> 1]
  OBVIOUS
<1>3. f \in [DOMAIN sent -> 1..nth]
  BY <1>1, <1>2
<1>4. Origin(f)
  BY <1>1, <1>3 DEF Origin
<1> QED
  BY <1>3, <1>4

LEMMA ForwardedClear ==
    ASSUME AllRmc, Typed, SentTyped, Followed, Decoded, Orderly, ClearFlag,
           NEW f, Origin(f)
    PROVE  Forwarded'
<1>1. /\ sent' = Append(sent, message)
      /\ UNCHANGED <<nth, damaged, overlapped>>
  BY DEF ClearFlag, device, history
<1>2. PICK k \in 1..nth : /\ Free = k - 1 /\ Free' = k
                          /\ Excused(k) \/ Forwards(k, message)
  <2>1. \E k \in 1..nth : Delivers(k)
    BY BehindMessage
  <2> QED
    BY <2>1 DEF Delivers
<1>3. PICK l \in Nat : l = Len(sent) /\ DOMAIN sent = 1..l
  BY LenProperties DEF SentTyped
<1>4. /\ DOMAIN sent' = 1..(l + 1) /\ sent'[l + 1] = message
      /\ \A i \in 1..l : sent'[i] = sent[i]
  <2>1. message \in Seq(SUBSET Int) /\ sent \in Seq(Seq(SUBSET Int))
    BY DEF Typed, SentTyped
  <2> QED
    BY <1>1, <1>3, <2>1, AppendProperties, LenProperties
<1>5. PICK n \in Nat : n = nth
  BY LineFacts
<1>6. /\ f \in [1..l -> 1..n]
      /\ \A i \in 1..l : Excused(f[i]) \/ Forwards(f[i], sent[i])
      /\ \A i, j \in 1..l : i < j => f[i] < f[j]
      /\ \A i \in 1..l : f[i] <= k - 1
  BY <1>2, <1>3, <1>5 DEF Origin
<1>7. PICK g : g = [i \in 1..(l + 1) |-> IF i = l + 1 THEN k ELSE f[i]]
  OBVIOUS
<1>8. /\ DOMAIN g = 1..(l + 1) /\ g[l + 1] = k
      /\ \A i \in 1..l : g[i] = f[i]
  BY <1>7
<1>9. g \in [1..(l + 1) -> 1..n]
  <2>1. \A i \in 1..(l + 1) : i = l + 1 \/ i \in 1..l
    OBVIOUS
  <2>2. \A i \in 1..(l + 1) : g[i] \in 1..n
    BY <1>2, <1>5, <1>6, <1>8, <2>1
  <2> QED
    BY <1>7, <1>8, <2>2
<1>10. ASSUME NEW i \in 1..(l + 1)
       PROVE  Excused(g[i]) \/ Forwards(g[i], sent'[i])
  <2>1. CASE i = l + 1
    BY <1>2, <1>4, <1>8, <2>1
  <2>2. CASE i # l + 1
    <3>1. i \in 1..l
      BY <2>2
    <3> QED
      BY <1>4, <1>6, <1>8, <3>1
  <2> QED
    BY <2>1, <2>2
<1>11. ASSUME NEW i \in 1..(l + 1), NEW j \in 1..(l + 1), i < j
       PROVE  g[i] < g[j]
  <2>1. i \in 1..l
    BY <1>11
  <2>2. CASE j = l + 1
    <3>1. f[i] <= k - 1 /\ f[i] \in Nat /\ k \in Nat
      BY <1>2, <1>5, <1>6, <2>1
    <3> QED
      BY <1>8, <2>1, <2>2, <3>1
  <2>3. CASE j # l + 1
    <3>1. j \in 1..l
      BY <2>3
    <3> QED
      BY <1>6, <1>8, <1>11, <2>1, <3>1
  <2> QED
    BY <2>2, <2>3
<1>12. ASSUME NEW i \in 1..(l + 1) PROVE g[i] <= k
  <2>1. CASE i = l + 1
    BY <1>2, <1>5, <1>8, <2>1
  <2>2. CASE i # l + 1
    <3>1. i \in 1..l
      BY <2>2
    <3>2. f[i] <= k - 1 /\ f[i] \in Nat /\ k \in Nat
      BY <1>2, <1>5, <1>6, <3>1
    <3> QED
      BY <1>8, <3>1, <3>2
  <2> QED
    BY <2>1, <2>2
<1>13. \A i : Excused(i)' = Excused(i)
  BY <1>1 DEF Excused, Trodden
<1>14. Origin(g)'
  BY <1>1, <1>2, <1>4, <1>5, <1>9, <1>10, <1>11, <1>12, <1>13
  DEF Origin, Forwards
<1> QED
  BY <1>1, <1>4, <1>5, <1>9, <1>14 DEF Forwarded

LEMMA ForwardedNext ==
    ASSUME AllRmc, Typed, SentTyped, Followed, Decoded, Orderly, Forwarded,
           [Next]_vars
    PROVE  Forwarded'
<1>1. PICK f : Origin(f)
  BY DEF Forwarded
<1>2. CASE ClearFlag
  BY <1>1, <1>2, ForwardedClear
<1>3. CASE ~ClearFlag
  <2>1. sent' = sent
    BY <1>3 DEF Next, Main, StartSentence, LoseCharacter, Receive, Poll,
           LoadLow, LoadHighAndWrite, LidarOff, SetSerialLoad, SetSerialStore,
           Console, vars, main, sender
  <2>2. damaged \subseteq damaged' /\ overlapped \subseteq overlapped'
    <3>1. CASE Main \/ UNCHANGED vars
      BY <3>1, MainLeavesDecoder
    <3>2. CASE StartSentence \/ LoseCharacter \/ Receive
      BY <3>2 DEF StartSentence, LoseCharacter, Receive
    <3> QED
      BY <3>1, <3>2 DEF Next
  <2> QED
    BY <1>1, <1>3, <2>1, <2>2, FreeKept, OriginKept
<1> QED
  BY <1>2, <1>3

\* What goes out to the brain, for every feed of RMC sentences and whatever the
\* main loop is at when a character comes: fixes, whole, in order and each once,
\* but for what a sentence sends that lost a character, or that began before
\* the main loop was done with the one before, or was trodden on by the next.
THEOREM FixesForwarded ==
    ASSUME AllRmc PROVE Spec => []ForwardsFixes
<1> DEFINE Inv == /\ Typed /\ SentTyped /\ Followed /\ Decoded /\ Vouched
                  /\ Orderly /\ Forwarded
<1>1. Init => Inv
  <2>1. Init => SentTyped
    BY EmptySeq DEF Init, SentTyped
  <2> QED
    BY <2>1, TypedInit, FollowedInit, DecodedInit, VouchedInit, OrderlyInit,
       ForwardedInit
<1>2. Inv /\ [Next]_vars => Inv'
  BY AllRmc, TypedNext, SentTypedNext, FollowedNext, DecodedNext, VouchedNext,
     OrderlyNext, ForwardedNext
<1>3. Inv => ForwardsFixes
  BY DEF Forwarded, Origin, Excused, ForwardsFixes
<1> QED
  BY <1>1, <1>2, <1>3, PTL DEF Spec
=============================================================================
