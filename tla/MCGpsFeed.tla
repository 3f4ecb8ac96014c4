----------------------------- MODULE MCGpsFeed -----------------------------
(***************************************************************************)
(* Sentences for GpsFeed.  The k-th sentence spells the digit k in every   *)
(* field, so a mix of two sentences shows.  "H" is a letter of the message *)
(* ID; fields after the course are left out, as the decoder does.          *)
(***************************************************************************)
EXTENDS GpsFeed, TLC

\* TLC evaluates the definition that stands for a constant at each use, and any
\* other one once: so Letters and TwoFixes have names of their own.
Letters == ("1" :> 1) @@ ("2" :> 2) @@ ("3" :> 3) @@ ("A" :> 17) @@ ("V" :> 38)
          @@ ("N" :> 30) @@ ("W" :> 39) @@ ("H" :> 24)

MCCode == Letters

\* 7 bits in the place of 16 and 8 in that of 32: enough for the numbers of the
\* sentences below, not for two fields run together by a lost comma.
Sizes == [f \in Field |-> IF f \in {"speed", "course"} THEN 2^7 ELSE 2^8]

MCSize == Sizes

\* A dollar sign, each field with a comma behind it, a line feed.
Sentence(fields) ==
    <<"$">> \o FoldLeft(LAMBDA s, f : s \o f \o <<"COMMA">>, <<>>, fields)
            \o <<"LF">>

\* $GPRMC with a fix.  The course comes in more digits or in fewer.
Rmc(d, course) ==
    Sentence(<< <<"H">>, <<d>>, <<"A">>, <<d, ".", d>>, <<"N">>, <<d>>,
                <<"W">>, <<d>>, course >>)

Empty(n) == [i \in 1..n |-> <<>>]

\* The same without a fix, its fields empty.
RmcNoFix(d) == Sentence(<< <<"H">>, <<d>>, <<"V">> >> \o Empty(6))

\* $GPGGA without a fix: the time, then empty fields.
GgaNoFix(d) == Sentence(<< <<"H">>, <<d>> >> \o Empty(4))

TwoFixes ==
    <<Rmc("1", <<"1">>), RmcNoFix("2"), Rmc("3", <<"3", "3">>)>>

FeedRmc == TwoFixes

\* They have nine commas and a status; the proofs ask no more of a feed.
ASSUME FeedIsRmc == \A k \in DOMAIN FeedRmc : IsRmc(FeedRmc[k])

\* Digit by digit is the sum of the digits, each times its power of ten.
Number(s, n) ==
    MapThenSumSet(LAMBDA i : Code[s[i]] *
                    10^Cardinality({j \in Text(s, n) : j > i}), Text(s, n))

ASSUME SpelledIsNumber ==
    \A k \in DOMAIN Feed, n \in DOMAIN FieldAt :
        Spelled(Feed[k], n)[Len(Feed[k])] = Number(Feed[k], n)

FeedGga == <<Rmc("1", <<"1">>), GgaNoFix("2"), Rmc("3", <<"3">>)>>
=============================================================================
