-------------------------------- MODULE Gs1 --------------------------------
(***************************************************************************)
(* Barcode arithmetic and GS1 parsing (lib/barcode.ts, and its copy on the *)
(* device, scanner/barcode.ts).  A code is a sequence of characters: a     *)
(* digit is itself, GS the separator, a letter a number from 11 on.        *)
(* Trimming and case folding have been done.                               *)
(***************************************************************************)
EXTENDS Totals, SequencesExt

GS == 10
null == <<>>   \* the code returns null; no code is empty

AllDigits(s) == \A i \in DOMAIN s : s[i] \in 0 .. 9

Zeros(n) == [i \in 1 .. n |-> 0]

padded(s) == Zeros(14 - Len(s)) \o s

normalizeBarcode(s) == IF AllDigits(s) /\ Len(s) \in 12 .. 14 THEN padded(s) ELSE s

-----------------------------------------------------------------------------
(* Check digits *)

\* Mutant of Weight: every digit has the same weight.
WeightOne(i, n) == 1

\* 3, 1, 3, 1, ... from the right, in a code of n digits.
Weight(i, n) == IF (n - i) % 2 = 1 THEN 3 ELSE 1

weightedSum(body, n) == Total([i \in DOMAIN body |-> Weight(i, n) * body[i]], DOMAIN body)

checkDigit(body) == (10 - (weightedSum(body, Len(body) + 1) % 10)) % 10

gtinCheckDigitValid(s) ==
  AllDigits(s) /\ Len(s) >= 8 /\ checkDigit(Front(s)) = Last(s)

\* UPC-E to UPC-A, or null.
expandUpcE(s) ==
  IF ~(AllDigits(s) /\ Len(s) = 8 /\ s[1] \in {0, 1}) THEN null
  ELSE LET d == SubSeq(s, 2, 7)
           body == IF d[6] \in 0 .. 2 THEN <<d[1], d[2], d[6]>> \o Zeros(4) \o <<d[3], d[4], d[5]>>
                   ELSE IF d[6] = 3 THEN <<d[1], d[2], d[3]>> \o Zeros(5) \o <<d[4], d[5]>>
                   ELSE IF d[6] = 4 THEN <<d[1], d[2], d[3], d[4]>> \o Zeros(5) \o <<d[5]>>
                   ELSE <<d[1], d[2], d[3], d[4], d[5]>> \o Zeros(4) \o <<d[6]>>
           upcA == <<s[1]>> \o body \o <<s[8]>>
       IN  IF gtinCheckDigitValid(upcA) THEN upcA ELSE null

isValidGtin(s) ==
  \/ Len(s) \in {8, 14} /\ gtinCheckDigitValid(s)
  \/ Len(s) = 8 /\ expandUpcE(s) # null

\* Mutant of candidates: the expansion is looked up as it is.
candidatesUnpadded(s) ==
  <<s>> \o (IF Len(s) = 8 /\ expandUpcE(s) # null THEN <<expandUpcE(s)>> ELSE <<>>)

\* lookupCandidates, in order.
candidates(s) ==
  <<s>> \o (IF Len(s) = 8 /\ expandUpcE(s) # null THEN <<padded(expandUpcE(s))>> ELSE <<>>)

\* What addProductBarcode stores for a code registered as GTIN.
storedGtin(raw) == Last(candidates(normalizeBarcode(raw)))

-----------------------------------------------------------------------------
(* Element strings: application identifiers are two digits, here a number. *)

FixedLength == [ai \in {0, 1, 2, 11, 13, 15, 16, 17} |->
                  IF ai = 0 THEN 18 ELSE IF ai \in {1, 2} THEN 14 ELSE 6]

VariableMax == [ai \in {10, 21, 30, 37} |-> IF ai \in {10, 21} THEN 20 ELSE 8]

NoFields == [ai \in {} |-> null]
Invalid == [ai \in {-1} |-> null]

\* A field and the ones behind it.
FieldBefore(ai, value, rest) ==
  IF rest = Invalid THEN Invalid
  ELSE [a \in DOMAIN rest \cup {ai} |-> IF a \in DOMAIN rest THEN rest[a] ELSE value]

\* The identifier at i, or -1.
AiAt(s, i) == IF i < Len(s) /\ AllDigits(SubSeq(s, i, i + 1)) THEN 10 * s[i] + s[i + 1] ELSE -1

\* Mutant of EndOfField: a separator is part of the field.
EndOfFieldNone(s, i) == Len(s) + 1

\* Where the separator, or the end, is that a variable field at i runs to.
EndOfField(s, i) ==
  LET ends == {j \in i .. Len(s) : s[j] = GS} IN
  IF ends = {} THEN Len(s) + 1 ELSE CHOOSE j \in ends : \A k \in ends : j <= k

\* Mutant of FixedField: a field that is cut short is taken as it is.
FixedFieldCut(s, i, n) == SubSeq(s, i, Smaller(Len(s), i + n - 1))

\* A field of n digits at i, or null.
FixedField(s, i, n) ==
  IF i + n - 1 <= Len(s) /\ AllDigits(SubSeq(s, i, i + n - 1)) THEN SubSeq(s, i, i + n - 1) ELSE null

\* A field at i that runs to its separator and counts as far as n characters.
VariableField(s, i, n) == SubSeq(s, i, Smaller(EndOfField(s, i) - 1, i + n - 1))

\* The fields of a code, read from the left; a field given twice counts as it
\* was given last, and whatever follows an unknown identifier is not read.
Fields(s) ==
  LET from[i \in Nat] ==
        LET ai == AiAt(s, i) IN
        IF i > Len(s) THEN NoFields
        ELSE IF s[i] = GS THEN from[i + 1]
        ELSE IF ai \in DOMAIN FixedLength THEN
          IF FixedField(s, i + 2, FixedLength[ai]) = null THEN Invalid
          ELSE FieldBefore(ai, FixedField(s, i + 2, FixedLength[ai]), from[i + 2 + FixedLength[ai]])
        ELSE IF ai \in DOMAIN VariableMax THEN
          FieldBefore(ai, VariableField(s, i + 2, VariableMax[ai]), from[EndOfField(s, i + 2)])
        ELSE NoFields
  IN  from[1]

FieldOf(fields, ai) == IF ai \in DOMAIN fields THEN fields[ai] ELSE null

\* Days of a month of the years 2000 to 2099.
DaysIn(year, month) ==
  CASE month = 2 -> IF year % 4 = 0 THEN 29 ELSE 28
    [] month \in {4, 6, 9, 11} -> 30
    [] OTHER -> 31

\* YYMMDD to <<year, month, day>>, or null; day 0 is the last of the month.
gs1Date(s) ==
  LET year == 10 * s[1] + s[2]
      month == 10 * s[3] + s[4]
      day == 10 * s[5] + s[6]
  IN  IF month \notin 1 .. 12 \/ day > DaysIn(year, month) THEN null
      ELSE <<year, month, IF day = 0 THEN DaysIn(year, month) ELSE day>>

gs1DateOf(fields, ai) == IF ai \in DOMAIN fields THEN gs1Date(fields[ai]) ELSE null

toGs1Data(fields) ==
  LET gtin == IF 1 \in DOMAIN fields THEN fields[1] ELSE FieldOf(fields, 2) IN
  IF (gtin # null /\ ~gtinCheckDigitValid(gtin)) \/ (gtin = null /\ FieldOf(fields, 10) = null)
  THEN null
  ELSE [gtin |-> gtin, lot |-> FieldOf(fields, 10), serial |-> FieldOf(fields, 21),
        bestBefore |-> gs1DateOf(fields, 15), expiry |-> gs1DateOf(fields, 17)]

looksGs1(s) == Len(s) >= 16 /\ AiAt(s, 1) \in {1, 2} /\ AllDigits(SubSeq(s, 3, 16))

\* `declared`: the scanner says that it is a GS1 symbology.  (The printed form,
\* with the identifiers in parentheses, is left out.)
parseGs1(raw, declared) ==
  LET s == normalizeBarcode(raw) IN
  IF ~declared /\ ~Contains(s, GS) /\ ~looksGs1(s) THEN null
  ELSE LET fields == Fields(s) IN
       IF fields \in {Invalid, NoFields} THEN null ELSE toGs1Data(fields)

=============================================================================
