------------------------------- MODULE Types -------------------------------
(***************************************************************************)
(* The SQL types of common/runtime/Types: how a value is read from the     *)
(* text of a table file, how it is calculated with and compared, and how   *)
(* it is written into a result.  A text is a sequence of characters.       *)
(*                                                                         *)
(* Widths and limits are parameters, so that their edges are within reach: *)
(* an Integer has 32 bits and at most 10 digits in the code, a Numeric 64  *)
(* bits and at most 18 digits before the point, memmemSSE looks at 16      *)
(* characters at a time, and SmallStringView keeps 12 in place.            *)
(***************************************************************************)
EXTENDS Integers, Sequences, FiniteSets, SequencesExt

CONSTANTS
  IntegerBits, IntegerDigits,
  NumericBits, NumericDigits,
  UnsignedBits,   \* of the variables of a date that is printed: 32 in the code
  precision,      \* digits behind the point: 2 for the columns of TPC-H
  block,          \* characters of an SSE register
  foldCapacity,   \* characters a SmallStringView keeps in place
  prefixSize      \* characters of the prefix of a longer one: 4 in the code

ASSUME TypesAssumption ==
  /\ {IntegerBits, IntegerDigits, NumericBits, NumericDigits, UnsignedBits} \subseteq Nat \ {0}
  /\ precision \in Nat
  /\ {block, prefixSize} \subseteq Nat \ {0} /\ foldCapacity \in Nat
  /\ prefixSize <= foldCapacity

\* What a castString returns: a value, or nothing when it throws.
Throw == [thrown |-> TRUE]
Value(v) == [thrown |-> FALSE, value |-> v]

DigitChars == <<"0", "1", "2", "3", "4", "5", "6", "7", "8", "9">>
Digits == ToSet(DigitChars)
DigitValue == [c \in Digits |-> (CHOOSE n \in 1 .. 10 : DigitChars[n] = c) - 1]
AllDigits(text) == ToSet(text) \subseteq Digits
Number(text) == FoldLeft(LAMBDA r, c : 10 * r + DigitValue[c], 0, text)

\* A number as a stream writes it.
Decimal[n \in Nat] ==
  IF n < 10 THEN <<DigitChars[n + 1]>> ELSE Append(Decimal[n \div 10], DigitChars[(n % 10) + 1])
\* The same with leading zeros: %04u and %02u.
Padded(n, width) ==
  [k \in 1 .. width - Len(Decimal[n]) |-> "0"] \o Decimal[n]

\* A result that does not fit is cut to the width of its variable.
Wrap(v, bits) == ((v + 2 ^ (bits - 1)) % 2 ^ bits) - 2 ^ (bits - 1)

\* The first position from n on that holds c, or the one behind the end.
Find(text, c, n) ==
  LET found == SelectInSubSeq(text, n, Len(text), LAMBDA d : d = c)
  IN  IF found = 0 THEN Len(text) + 1 ELSE found

Trim(text) ==
  LET kept == {n \in DOMAIN text : text[n] # " "}
  IN  IF kept = {} THEN <<>>
      ELSE SubSeq(text, SelectInSeq(text, LAMBDA c : c # " "),
                  SelectLastInSeq(text, LAMBDA c : c # " "))

\* The sign of a trimmed text, and what follows it.
Negative(text) == text # <<>> /\ Head(text) = "-"
Magnitude(text) == IF text # <<>> /\ Head(text) \in {"-", "+"} THEN Tail(text) ELSE text
Signed(text, n) == IF Negative(text) THEN -n ELSE n

-----------------------------------------------------------------------------
(* Numbers *)

\* Integer::castString: what follows a point is ignored.
IntegerCastString(text) ==
  LET body == Magnitude(Trim(text))
      whole == SubSeq(body, 1, Find(body, ".", 1) - 1)
  IN  IF body = <<>> \/ ~AllDigits(whole) \/ Len(whole) > IntegerDigits THEN Throw
      ELSE Value(Wrap(Signed(Trim(text), Number(whole)), IntegerBits))

\* Numeric::castString: zeros at the end of the fraction do not count.
NumericCastString(text) ==
  LET body == Magnitude(Trim(text))
      point == Find(body, ".", 1)
      whole == SubSeq(body, 1, point - 1)
      fraction == SubSeq(body, point + 1, SelectLastInSeq(body, LAMBDA c : c # "0"))
  IN  IF \/ body = <<>> \/ ~AllDigits(whole) \/ ~AllDigits(fraction)
         \/ Len(whole) > NumericDigits \/ Len(fraction) > precision
      THEN Throw
      ELSE Value(Wrap(Signed(Trim(text),
                             Number(whole \o fraction) * 10 ^ (precision - Len(fraction))),
                      NumericBits))

\* Faulty variant: a fraction is written without its leading zeros.
NumericPrintBare(v) ==
  LET a == IF v < 0 THEN -v ELSE v
      fraction == IF a % 10 ^ precision = 0 THEN Padded(0, precision)
                  ELSE Decimal[a % 10 ^ precision]
  IN  (IF v < 0 THEN <<"-">> ELSE <<>>)
      \o (IF precision = 0 THEN Decimal[a]
          ELSE Decimal[a \div 10 ^ precision] \o <<".">> \o fraction)

\* operator<<: one zero for each power of ten the fraction stays below.
NumericPrint(v) ==
  LET a == IF v < 0 THEN -v ELSE v
      rest == a % 10 ^ precision
      below == {k \in 1 .. precision : 10 ^ k > 10 * rest}
      fraction == IF rest = 0 THEN [k \in 1 .. precision |-> "0"]
                  ELSE [k \in 1 .. Cardinality(below) |-> "0"] \o Decimal[rest]
  IN  (IF v < 0 THEN <<"-">> ELSE <<>>)
      \o (IF precision = 0 THEN Decimal[a]
          ELSE Decimal[a \div 10 ^ precision] \o <<".">> \o fraction)

-----------------------------------------------------------------------------
(* Dates *)

\* Faulty variant: centuries are taken for leap years.
MergeJulianDayOld(year, month, day) ==
  LET a == (14 - month) \div 12
      y == year + 4800 - a
      m == month + 12 * a - 3
  IN  day + (153 * m + 2) \div 5 + 365 * y + y \div 4 - 32083

MergeJulianDay(year, month, day) ==
  LET a == (14 - month) \div 12
      y == year + 4800 - a
      m == month + 12 * a - 3
  IN  day + (153 * m + 2) \div 5 + 365 * y + y \div 4 - y \div 100 + y \div 400 - 32045

SplitJulianDay(jd) ==
  LET a == jd + 32044
      b == (4 * a + 3) \div 146097
      c == a - (146097 * b) \div 4
      d == (4 * c + 3) \div 1461
      e == c - (1461 * d) \div 4
      m == (5 * e + 2) \div 153
  IN  [year |-> 100 * b + d - 4800 + m \div 10,
       month |-> m + 3 - 12 * (m \div 10),
       day |-> e - (153 * m + 2) \div 5 + 1]

extractYear(date) == SplitJulianDay(date).year

\* The three fields of a date from position 1 up to last.
ReadDate(text, last) ==
  LET first == Find(text, "-", 1)
      second == Find(text, "-", first + 1)
      year == SubSeq(text, 1, first - 1)
      month == SubSeq(text, first + 1, second - 1)
      day == SubSeq(text, second + 1, last)
  IN  IF second > last \/ ~AllDigits(year \o month \o day) THEN Throw
      ELSE IF \/ Number(year) > 9999 \/ Number(month) \notin 1 .. 12
              \/ Number(day) \notin 1 .. 31
      THEN Throw
      ELSE Value(MergeJulianDay(Number(year), Number(month), Number(day)))

DateCastString(text) == ReadDate(Trim(text), Len(Trim(text)))

\* The year is unsigned: one before year 0 wraps, as that of day 0 does.
DatePrint(date) ==
  LET d == SplitJulianDay(date)
  IN  Padded(d.year % 2 ^ UnsignedBits, 4) \o <<"-">> \o Padded(d.month, 2) \o <<"-">> \o Padded(d.day, 2)

\* A Timestamp counts milliseconds; here as the day and the time of the day.
MergeTime(hour, minute, second, ms) == ms + 1000 * second + 60000 * minute + 3600000 * hour

\* Timestamp::null() is the value 0.
TimestampNull == [day |-> 0, time |-> 0]
NullText == <<"N", "U", "L", "L">>

TimestampCastString(text) ==
  LET body == Trim(text)
      blank == Find(body, " ", 1)
      colon == Find(body, ":", blank + 1)
      colon2 == Find(body, ":", colon + 1)
      point == Find(body, ".", colon2 + 1)
      date == ReadDate(body, blank - 1)
      hour == SubSeq(body, blank + 1, colon - 1)
      minute == SubSeq(body, colon + 1, colon2 - 1)
      second == SubSeq(body, colon2 + 1, point - 1)
      ms == SubSeq(body, point + 1, Len(body))
  IN  IF text = NullText THEN Value(TimestampNull)
      ELSE IF \/ date.thrown \/ colon2 > Len(body)
         \/ ~AllDigits(hour \o minute \o second \o ms)
      THEN Throw
      ELSE IF \/ Number(hour) >= 24 \/ Number(minute) >= 60
              \/ Number(second) >= 60 \/ Number(ms) >= 1000
      THEN Throw
      ELSE Value([day |-> date.value,
                  time |-> MergeTime(Number(hour), Number(minute), Number(second), Number(ms))])

\* The milliseconds are left out when there are none.  A null is written as
\* NULL, and then as the date and the time that 0 stands for.
TimestampPrint(t) ==
  LET ms == t.time % 1000
      seconds == t.time \div 1000
  IN  (IF t = TimestampNull THEN NullText ELSE <<>>)
      \o DatePrint(t.day) \o <<" ">> \o Decimal[(seconds \div 3600) % 24]
      \o <<":">> \o Padded((seconds \div 60) % 60, 2) \o <<":">> \o Padded(seconds % 60, 2)
      \o (IF ms = 0 THEN <<>> ELSE <<".">> \o Padded(ms, 3))

-----------------------------------------------------------------------------
(* Strings *)

\* Varchar takes the text as it is.
VarcharCastString(text) == Value(text)
\* Char leaves out leading blanks.
CharCastString(text) ==
  LET first == SelectInSeq(text, LAMBDA c : c # " ")
  IN  Value(IF first = 0 THEN <<>> ELSE SubSeq(text, first, Len(text)))
\* Char<1> takes the first character, even if that is what ends the column.
Char1CastString(text) == Value(<<IF text = <<>> THEN "|" ELSE Head(text)>>)

\* memcmp over the shorter length: -1, 0 or 1; and what the operators make of it.
Code == [c \in {"a", "b", "c"} |-> CASE c = "a" -> 97 [] c = "b" -> 98 [] c = "c" -> 99]
MemCmp(s, t) ==
  LET common == {n \in DOMAIN s \cap DOMAIN t : s[n] # t[n]}
  IN  IF common = {} THEN 0
      ELSE LET n == CHOOSE k \in common : \A l \in common : k <= l
           IN  IF Code[s[n]] < Code[t[n]] THEN -1 ELSE 1
Less(s, t) == MemCmp(s, t) < 0 \/ (MemCmp(s, t) = 0 /\ Len(s) < Len(t))
GreaterEqual(s, t) == MemCmp(s, t) > 0 \/ (MemCmp(s, t) = 0 /\ Len(s) >= Len(t))
Equal(s, t) == Len(s) = Len(t) /\ MemCmp(s, t) = 0

\* The SSE instruction _mm_cmpestri with EQUAL_ORDERED: where in the block from
\* pos on (counted from 0) the needle begins, if only with what of it fits.
CmpEstri(needle, haystack, pos) ==
  LET begins(k) == \A n \in DOMAIN needle :
                     k + n <= block => haystack[pos + k + n] = needle[n]
  IN  CHOOSE k \in 0 .. block :
        /\ k = block \/ begins(k)
        /\ \A l \in 0 .. k - 1 : ~begins(l)

\* Faulty variant: the part of the needle at the end of a block is taken for all of it.
SearchedPart(haystack, needle) ==
  LET result[pos \in 0 .. Len(haystack)] ==
        LET at == CmpEstri(needle, haystack, pos)
        IN  IF Len(haystack) - pos < block
            THEN LET last == CmpEstri(needle, haystack, Len(haystack) - block)
                 IN  IF last < block THEN Len(haystack) - block + last ELSE -1
            ELSE IF at < block THEN pos + at ELSE result[pos + at]
  IN  result[0]

\* memmemSSE on a long haystack: block by block, going on where the needle may
\* begin, and then once more through the last block.
Searched(haystack, needle) ==
  LET fits(at) == block - at >= Len(needle)
      result[pos \in 0 .. Len(haystack)] ==
        LET at == CmpEstri(needle, haystack, pos)
        IN  IF Len(haystack) - pos < block
            THEN LET last == CmpEstri(needle, haystack, Len(haystack) - block)
                 IN  IF fits(last) THEN Len(haystack) - block + last ELSE -1
            ELSE IF fits(at) THEN pos + at ELSE result[pos + at]
  IN  result[0]

\* memmem of the C library: the first offset of the needle, or -1.
memmem(haystack, needle) ==
  LET occurs == {k \in 0 .. Len(haystack) - Len(needle) :
                   SubSeq(haystack, k + 1, k + Len(needle)) = needle}
  IN  IF occurs = {} THEN -1 ELSE CHOOSE k \in occurs : \A l \in occurs : k <= l

memmemSSE(haystack, needle) ==
  IF Len(haystack) < block \/ Len(needle) > block THEN memmem(haystack, needle)
  ELSE Searched(haystack, needle)

\* SmallStringView: a short string in place and padded with zeros, of a long one
\* the prefix and where it is.
View(text) ==
  LET at(n) == IF n <= Len(text) THEN text[n] ELSE "0"
  IN  [size |-> Len(text), prefix |-> [n \in 1 .. prefixSize |-> at(n)],
       data |-> IF Len(text) <= foldCapacity
                THEN [n \in 1 .. foldCapacity - prefixSize |-> at(prefixSize + n)]
                ELSE text]
SameView(v, w) == v.size = w.size /\ v.prefix = w.prefix /\ v.data = w.data
=============================================================================
