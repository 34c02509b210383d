------------------------------- MODULE Utils -------------------------------
(***************************************************************************)
(* The conversions of src/src/zc_utils.cpp: words, escapes, hexadecimal    *)
(* and BCD texts, lists of ranges, Maidenhead squares. A text is a         *)
(* sequence of bytes. A place is in 1/240 of a degree east of 180 W and    *)
(* 1/480 of a degree north of 90 S: both grids divide 18 * 4800 of these.  *)
(***************************************************************************)
EXTENDS Dates

CONSTANTS SampleTexts, SampleLines, SampleNumbers, RangeLists, SamplePlaces,
          SampleTimes, Zones, SampleDates, Formats

VARIABLE sample         (* <<kind, ...>>: what is converted                  *)

LOCAL Is(c, s) == \E k \in DOMAIN s : s[k] = c
LOCAL Mapped(Op(_), s) == FoldLeft(LAMBDA r, c : r \o Op(c), <<>>, s)
LOCAL Kept(s, Test(_)) == SelectSeq(s, Test)
LOCAL Power(b, n) == FoldLeft(LAMBDA p, k : p * b, 1, [k \in 1..n |-> k])
LOCAL Substr(s, at, n) == [k \in 1..(IF at + n <= Len(s) THEN n ELSE Len(s) - at) |-> s[at + k]]

Quote == 34
Percent == 37
Amp == 38
Comma == 44
Minus == 45
Slash == 47
Semicolon == 59
Backslash == 92
Underscore == 95  Space == 32  X == 120

-----------------------------------------------------------------------------
(* Words                                                                    *)

SplitLine(line, separator) ==
  LET Step(s, c) ==
        IF c = separator /\ ~s.quoted THEN [s EXCEPT !.words = Append(@, s.word), !.word = <<>>]
        ELSE IF c = Quote /\ c # separator THEN [s EXCEPT !.quoted = ~@]
        ELSE [s EXCEPT !.word = Append(@, c)]
      end == FoldLeft(Step, [words |-> <<>>, word |-> <<>>, quoted |-> FALSE], line)
  IN  Append(end.words, end.word)

JoinLine(words, separator) ==
  FoldLeft(LAMBDA line, w : IF line = <<>> THEN w ELSE line \o <<separator>> \o w, <<>>, words)

-----------------------------------------------------------------------------
(* Escapes. A char is signed: what is not ASCII is printed as ff..., and    *)
(* the buffer cuts that short                                               *)

LOCAL HexDigit(n, ten) == IF n < 10 THEN 48 + n ELSE ten + n - 10
LOCAL Alphanumeric == 48..57 \cup 65..90 \cup 97..122

EscapeHex(text, allowed) ==
  Mapped(LAMBDA c : IF c \in allowed THEN <<c>>
                    ELSE IF c < 128 THEN <<Percent, HexDigit(c \div 16, 97), HexDigit(c % 16, 97)>>
                    ELSE <<Percent, 102, 102, 102>>, text)
EscapeUrl(text) == EscapeHex(text, Alphanumeric)

LOCAL HexValue(c) ==
  CASE c \in 48..57 -> c - 48 [] c \in 97..102 -> c - 87 [] c \in 65..70 -> c - 55 [] OTHER -> 0

UnescapeHex(text) ==
  LET Step(s, c) ==
        CASE s.digits = 0 /\ c # Percent -> [s EXCEPT !.result = Append(@, c)]
          [] s.digits = 0 /\ c = Percent -> [s EXCEPT !.digits = 2, !.value = 0]
          [] s.digits = 2 -> [s EXCEPT !.digits = 1, !.value = HexValue(c) * 16]
          [] s.digits = 1 -> [s EXCEPT !.digits = 0, !.result = Append(@, s.value + HexValue(c))]
  IN  FoldLeft(Step, [result |-> <<>>, digits |-> 0, value |-> 0], text).result

EscapeMenu(text) ==
  Mapped(LAMBDA c : CASE c = Slash -> <<Backslash, c>> [] c = Amp -> <<Amp, c>> [] OTHER -> <<c>>, text)

(* What FLTK shows for a menu's label: a backslash or an ampersand gives    *)
(* the next character as it is                                              *)
MenuLabel(text) ==
  FoldLeft(LAMBDA s, c : IF ~s.next /\ c \in {Backslash, Amp} THEN [s EXCEPT !.next = TRUE]
                         ELSE [next |-> FALSE, shown |-> Append(s.shown, c)],
           [next |-> FALSE, shown |-> <<>>], text).shown

EscapeString(text, escapees) == Mapped(LAMBDA c : IF Is(c, escapees) THEN <<Backslash, c>> ELSE <<c>>, text)
UnescapeString(text) == Kept(text, LAMBDA c : c # Backslash)

DeSlash(text) == [k \in DOMAIN text |-> IF text[k] = Slash THEN Underscore ELSE text[k]]
ReSlash(text) == [k \in DOMAIN text |-> IF text[k] = Underscore THEN Slash ELSE text[k]]
ForwardSlash(text) == [k \in DOMAIN text |-> IF text[k] = Backslash THEN Slash ELSE text[k]]

(* The last separator of a file name, 0 if there is none                    *)
LOCAL LastSeparator(name) ==
  CHOOSE k \in 0..Len(name) : /\ k = 0 \/ name[k] \in {Slash, Backslash}
                              /\ \A j \in k + 1..Len(name) : name[j] \notin {Slash, Backslash}
Directory(name) == SubSeq(name, 1, LastSeparator(name) - 1)
Terminal(name) == SubSeq(name, LastSeparator(name) + 1, Len(name))

-----------------------------------------------------------------------------
(* Hexadecimal                                                              *)

LOCAL IsHexDigit(c) == c \in 48..57 \cup 65..70 \cup 97..102
ToHexByte(c, addSpace) ==
  <<HexDigit(c \div 16, 65), HexDigit(c % 16, 65)>> \o (IF addSpace THEN <<Space>> ELSE <<>>)
ToHex(data) == Mapped(LAMBDA c : ToHexByte(c, TRUE), data)

(* One byte: <<its value, where the next begins>>; 0 at the end of the text *)
ToAsciiByte(data, ix) ==
  LET at == CHOOSE k \in ix..Len(data) : /\ k = Len(data) \/ IsHexDigit(data[k + 1])
                                         /\ \A j \in ix + 1..k : ~IsHexDigit(data[j])
      digits == Substr(data, at, 2)
  IN  CASE at = Len(data) -> <<0, at>>
        [] at < Len(data) /\ Len(digits) = 2 /\ IsHexDigit(digits[2]) ->
             <<HexValue(digits[1]) * 16 + HexValue(digits[2]), at + 2>>
        [] OTHER -> <<HexValue(digits[1]), at + 1>>

LOCAL Bytes(data, Next(_)) ==      (* as many as there are from the start    *)
  LET from[ix \in 0..Len(data)] == IF ix = Len(data) THEN <<>> ELSE LET b == Next(ix) IN <<b[1]>> \o from[b[2]]
  IN  from[0]
ToAscii(data) == Bytes(data, LAMBDA ix : ToAsciiByte(data, ix))
StringToHex(data, escape) == Mapped(LAMBDA c : (IF escape THEN <<X>> ELSE <<>>) \o ToHexByte(c, FALSE), data)
HexToString(data) ==
  Bytes(data, LAMBDA ix : ToAsciiByte(data, IF data[ix + 1] \in {X, Space} THEN ix + 1 ELSE ix))

-----------------------------------------------------------------------------
(* BCD                                                                      *)

IntToBcd(value, size, leastFirst) ==
  LET Pair(k) == LET r == (value \div Power(100, k)) % 100 IN (r \div 10) * 16 + (r % 10)
  IN  [i \in 1..size |-> Pair(IF leastFirst THEN i - 1 ELSE size - i)]

LOCAL MostFirst(bcd, leastFirst) == IF leastFirst THEN Reverse(bcd) ELSE bcd
BcdToInt(bcd, leastFirst) ==
  FoldLeft(LAMBDA n, c : n * 100 + (c % 16) + (10 * (c \div 16)), 0, MostFirst(bcd, leastFirst))

(* bcd_to_double of bytes whose first or last is worth the least, in units  *)
(* of the least digit                                                       *)
BcdToDouble(bcd, leastFirst) ==
  FoldLeft(LAMBDA s, c : [value |-> s.value + (c % 16) * s.digit + (c \div 16) * s.digit * 10,
                          digit |-> s.digit * 100],
           [value |-> 0, digit |-> 1], Reverse(MostFirst(bcd, leastFirst))).value

-----------------------------------------------------------------------------
(* Lists of numbers and ranges: what stands between the separators, and     *)
(* which separator follows (0 at the end). start is 0 when there is none    *)

StringToInts(items) ==
  LET Step(s, item) ==
        LET from == IF s.start = 0 THEN item.number ELSE s.start
        IN  IF item.then = Minus THEN [s EXCEPT !.start = item.number]
            ELSE [start |-> 0, ints |-> s.ints \o [k \in 1..(item.number - from + 1) |-> from + k - 1]]
  IN  FoldLeft(Step, [start |-> 0, ints |-> <<>>], items).ints

-----------------------------------------------------------------------------
(* Maidenhead squares. The letters and digits are numbers from 0            *)

LOCAL Side(i) == CASE i = 0 -> 4800 [] i = 2 -> 480 [] i = 4 -> 20 [] i = 6 -> 2

LatlongToGrid(long, lat, chars) ==
  LET Step(s, i) == [grid |-> s.grid \o <<s.long \div Side(i), s.lat \div Side(i)>>,
                     long |-> s.long % Side(i), lat |-> s.lat % Side(i)]
  IN  FoldLeft(Step, [grid |-> <<>>, long |-> long, lat |-> lat],
               SelectSeq(<<0, 2, 4, 6>>, LAMBDA i : i < chars)).grid

(* The centre of the square, as <<east, north>> of 0 N 0 E                  *)
GridToLatlong(grid) ==
  LET Middle(i) == CASE i = 0 -> 9 [] i \in {2, 6} -> 5 [] i = 4 -> 12
      Step(c, i) == <<c[1] + (grid[i + 1] - Middle(i)) * Side(i) + (Side(i) \div 2),
                      c[2] + (grid[i + 2] - Middle(i)) * Side(i) + (Side(i) \div 2)>>
  IN  FoldLeft(Step, <<0, 0>>, SelectSeq(<<0, 2, 4, 6>>, LAMBDA i : i < Len(grid)))

-----------------------------------------------------------------------------
UtilsInit ==
  \/ \E s \in SampleTexts : sample = <<"text", s>>
  \/ \E w \in SampleLines : sample = <<"words", w>>
  \/ \E n \in SampleNumbers, size \in 1..4, least \in BOOLEAN : sample = <<"number", n, size, least>>
  \/ \E r \in RangeLists : sample = <<"ranges", r>>
  \/ \E x, y \in SamplePlaces, chars \in {2, 4, 6, 8} : sample = <<"place", x, y, chars>>
  \/ \E t \in SampleTimes, z \in Zones : sample = <<"time", t, z>>
  \/ \E tm \in SampleDates, f \in Formats : sample = <<"date", tm, f>>
UtilsSpec == UtilsInit /\ [][UNCHANGED sample]_sample

LOCAL NoneOf(chars, s) == \A k \in DOMAIN s : s[k] \notin chars

(* Texts. A byte above 127 is not escaped as itself (zc_utils.cpp:468), and *)
(* unescape_string drops a backslash of the text's own                      *)
TextComesBack(s) ==
  /\ NoneOf(128..255, s) => UnescapeHex(EscapeUrl(s)) = s
  /\ NoneOf({Backslash}, s) => UnescapeString(EscapeString(s, <<Slash, Quote>>)) = s
  /\ NoneOf({Backslash}, s) => MenuLabel(EscapeMenu(s)) = s
  /\ HexToString(StringToHex(s, TRUE)) = s /\ HexToString(StringToHex(s, FALSE)) = s
  /\ ToAscii(ToHex(s)) = IF s = <<>> THEN s ELSE Append(s, 0)
  /\ NoneOf({Underscore}, s) => ReSlash(DeSlash(s)) = s
  /\ IF NoneOf({Slash, Backslash}, s) THEN Directory(s) = <<>> /\ Terminal(s) = s
     ELSE ForwardSlash(s) = ForwardSlash(Directory(s)) \o <<Slash>> \o Terminal(s)

(* A word may be quoted to keep the separators in it; words at the front    *)
(* that are empty are lost                                                  *)
WordsComeBack(words) ==
  LET quoted == [k \in DOMAIN words |-> <<Quote>> \o words[k] \o <<Quote>>]
      plain == \A k \in DOMAIN words : NoneOf({Comma}, words[k])
  IN  /\ words # <<>> => SplitLine(JoinLine(quoted, Comma), Comma) = words
      /\ plain /\ words # <<>> /\ (Len(words) > 1 => words[1] # <<>>) =>
           SplitLine(JoinLine(words, Comma), Comma) = words

(* A BCD text keeps the last digits of a number, in either order            *)
NumberComesBack(n, size, least) ==
  LET bcd == IntToBcd(n, size, least)
  IN  BcdToInt(bcd, least) = n % Power(100, size) /\ BcdToDouble(bcd, least) = n % Power(100, size)

(* Ranges are written out; one that starts at 0 gives its end only          *)
RangesAreWrittenOut(ranges) ==
  LET Written(r) == IF r[1] = r[2] THEN <<[number |-> r[1], then |-> Semicolon]>>
                    ELSE <<[number |-> r[1], then |-> Minus], [number |-> r[2], then |-> Semicolon]>>
  IN  (\A k \in DOMAIN ranges : ranges[k][1] = 0 => ranges[k][2] = 0) =>
      StringToInts(Mapped(Written, ranges)) =
        Mapped(LAMBDA r : [k \in 1..(r[2] - r[1] + 1) |-> r[1] + k - 1], ranges)

(* A place is in the square it is given, at most half a side from its centre *)
PlaceIsInItsSquare(long, lat, chars) ==
  LET centre == GridToLatlong(LatlongToGrid(long, lat, chars))
      half == Side(chars - 2) \div 2
      Near(a, b) == a - b >= -half /\ a - b < half
  IN  Near(long - 43200, centre[1]) /\ Near(lat - 43200, centre[2])

(* A point in time is the same in whichever zone it is written              *)
TimeComesBack(t, zone) ==
  LET written == Strftime(Gmtime(t + 60 * zone), IsoFormat)
      away == IF zone < 0 THEN -zone ELSE zone
  IN  /\ ConvertIsoDatetime(IsoDatetime(t)) = t
      /\ LET sign == IF zone < 0 THEN Minus ELSE 43
         IN  ConvertIsoDatetime(written \o <<sign>> \o Two(away \div 60) \o <<58>> \o Two(away % 60)) = t

(* What was printed in a format is read back: the fields that are in it     *)
DateComesBack(tm, format) ==
  LET Has(c) == \E k \in DOMAIN format : format[k] = Conv(c)
      read == StringToTm(Strftime(tm, format), format)
  IN  /\ read.ok
      /\ read.tm.year = IF Has("Y") \/ (Has("y") /\ tm.year \in 1970..2069) THEN tm.year ELSE read.tm.year
      /\ read.tm.mon = IF Has("m") \/ Has("b") THEN tm.mon ELSE 0
      /\ read.tm.mday = IF Has("d") THEN tm.mday ELSE 1
      /\ <<read.tm.hour, read.tm.min, read.tm.sec>> =
         <<IF Has("H") THEN tm.hour ELSE 0, IF Has("M") THEN tm.min ELSE 0, IF Has("S") THEN tm.sec ELSE 0>>
      /\ DaysInMonth(tm.year, tm.mon) = DayNumber(tm.year + (tm.mon + 1) \div 12, (tm.mon + 1) % 12, 1)
                                        - DayNumber(tm.year, tm.mon, 1)

(* A text that was converted is converted back to what it was, for every    *)
(* pair of functions of zc_utils.cpp that are each other's inverse; a time  *)
(* that was written is read as the same time, whatever the zone, and a date *)
(* in a format as far as the format has its fields. What is left out is     *)
(* what the code does not give back                                         *)
ConversionsComeBack ==
  CASE sample[1] = "text" -> TextComesBack(sample[2])
    [] sample[1] = "words" -> WordsComeBack(sample[2])
    [] sample[1] = "number" -> NumberComesBack(sample[2], sample[3], sample[4])
    [] sample[1] = "ranges" -> RangesAreWrittenOut(sample[2])
    [] sample[1] = "place" -> PlaceIsInItsSquare(sample[2], sample[3], sample[4])
    [] sample[1] = "time" -> TimeComesBack(sample[2], sample[3])
    [] sample[1] = "date" -> DateComesBack(sample[2], sample[3])
=============================================================================
