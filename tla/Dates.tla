------------------------------- MODULE Dates -------------------------------
(***************************************************************************)
(* Dates in src/src/zc_utils.cpp. A text is a sequence of bytes, a tm      *)
(* [year, mon, mday, hour, min, sec] with mon from 0. A format is a        *)
(* sequence of <<"%", letter>> and <<"", character>>.                      *)
(***************************************************************************)
EXTENDS Integers, Sequences, SequencesExt

LOCAL Mapped(Op(_), s) == FoldLeft(LAMBDA r, c : r \o Op(c), <<>>, s)
LOCAL Substr(s, at, n) == [k \in 1..(IF at + n <= Len(s) THEN n ELSE Len(s) - at) |-> s[at + k]]
LOCAL Decimal(n, width) ==
  LET Tens(k) == CASE k = 0 -> 1 [] k = 1 -> 10 [] k = 2 -> 100 [] k = 3 -> 1000
  IN  [k \in 1..width |-> 48 + ((n \div Tens(width - k)) % 10)]

IsLeap(year) ==
  IF year % 4 # 0 THEN FALSE ELSE IF year % 400 = 0 THEN TRUE ELSE year % 100 # 0

DaysInMonth(year, mon) ==
  CASE mon \in {0, 2, 4, 6, 7, 9, 11} -> 31
    [] mon \in {3, 5, 8, 10} -> 30
    [] mon = 1 -> IF IsLeap(year) THEN 29 ELSE 28

(* The library's timegm and gmtime: days since 1970                         *)
DayNumber(year, mon, mday) ==
  LET y == IF mon < 2 THEN year - 1 ELSE year
      m == (mon + 10) % 12                       (* from March               *)
  IN  365 * y + (y \div 4) - (y \div 100) + (y \div 400) + ((153 * m + 2) \div 5) + mday - 1 - 719468
Timegm(tm) == ((DayNumber(tm.year, tm.mon, tm.mday) * 24 + tm.hour) * 60 + tm.min) * 60 + tm.sec
YearOf(day) ==
  LET Since(short, long) == day \div (IF day < 0 THEN short ELSE long)
  IN  CHOOSE y \in (1969 + Since(365, 366))..(1970 + Since(366, 365)) :
        DayNumber(y, 0, 1) <= day /\ day < DayNumber(y + 1, 0, 1)
MonthOf(day, year) ==
  CHOOSE m \in 0..11 : DayNumber(year, m, 1) <= day /\ (m < 11 => day < DayNumber(year, m + 1, 1))
Gmtime(t) ==
  LET day == t \div 86400
      In(year, mon) == [year |-> year, mon |-> mon, mday |-> day - DayNumber(year, mon, 1) + 1,
                        hour |-> (t \div 3600) % 24, min |-> (t \div 60) % 60, sec |-> t % 60]
      InYear(year) == In(year, MonthOf(day, year))
  IN  InYear(YearOf(day))

(* The names of months are the locale's                                     *)
MonthName(mon) == <<65 + mon, 97, 97>>
Two(n) == Decimal(n, 2)
Strftime(tm, format) ==
  LET Field(c) == CASE c = "Y" -> Decimal(tm.year, 4)
                    [] c = "y" -> Two(tm.year % 100)
                    [] c = "m" -> Two(tm.mon + 1)
                    [] c = "b" -> MonthName(tm.mon) [] c = "d" -> Two(tm.mday) [] c = "H" -> Two(tm.hour)
                    [] c = "M" -> Two(tm.min) [] c = "S" -> Two(tm.sec)
  IN  Mapped(LAMBDA f : IF f[1] = "%" THEN Field(f[2]) ELSE <<f[2]>>, format)

LOCAL Stoi(digits) == FoldLeft(LAMBDA n, c : n * 10 + c - 48, 0, digits)
Unset == [year |-> 1970, mon |-> 0, mday |-> 1, hour |-> 0, min |-> 0, sec |-> 0]

(* The loop counts the characters of the format against the source's        *)
StringToTm(source, format) ==
  LET Count(f) == IF f[1] = "%" THEN 2 ELSE 1
      Letters(c) == CASE c = "Y" -> 4 [] c = "b" -> 3 [] OTHER -> 2
      Read(tm, c, text) ==
        CASE c = "Y" -> [tm EXCEPT !.year = Stoi(text)]
          [] c = "y" -> [tm EXCEPT !.year = IF Stoi(text) < 70 THEN 2000 + Stoi(text) ELSE 1900 + Stoi(text)]
          [] c = "m" -> [tm EXCEPT !.mon = Stoi(text) - 1]
          [] c = "b" -> [tm EXCEPT !.mon = CHOOSE m \in 0..11 : MonthName(m) = text]
          [] c = "d" -> [tm EXCEPT !.mday = Stoi(text)] [] c = "H" -> [tm EXCEPT !.hour = Stoi(text)]
          [] c = "M" -> [tm EXCEPT !.min = Stoi(text)] [] c = "S" -> [tm EXCEPT !.sec = Stoi(text)]
      Step(s, f) ==
        CASE s.ix + Count(f) > Len(source) -> s
          [] s.ix + Count(f) <= Len(source) /\ f[1] = "%" ->
               [s EXCEPT !.ix = @ + 2, !.at = @ + Letters(f[2]),
                !.tm = Read(@, f[2], Substr(source, s.at, Letters(f[2])))]
          [] OTHER -> [s EXCEPT !.ix = @ + 1, !.at = @ + 1, !.ok = @ /\ source[s.at + 1] = f[2]]
      end == FoldLeft(Step, [ix |-> 0, at |-> 0, tm |-> Unset, ok |-> TRUE], format)
  IN  [tm |-> end.tm, ok |-> end.ok]

(* mutant: the zone's time is added where it is to be taken off            *)
AdjustedTwice(t, sign, adjust) == IF sign = 43 THEN t + adjust ELSE t - adjust

Adjusted(t, sign, adjust) == IF sign = 43 THEN t - adjust ELSE t + adjust

LOCAL NumberAt(text, at, n) == Stoi(Substr(text, at, n))
ConvertIsoDatetime(text) ==
  LET tm == [year |-> NumberAt(text, 0, 4), mon |-> NumberAt(text, 5, 2) - 1, mday |-> NumberAt(text, 8, 2),
             hour |-> NumberAt(text, 11, 2), min |-> NumberAt(text, 14, 2), sec |-> NumberAt(text, 17, 2)]
      adjust == 3600 * NumberAt(text, 20, 2) + 60 * NumberAt(text, 23, 2)
  IN  IF Len(text) <= 19 \/ text[20] = 90 THEN Timegm(tm) ELSE Adjusted(Timegm(tm), text[20], adjust)

(* The items of a format                                                    *)
Lit(c) == <<"", c>>
Conv(c) == <<"%", c>>

IsoFormat == <<Conv("Y"), Lit(45), Conv("m"), Lit(45), Conv("d"), Lit(84), Conv("H"), Lit(58), Conv("M"),
               Lit(58), Conv("S")>>
IsoDatetime(t) == Strftime(Gmtime(t), IsoFormat) \o <<90>>
=============================================================================
