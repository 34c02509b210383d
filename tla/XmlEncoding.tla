---------------------------- MODULE XmlEncoding ----------------------------
(***************************************************************************)
(* Characters and bytes in pugixml (src/pugixml/pugixml.cpp): the writers  *)
(* and decoders of UTF-8, UTF-16, UTF-32 and Latin-1, the guess at a       *)
(* file's encoding, and the buffer through which a document is written in  *)
(* pieces.                                                                 *)
(*                                                                         *)
(* A text is a sequence of characters, each a one-character string or the  *)
(* name of a code point ("U+E9"); a file is a sequence of bytes. A text in *)
(* memory is UTF-8 (char_t is char).                                       *)
(***************************************************************************)
EXTENDS Integers, Sequences

CONSTANT BufCapacity    (* xml_buffered_writer::bufcapacity (2048 there)    *)

(* PUGI_IMPL_STATIC_ASSERT(bufcapacity >= 8)                                *)
ASSUME BufCapacityAssumption == BufCapacity \in Nat /\ BufCapacity >= 8

LOCAL INSTANCE SequencesExt
LOCAL Lowest(S) == CHOOSE k \in S : \A j \in S : k <= j

Nul == "U+0"
Bom == "U+FEFF"
Printable ==
  <<" ", "!", "\"", "#", "$", "%", "&", "'", "(", ")", "*", "+", ",", "-", ".", "/",
    "0", "1", "2", "3", "4", "5", "6", "7", "8", "9", ":", ";", "<", "=", ">", "?", "@",
    "A", "B", "C", "D", "E", "F", "G", "H", "I", "J", "K", "L", "M", "N", "O", "P", "Q",
    "R", "S", "T", "U", "V", "W", "X", "Y", "Z", "[", "\\", "]", "^", "_", "U+60",
    "a", "b", "c", "d", "e", "f", "g", "h", "i", "j", "k", "l", "m", "n", "o", "p", "q",
    "r", "s", "t", "u", "v", "w", "x", "y", "z", "{", "|", "}", "~">>
Others == {<<Nul, 0>>, <<"\t", 9>>, <<"\n", 10>>, <<"\f", 12>>, <<"\r", 13>>,
           <<"U+E9", 233>>, <<"U+C3", 195>>, <<"U+A9", 169>>, <<"U+20AC", 8364>>, <<Bom, 65279>>,
           <<"U+1D11E", 119070>>}
CharTable == {<<Printable[i], i + 31>> : i \in DOMAIN Printable} \cup Others

CodeOf == [c \in {p[1] : p \in CharTable} |-> (CHOOSE p \in CharTable : p[1] = c)[2]]
CharOf == [n \in {p[2] : p \in CharTable} |-> (CHOOSE p \in CharTable : p[2] = n)[1]]

Codes(text) == SubSeq([k \in DOMAIN text |-> CodeOf[text[k]]], 1, Len(text))
Chars(codes) == SubSeq([k \in DOMAIN codes |-> CharOf[codes[k]]], 1, Len(codes))

Here(s, i, text) == i + Len(text) - 1 <= Len(s) /\ SubSeq(s, i, i + Len(text) - 1) = text
IsSpace(c) == c \in {" ", "\t", "\n", "\r"}
IsControl(c) == CodeOf[c] < 32
StartSymbols ==
  {CharOf[n] : n \in {n \in DOMAIN CharOf : n > 127 \/ n \in (65..90) \cup (97..122) \cup {95, 58}}}
Symbols == StartSymbols \cup {CharOf[n] : n \in (48..57) \cup {45, 46}}

-----------------------------------------------------------------------------
(* Code points to units                                                     *)

Utf8(n) ==
  CASE n < 128   -> <<n>>
    [] n \in 128..2047 -> <<192 + n \div 64, 128 + (n % 64)>>
    [] n \in 2048..65535 -> <<224 + n \div 4096, 128 + ((n \div 64) % 64), 128 + (n % 64)>>
    [] OTHER     -> <<240 + n \div 262144, 128 + ((n \div 4096) % 64), 128 + ((n \div 64) % 64),
                      128 + (n % 64)>>

Utf16(n) == IF n < 65536 THEN <<n>> ELSE <<55296 + (n - 65536) \div 1024, 56320 + ((n - 65536) % 1024)>>
Utf32(n) == <<n>>
Latin1(n) == <<IF n > 255 THEN CodeOf["?"] ELSE n>>

BytesIn(unit, width, big) ==
  [k \in 1..width |-> (unit \div 256 ^ (IF big THEN width - k ELSE k - 1)) % 256]

LOCAL UnitsOf(codes, Unit(_)) == FoldLeft(LAMBDA s, n : s \o Unit(n), <<>>, codes)
LOCAL AsBytes(units, width, big) == FoldLeft(LAMBDA s, u : s \o BytesIn(u, width, big), <<>>, units)

Encoded(codes, encoding) ==
  CASE encoding = "utf8"     -> UnitsOf(codes, Utf8)
    [] encoding = "utf16_le" -> AsBytes(UnitsOf(codes, Utf16), 2, FALSE)
    [] encoding = "utf16_be" -> AsBytes(UnitsOf(codes, Utf16), 2, TRUE)
    [] encoding = "utf32_le" -> AsBytes(UnitsOf(codes, Utf32), 4, FALSE)
    [] encoding = "utf32_be" -> AsBytes(UnitsOf(codes, Utf32), 4, TRUE)
    [] encoding = "latin1"   -> UnitsOf(codes, Latin1)

-----------------------------------------------------------------------------
(* Units to code points. A unit that does not begin a well-formed sequence  *)
(* is left out; one inside a sequence begins none                           *)

LOCAL Trail(b, k) == k <= Len(b) /\ b[k] \in 128..191

Utf8Decoder(b) ==
  LET Bits(k) == b[k] % 64
      Trails(i, n) == \A k \in i + 1..i + n : Trail(b, k)
      CodePoint(i) ==
        CASE b[i] < 128 -> b[i]
          [] b[i] \in 192..223 /\ Trails(i, 1) -> (b[i] % 32) * 64 + Bits(i + 1)
          [] b[i] \in 224..239 /\ Trails(i, 2) -> (b[i] % 16) * 4096 + Bits(i + 1) * 64 + Bits(i + 2)
          [] b[i] \in 240..247 /\ Trails(i, 3) ->
               (b[i] % 8) * 262144 + Bits(i + 1) * 4096 + Bits(i + 2) * 64 + Bits(i + 3)
          [] OTHER -> -1
  IN  SelectSeq([i \in DOMAIN b |-> CodePoint(i)], LAMBDA n : n # -1)

RECURSIVE Utf16Decoder(_)
Utf16Decoder(u) ==
  IF u = <<>> THEN <<>>
  ELSE IF Head(u) \notin 55296..57343 THEN <<Head(u)>> \o Utf16Decoder(Tail(u))
  ELSE IF Head(u) < 56320 /\ Len(u) >= 2 /\ u[2] \in 56320..57343
  THEN <<65536 + ((u[1] % 1024) * 1024) + (u[2] % 1024)>> \o Utf16Decoder(SubSeq(u, 3, Len(u)))
  ELSE Utf16Decoder(Tail(u))

(* size / sizeof(unit) of them: what is left over at the end is dropped     *)
LOCAL AsUnits(b, width, big) ==
  LET Place(k) == 256 ^ (IF big THEN width - k ELSE k - 1)
      Byte(i, k) == b[(i - 1) * width + k] * Place(k)
  IN  [i \in 1..Len(b) \div width |-> IF width = 2 THEN Byte(i, 1) + Byte(i, 2)
                                      ELSE Byte(i, 1) + Byte(i, 2) + Byte(i, 3) + Byte(i, 4)]

(* convert_buffer                                                           *)
Decoded(b, encoding) ==
  CASE encoding = "utf8"     -> Utf8Decoder(b)
    [] encoding = "utf16_le" -> Utf16Decoder(AsUnits(b, 2, FALSE))
    [] encoding = "utf16_be" -> Utf16Decoder(AsUnits(b, 2, TRUE))
    [] encoding = "utf32_le" -> AsUnits(b, 4, FALSE)
    [] encoding = "utf32_be" -> AsUnits(b, 4, TRUE)
    [] encoding = "latin1"   -> b

-----------------------------------------------------------------------------
(* Which encoding                                                           *)

LOCAL At(b, i, text) == Here(b, i, Codes(text))
LOCAL Skip(b, i, S) ==
  CHOOSE j \in i..Len(b) + 1 : (\A k \in i..j - 1 : b[k] \in S) /\ (j <= Len(b) => b[j] \notin S)
LOCAL Spaces == {CodeOf[c] : c \in {" ", "\t", "\n", "\r"}}
LOCAL SymbolCodes == {CodeOf[c] : c \in Symbols} \cup 128..255
LOCAL Lower(n) == IF n \in 65..90 THEN n + 32 ELSE n

(* parse_declaration_encoding: the value of "encoding", <<>> when there is none *)
DeclaredEncoding(b) ==
  LET stops == {i \in 7..Len(b) - 1 : At(b, i, <<"?">>) \/ At(b, i, <<"e", "n">>)}
      i == Lowest(stops)
      equals == Skip(b, i + 8, Spaces)
      quote == Skip(b, equals + 1, Spaces)
      end == Skip(b, quote + 1, SymbolCodes)
  IN  IF /\ At(b, 1, <<"<", "?", "x", "m", "l">>) /\ Len(b) >= 6 /\ b[6] \in Spaces
         /\ stops # {} /\ At(b, i, <<"e", "n", "c", "o", "d", "i", "n", "g">>)
         /\ At(b, equals, <<"=">>)
         /\ \E q \in {"\"", "'"} : At(b, quote, <<q>>) /\ At(b, end, <<q>>)
      THEN SubSeq(b, quote + 1, end - 1) ELSE <<>>

Latin1Names == {<<"i", "s", "o", "-", "8", "8", "5", "9", "-", "1">>, <<"l", "a", "t", "i", "n", "1">>}

(* guess_buffer_encoding: the first of these beginnings that the file has   *)
Beginnings ==
  <<<<<<0, 0, 254, 255>>, "utf32_be">>, <<<<255, 254, 0, 0>>, "utf32_le">>,
    <<<<254, 255>>, "utf16_be">>, <<<<255, 254>>, "utf16_le">>, <<<<239, 187, 191>>, "utf8">>,
    <<<<0, 0, 0, 60>>, "utf32_be">>, <<<<60, 0, 0, 0>>, "utf32_le">>,
    <<<<0, 60, 0, 63>>, "utf16_be">>, <<<<60, 0, 63, 0>>, "utf16_le">>,
    <<<<0, 60>>, "utf16_be">>, <<<<60, 0>>, "utf16_le">>>>

GuessEncoding(b) ==
  LET known == SelectSeq(Beginnings, LAMBDA p : IsPrefix(p[1], b))
      declared == DeclaredEncoding(b)
      lower == [i \in DOMAIN declared |-> Lower(declared[i])]
  IN  IF Len(b) < 4 THEN "utf8"
      ELSE IF known # <<>> THEN Head(known)[2]
      ELSE IF \E name \in Latin1Names : lower = Codes(name) THEN "latin1" ELSE "utf8"

BufferEncoding(encoding, b) == IF encoding = "auto" THEN GuessEncoding(b) ELSE encoding
WriteEncoding(encoding) == IF encoding = "auto" THEN "utf8" ELSE encoding

-----------------------------------------------------------------------------
(* xml_buffered_writer. A write is <<how, bytes>>, how being the function   *)
(* it goes through: "write" (a few characters), "buffer" or "string". The   *)
(* writer is [buffer, chunks], the chunks being what each flush() converts  *)
(* on its own.                                                              *)

(* mutant: a chunk ends anywhere, also within a code point                  *)
ValidLengthTorn(b) == Len(b)

(* get_valid_length: without the last code point                            *)
ValidLength(b) ==
  LET leads == {k \in 1..4 : b[Len(b) + 1 - k] \notin 128..191}
  IN  IF Len(b) < 5 THEN 0 ELSE IF leads = {} THEN Len(b) ELSE Len(b) - Lowest(leads)

Flush(w) == IF w.buffer = <<>> THEN w ELSE [buffer |-> <<>>, chunks |-> Append(w.chunks, w.buffer)]

RECURSIVE InChunks(_, _)
InChunks(w, b) ==
  LET size == ValidLength(SubSeq(b, 1, BufCapacity))
  IN  IF Len(b) <= BufCapacity THEN [w EXCEPT !.buffer = @ \o b]
      ELSE InChunks([w EXCEPT !.chunks = Append(@, SubSeq(b, 1, size))], SubSeq(b, size + 1, Len(b)))

WriteDirect(w, b, encoding) ==
  LET flushed == Flush(w)
  IN  IF Len(b) > BufCapacity /\ encoding = "utf8" THEN [flushed EXCEPT !.chunks = Append(@, b)]
      ELSE InChunks(flushed, b)

WriteBuffer(w, b, encoding) ==
  IF Len(w.buffer) + Len(b) <= BufCapacity THEN [w EXCEPT !.buffer = @ \o b] ELSE WriteDirect(w, b, encoding)

WriteString(w, b, encoding) ==
  LET free == BufCapacity - Len(w.buffer)
      fits == SubSeq(b, 1, free)
      whole == SubSeq(fits, 1, ValidLength(fits))
  IN  IF Len(b) < free THEN [w EXCEPT !.buffer = @ \o b]
      ELSE WriteDirect([w EXCEPT !.buffer = @ \o whole], SubSeq(b, Len(whole) + 1, Len(b)), encoding)

WriteChars(w, b) == LET room == IF Len(w.buffer) > BufCapacity - Len(b) THEN Flush(w) ELSE w
                    IN  [room EXCEPT !.buffer = @ \o b]

Write(w, write, encoding) ==
  CASE write[1] = "write"  -> WriteChars(w, write[2])
    [] write[1] = "buffer" -> WriteBuffer(w, write[2], encoding)
    [] write[1] = "string" -> WriteString(w, write[2], encoding)

(* The bytes of a file that is written like that: each chunk is converted   *)
(* by itself                                                                *)
FileOf(writes, encoding) ==
  LET done == Flush(FoldLeft(LAMBDA w, x : Write(w, <<x[1], Encoded(Codes(x[2]), "utf8")>>, encoding),
                             [buffer |-> <<>>, chunks |-> <<>>], writes))
      Converted(chunk) == IF encoding = "utf8" THEN chunk ELSE Encoded(Utf8Decoder(chunk), encoding)
  IN  FoldLeft(LAMBDA s, chunk : s \o Converted(chunk), <<>>, done.chunks)
=============================================================================
