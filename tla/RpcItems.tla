------------------------------ MODULE RpcItems ------------------------------
(***************************************************************************)
(* What an XML-RPC value becomes on its way through zc_rpc_handler:        *)
(* write_item, generate_request and generate_response at one end,          *)
(* decode_request, decode_response and read_item at the other              *)
(* (src/zc_rpc_handler.cpp), with the setters of zc_rpc_data_item          *)
(* (src/zc_rpc_data_item.cpp), the base64 codec of byte strings, and       *)
(* pugixml in between: the values are put into a document as text, the     *)
(* document is written, read, and its texts are converted back.            *)
(*                                                                         *)
(* An item is [type, value]. The value of a text is a sequence of          *)
(* characters (XmlEncoding), of a byte string one of bytes, of a floating  *)
(* point number its eighths, and of a struct the sequence of its           *)
(* <<name, item>> in the order of their names.                             *)
(***************************************************************************)
EXTENDS XmlWriter, XmlParser, SequencesExt

CONSTANTS Items,        (* the values a method may return                    *)
          IntWidth,     (* bits of an int (32 in the code)                   *)
          Mantissa,     (* significant bits of a double (53)                 *)
          Precision     (* default_double_precision, decimal digits (17)     *)

(* DBL_DECIMAL_DIG, and an int fits a double                                *)
ASSUME NumbersAssumption ==
  /\ {IntWidth, Mantissa, Precision} \subseteq Nat \ {0}
  /\ IntWidth <= Mantissa /\ 10 ^ (Precision - 1) > 2 ^ Mantissa

VARIABLES phase,        (* where the call is                                 *)
          item,         (* the value the method returns                      *)
          error,        (* the method's return code, 0 or negative           *)
          xml,          (* the response or request, as it is sent            *)
          response,     (* the item decode_response fills in                 *)
          rpc_fault     (* its third argument                                *)

vars == <<phase, item, error, xml, response, rpc_fault>>

Empty == [type |-> "EMPTY", value |-> <<>>]

-----------------------------------------------------------------------------
(* zc::encode_base_64 and zc::decode_base_64 (src/zc_utils.cpp)             *)

(* The look-up table, and back: what is not in it is 0xFF                   *)
Alphabet == SubSeq(Printable, 34, 59) \o SubSeq(Printable, 66, 91) \o SubSeq(Printable, 17, 26) \o <<"+", "/">>
Pad == 255
Sixes == [c \in DOMAIN CodeOf |-> IF \E k \in 1..64 : Alphabet[k] = c
                                  THEN (CHOOSE k \in 1..64 : Alphabet[k] = c) - 1 ELSE Pad]
Letters(sextets) == FoldLeft(LAMBDA s, n : Append(s, Alphabet[n + 1]), <<>>, sextets)
Zeros(n) == [k \in 1..n |-> 0]
Pads(n) == [k \in 1..n |-> "="]

(* mutant: the first byte's low bits go to the wrong end                    *)
SextetsUnshifted(v, i) ==
  CASE i % 3 = 1 -> <<v[i] \div 4>>
    [] i % 3 = 2 -> <<(v[i - 1] % 4) + (v[i] \div 16)>>
    [] i % 3 = 0 -> <<(v[i - 1] % 16) * 4 + (v[i] \div 64), v[i] % 64>>

(* What the loop of encode_base_64 writes for byte i, with `out' as byte    *)
(* i - 1 left it                                                            *)
Sextets(v, i) ==
  CASE i % 3 = 1 -> <<v[i] \div 4>>
    [] i % 3 = 2 -> <<(v[i - 1] % 4) * 16 + (v[i] \div 16)>>
    [] i % 3 = 0 -> <<(v[i - 1] % 16) * 4 + (v[i] \div 64), v[i] % 64>>

(* The bits of the last byte of an incomplete group stay in `out'           *)
Encode(v) ==
  LET text == Letters(FlattenSeq([i \in 1..Len(v) |-> Sextets(v, i)]))
  IN  text \o Pads((4 - (Len(text) % 4)) % 4)

DecodeStep(t, acc, i) ==
  LET in == Sixes[t[i]]
  IN  CASE in = Pad -> acc
        [] in # Pad /\ i % 4 = 1 -> [acc EXCEPT !.out = (in * 4) % 256]
        [] in # Pad /\ i % 4 = 2 -> [out |-> (in % 16) * 16,
                                     result |-> Append(acc.result, acc.out + (in \div 16))]
        [] in # Pad /\ i % 4 = 3 -> [out |-> (in % 4) * 64,
                                     result |-> Append(acc.result, acc.out + (in \div 4))]
        [] in # Pad /\ i % 4 = 0 -> [out |-> 0, result |-> Append(acc.result, acc.out + in)]

Decode(t) ==
  FoldLeft(LAMBDA acc, i : DecodeStep(t, acc, i), [out |-> 0, result |-> <<>>], [i \in 1..Len(t) |-> i]).result

(* Base64 by its definition: the bits of the string, six at a time          *)
Bit(v, k) == (v[((k - 1) \div 8) + 1] \div 2^(7 - ((k - 1) % 8))) % 2
Bits(v) == [k \in 1..(8 * Len(v)) |-> Bit(v, k)] \o Zeros(((3 - (Len(v) % 3)) % 3) * 8)
Sextet(b, n) == b[6*n-5]*32 + b[6*n-4]*16 + b[6*n-3]*8 + b[6*n-2]*4 + b[6*n-1]*2 + b[6*n]
Reference(v) ==
  LET padding == (3 - (Len(v) % 3)) % 3
      full == [n \in 1..(Len(Bits(v)) \div 6) |-> Sextet(Bits(v), n)]
  IN  Letters(SubSeq(full, 1, Len(full) - padding)) \o Pads(padding)

-----------------------------------------------------------------------------
(* Numbers as text (pugixml's setters and getters of a text)                *)

RECURSIVE DigitsOf(_)
DigitsOf(n) == (IF n < 10 THEN <<>> ELSE DigitsOf(n \div 10)) \o <<CharOf[48 + (n % 10)]>>
NumberIn(digits) == FoldLeft(LAMBDA n, c : 10 * n + (CodeOf[c] - 48), 0, digits)
IsDigit(c) == CodeOf[c] \in 48..57
Trimmed0(digits) == SubSeq(digits, 1, CHOOSE k \in 0..Len(digits) : /\ k = 0 \/ digits[k] # "0"
                                                                  /\ \A j \in k + 1..Len(digits) : digits[j] = "0")
WithSign(n, text) == IF n < 0 THEN <<"-">> \o text ELSE text
Magnitude(n) == IF n < 0 THEN -n ELSE n

(* Division with the remainder rounded to nearest, half to even             *)
Nearest(n, d) ==
  LET q == n \div d
      r == 2 * (n % d)
  IN  IF r > d \/ (r = d /\ q % 2 = 1) THEN q + 1 ELSE q

IntegerToString(n) == WithSign(n, DigitsOf(Magnitude(n)))

(* string_to_integer of what integer_to_string writes: too large a number   *)
(* is the largest                                                           *)
AsInt(text) ==
  LET negative == text # <<>> /\ Head(text) = "-"
      n == NumberIn(SelectSeq(text, IsDigit))
      limit == 2 ^ (IntWidth - 1)
  IN  IF negative THEN (IF n > limit THEN -limit ELSE -n) ELSE IF n > limit - 1 THEN limit - 1 ELSE n

AsBool(text) == text # <<>> /\ Head(text) \in {"1", "t", "T", "y", "Y"}

(* "%.*g": rounded to Precision digits, with an exponent when there would   *)
(* be more before the point, without zeros at the end. 1/8 is 125 thousandths *)
DoubleToString(v) ==
  LET exact == 125 * Magnitude(v)
      excess == Len(DigitsOf(exact)) - Precision
      thousandths == IF excess <= 0 THEN exact ELSE Nearest(exact, 10 ^ excess) * 10 ^ excess
      digits == DigitsOf(thousandths)
      exponent == Len(digits) - 4
      Pointed(n, fraction) == n \o (IF fraction = <<>> THEN <<>> ELSE <<".">> \o fraction)
      fixed == Pointed(DigitsOf(thousandths \div 1000),
                       Trimmed0(Tail(DigitsOf(1000 + (thousandths % 1000)))))
      scientific == Pointed(<<Head(digits)>>, Trimmed0(Tail(digits)))
                    \o <<"e", "+">> \o Tail(DigitsOf(100 + exponent))
  IN  WithSign(v, IF exponent < Precision THEN fixed ELSE scientific)

(* strtod of such a text: the nearest number that is a double               *)
AsDouble(text) ==
  LET negative == text # <<>> /\ Head(text) = "-"
      e == CHOOSE k \in 1..Len(text) + 1 : (k <= Len(text) => text[k] = "e") /\ \A j \in 1..k - 1 : text[j] # "e"
      point == CHOOSE k \in 1..e : (k < e => text[k] = ".") /\ \A j \in 1..k - 1 : text[j] # "."
      decimals == IF point = e THEN 0 ELSE e - point - 1
      exponent == NumberIn(SelectSeq(SubSeq(text, e + 1, Len(text)), IsDigit))
      thousandths == NumberIn(SelectSeq(SubSeq(text, 1, e - 1), IsDigit)) * 10 ^ (3 + exponent - decimals)
      unit == CHOOSE j \in 0..20 : /\ thousandths < 125 * 2 ^ (Mantissa + j)
                                   /\ j = 0 \/ thousandths >= 125 * 2 ^ (Mantissa + j - 1)
      v == Nearest(thousandths, 125 * 2 ^ unit) * 2 ^ unit
  IN  IF negative THEN -v ELSE v

-----------------------------------------------------------------------------
(* Documents. The names of the elements are cut to a letter (it is a        *)
(* bijection); a name or text that is absent is <<>>                        *)
Letter == [methodCall |-> "C", methodName |-> "N", methodResponse |-> "R", params |-> "P", param |-> "p",
           fault |-> "F", value |-> "v", boolean |-> "b", int |-> "i", double |-> "d", string |-> "s",
           dateTime |-> "t", base64 |-> "x", array |-> "A", data |-> "D", struct |-> "S",
           member |-> "m", name |-> "n"]
Xml(kind, name, value, kids) == [kind |-> kind, name |-> name, value |-> value, attributes |-> <<>>, kids |-> kids]
Elem(tag, kids) == Xml("element", <<Letter[tag]>>, <<>>, kids)

(* xml_text::set: an element of that text. It is kept zero-terminated       *)
WithText(tag, text) ==
  LET end == CHOOSE k \in 0..Len(text) : (k < Len(text) => text[k + 1] = Nul) /\ \A j \in 1..k : text[j] # Nul
  IN  Elem(tag, <<Xml("pcdata", <<>>, SubSeq(text, 1, end), <<>>)>>)

(* write_item: the <value> of an item                                      *)
RECURSIVE Written(_)
Written(it) ==
  LET Text(tag, text) == Elem("value", <<WithText(tag, text)>>)
      Each(Op(_)) == FoldLeft(LAMBDA s, x : Append(s, Op(x)), <<>>, it.value)
  IN  CASE it.type = "BOOLEAN"  -> Text("boolean", IF it.value = 1 THEN <<"t", "r", "u", "e">>
                                                   ELSE <<"f", "a", "l", "s", "e">>)
        [] it.type = "INT"      -> Text("int", IntegerToString(it.value))
        [] it.type = "DOUBLE"   -> Text("double", DoubleToString(it.value))
        [] it.type = "STRING"   -> Text("string", it.value)
        [] it.type = "DATETIME" -> Text("dateTime", it.value)
        [] it.type = "BYTES"    -> Text("base64", Encode(it.value))
        [] it.type = "ARRAY"    -> Elem("value", <<Elem("array", <<Elem("data", Each(Written))>>)>>)
        [] it.type = "STRUCT"   ->
             Elem("value", <<Elem("struct",
               Each(LAMBDA m : Elem("member", <<WithText("name", m[1]), Written(m[2])>>)))>>)
        [] it.type = "EMPTY"    -> Elem("value", <<>>)

(* doc.save() and doc.load(), with the options they have by default, but    *)
(* without the indentation, which the reader drops, and without the text's  *)
(* way through bytes: both are XmlFiles                                     *)
Sent(root) ==
  LET version == [name |-> <<"v">>, value |-> <<"1", ".", "0">>]
      declaration == [Xml("declaration", <<"x", "m", "l">>, <<>>, <<>>) EXCEPT !.attributes = <<version>>]
      writes == NodeOutput([out |-> <<>>, next |-> {"indent"}],
                           Xml("document", <<>>, <<>>, <<declaration, root>>), {"raw"}, 0).out
  IN  FlattenSeq([k \in DOMAIN writes |-> writes[k][2]])
Received(text) == Parse(text, TRUE, {"escapes", "cdata", "eol", "wconv"}).tree

(* A node that is not there has no name, no text and no children            *)
NoNode == Xml("null", <<>>, <<>>, <<>>)
FirstOf(kids) == IF kids = <<>> THEN NoNode ELSE Head(kids)
Tagged(kids, tag) == SelectSeq(kids, LAMBDA k : k.name = <<Letter[tag]>>)
ChildOf(n, tag) == FirstOf(Tagged(n.kids, tag))
TextOf(n) ==
  IF n.kind \in {"pcdata", "cdata"} THEN n.value
  ELSE FirstOf(SelectSeq(n.kids, LAMBDA k : k.kind \in {"pcdata", "cdata"})).value

(* item.set() with one number is set(double), for an unsigned int as for a  *)
(* bool                                                                     *)
SetNumber(eighths) == [type |-> "DOUBLE", value |-> eighths]

(* read_item looks for a <value> below the node it is given. The elements   *)
(* of an array are <values> that have none. The text of a <member> is empty *)
(* (its name is in a child), so all members get that key, and the last one  *)
(* replaces the others                                                      *)
RECURSIVE ReadItem(_)
ReadItem(node) ==
  LET n == FirstOf(ChildOf(node, "value").kids)
      Is(tag) == n.name = <<Letter[tag]>>
      members == Tagged(n.kids, "member")
      Replaced(k) == \E j \in k + 1..Len(members) : TextOf(members[j]) = TextOf(members[k])
      struct == SelectSeq([k \in DOMAIN members |-> IF Replaced(k) THEN <<>>
                                                     ELSE <<TextOf(members[k]), ReadItem(members[k])>>],
                          LAMBDA m : m # <<>>)
  IN  CASE Is("array")   -> [type |-> "ARRAY",
                             value |-> FoldLeft(LAMBDA s, x : Append(s, ReadItem(x)), <<>>,
                                                ChildOf(n, "data").kids)]
        [] Is("base64")  -> [type |-> "STRING", value |-> Decode(TextOf(n))]
        [] Is("boolean") -> SetNumber(IF AsBool(TextOf(n)) THEN 8 ELSE 0)
        [] Is("dateTime") -> [type |-> "DATETIME", value |-> TextOf(n)]
        [] Is("double")  -> SetNumber(AsDouble(TextOf(n)))
        [] Is("int")     -> SetNumber(8 * (AsInt(TextOf(n)) % 2 ^ IntWidth))
        [] Is("string") \/ n.name = <<>> -> [type |-> "STRING", value |-> TextOf(n)]
        [] Is("struct")  -> [type |-> "STRUCT", value |-> struct]
        [] OTHER -> Empty

-----------------------------------------------------------------------------
Init ==
  /\ phase = "call" /\ item \in Items /\ error \in {-1, 0}
  /\ xml = <<>> /\ response = Empty /\ rpc_fault = "unset"

(* generate_response: <params> or <fault>                                   *)
Generate ==
  /\ phase = "call"
  /\ xml' = Sent(Elem("methodResponse",
                       <<IF error # 0 THEN Elem("fault", <<Written(item)>>)
                         ELSE Elem("params", <<Elem("param", <<Written(item)>>)>>)>>))
  /\ phase' = "sent"
  /\ UNCHANGED <<item, error, response, rpc_fault>>

(* strcmp() is zero, and false, when the names are equal: <params> is taken *)
(* for a fault, and read without its <param>; <fault> is taken for a result *)
(* and searched for a <param>. Either way no <value> is found.              *)
DecodeResponse ==
  /\ phase = "sent"
  /\ \E doc \in {Received(xml)} :
       LET child == FirstOf(ChildOf(doc, "methodResponse").kids)
           strcmp(tag) == child.name # <<Letter[tag]>>
       IN  /\ rpc_fault' = IF strcmp("params") THEN "no" ELSE "yes"
           /\ response' = ReadItem(IF strcmp("params") THEN ChildOf(child, "param") ELSE child)
  /\ phase' = "done"
  /\ UNCHANGED <<item, error, xml>>

(* The value as the parameter of a request: generate_request at one end,    *)
(* decode_request at the other                                              *)
GenerateRequest ==
  /\ phase = "call" /\ error = 0
  /\ xml' = Sent(Elem("methodCall", <<WithText("methodName", <<"f">>),
                                       Elem("params", <<Elem("param", <<Written(item)>>)>>)>>))
  /\ phase' = "asked"
  /\ UNCHANGED <<item, error, response, rpc_fault>>

DecodeRequest ==
  /\ phase = "asked"
  /\ \E doc \in {Received(xml)} :
       response' = ReadItem(FirstOf(ChildOf(ChildOf(doc, "methodCall"), "params").kids))
  /\ phase' = "request"
  /\ UNCHANGED <<item, error, xml, rpc_fault>>

Next == Generate \/ DecodeResponse \/ GenerateRequest \/ DecodeRequest
Spec == Init /\ [][Next]_vars

-----------------------------------------------------------------------------
(* Text, as far as XML and a zero-terminated string can carry it: up to a   *)
(* zero, each end of line as a line feed, and nothing of it when it is      *)
(* blank                                                                    *)
Carried(text) ==
  LET zeros == {k \in DOMAIN text : text[k] = Nul}
      whole == IF zeros = {} THEN text ELSE SubSeq(text, 1, (CHOOSE k \in zeros : \A j \in zeros : k <= j) - 1)
      Line(k) == CASE whole[k] = "\r" -> <<"\n">>
                   [] whole[k] = "\n" /\ k > 1 /\ whole[k - 1] = "\r" -> <<>>
                   [] OTHER -> <<whole[k]>>
  IN  IF \A k \in DOMAIN whole : IsSpace(whole[k]) THEN <<>>
      ELSE FlattenSeq([k \in DOMAIN whole |-> Line(k)])

(* Text and dates arrive, whatever in them has to be escaped; so does every *)
(* floating point number, although it is rounded when it is printed         *)
TextAndDoublesSurvive ==
  phase = "request" =>
    /\ item.type \in {"STRING", "DATETIME"} => response = [item EXCEPT !.value = Carried(@)]
    /\ item.type = "DOUBLE" => response = item

(* An integer arrives as the floating point number of the same value, if it *)
(* is not negative; if it is, 2^IntWidth is added. A Boolean arrives as 1   *)
(* when it was 1, and as 0 when it was anything else.                       *)
IntegersBecomeDoubles ==
  phase = "request" =>
    /\ item.type = "INT" =>
         response = SetNumber(8 * (IF item.value < 0 THEN item.value + 2 ^ IntWidth ELSE item.value))
    /\ item.type = "BOOLEAN" => response = SetNumber(IF item.value = 1 THEN 8 ELSE 0)

(* A byte string of whole groups of three bytes is sent as the standard has *)
(* it, and any other arrives without its last byte (encode_base_64 loses    *)
(* the last bits of an incomplete group). What the standard makes of a byte *)
(* string is read back whole, whether its last group is complete or padded. *)
BytesFollowTheStandard ==
  item.type = "BYTES" =>
    LET v == item.value
        whole == Len(v) % 3 = 0
    IN  /\ whole => Encode(v) = Reference(v)
        /\ Decode(Reference(v)) = v
        /\ phase = "request" =>
             response = [type |-> "STRING", value |-> SubSeq(v, 1, IF whole THEN Len(v) ELSE Len(v) - 1)]

(* What is sent as an item arrives as that item, as far as the types of     *)
(* XML-RPC and the code's conversions reach (write_item, read_item)         *)
ItemsArriveAsSent == TextAndDoublesSurvive /\ IntegersBecomeDoubles /\ BytesFollowTheStandard

(* decode_response's `fault' "receives true if the response contains an     *)
(* error" (zc_rpc_handler.h).                                               *)
FaultReported == phase = "done" => (rpc_fault = "yes") = (error # 0)
=============================================================================
