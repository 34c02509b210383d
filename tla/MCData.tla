------------------------------- MODULE MCData -------------------------------
(* TLC instance of what has to do with XML documents and the XML-RPC values  *)
(* in them, and of the conversions of texts. Each behaviour is one of        *)
(* documents that are edited and searched, of a value that is sent, of a     *)
(* document that is saved and loaded, of a text that is converted, of an     *)
(* XPath query that is read, of a deque between threads, or of a buffer of   *)
(* one thread.                                                               *)
EXTENDS XmlQueries, RpcItems, XmlFiles, Utils, AsyncDeque, PullBuffers, XPathParser

CONSTANTS SampleBytes,  (* bound: the bytes a byte string is made of         *)
          MaxBytes,     (* bound: its length                                 *)
          Parts         (* the parts this run looks at                       *)

VARIABLE part           (* rigid: the part that moves                        *)

MCSamples == {-7, -1, 0, 2, 5}

-----------------------------------------------------------------------------
(* Values of every type, alone and in arrays and structs                     *)
Item(type, values) == {[type |-> type, value |-> v] : v \in values}

ItemTexts == {<<>>, <<"a">>, <<" ", "a", " ">>, <<"<", "&", ">", "\"">>, <<"]", "]", ">">>, <<"&", "l", "t", ";">>,
              <<" ", "\r", "\n">>, <<"a", "\r", "\n", "\r", "b", "\n">>, <<"\r", "a", "\f">>,
              <<"a", Nul, "b">>, <<Nul>>, <<"U+E9", "U+20AC">>}
Doubles == {s * k * 2 ^ e : s \in {-1, 1}, k \in 0..63, e \in 0..9}
Scalars ==
  Item("STRING", ItemTexts) \union Item("DATETIME", ItemTexts)
  \union Item("DOUBLE", Doubles) \union Item("INT", -16..15) \union Item("BOOLEAN", 0..2)
Bytes == Item("BYTES", UNION {[1..n -> SampleBytes] : n \in 0..MaxBytes})
Elements == {[type |-> "STRING", value |-> <<"a">>], [type |-> "DOUBLE", value |-> 1],
             [type |-> "INT", value |-> 1]}
Arrays == Item("ARRAY", UNION {[1..n -> Elements] : n \in 0..2})
Structs == Item("STRUCT", {<<>>} \union {<<<<<<"a">>, e>>, <<<<"b">>, f>>>> : e, f \in Elements})
Nested == Item("STRUCT", {<<<<<<"a">>, s>>>> : s \in Item("ARRAY", {<<>>} \union {<<e>> : e \in Elements})
                                                    \union Item("STRUCT", {<<<<<<"b">>, e>>>> : e \in Elements})})
MCItems == Scalars \union Bytes \union Arrays \union Structs \union Nested \union {Empty}

ItemAtRest == [type |-> "DOUBLE", value |-> 1]

-----------------------------------------------------------------------------
(* Small documents, with pages of four nodes; paths of up to two steps, with *)
(* up to two predicates                                                      *)
Element(name, attributes, kids) ==
  [kind |-> "element", name |-> name, value |-> <<>>, attributes |-> attributes, kids |-> kids]
Pcdata(text) == [kind |-> "pcdata", name |-> <<>>, value |-> text, attributes |-> <<>>, kids |-> <<>>]
Pair(name, value) == [name |-> name, value |-> value]

MCStrings == {<<"a">>, <<"b", "b">>}
Short == <<Element(<<"c", "c">>, <<Pair(<<"e">>, <<"f", "f">>)>>, <<Element(<<"d">>, <<>>, <<>>)>>)>>
Long == <<Element(<<"a">>, <<>>,
            <<Element(<<"c">>, <<Pair(<<"e">>, <<"f">>)>>, <<Pcdata(<<"f">>)>>),
              Element(<<"d">>, <<>>, <<Element(<<"c">>, <<>>, <<>>)>>)>>)>>
MCForests == {Short, Long}

MCAxes == {"attribute", "child", "descendant", "descendant_or_self", "following_sibling", "preceding_sibling",
           "following", "preceding", "ancestor", "ancestor_or_self", "self", "parent"}
AnyNode == [type |-> "node"]
Named(name) == [type |-> "name", name |-> name]

Predicate(expr) == [expr |-> expr, test |-> "default"]
One == Predicate([type |-> "number", number |-> 1])
StepFrom(left, axis, test, preds) == [type |-> "step", left |-> left, axis |-> axis, test |-> test,
                                      predicates |-> preds]
HasAttribute == Predicate([type |-> "equal", path |-> StepFrom(NoPath, "attribute", Named(<<"e">>), <<>>),
                           text |-> <<"f">>])
HasChild == Predicate([type |-> "path", path |-> StepFrom(NoPath, "child", AnyNode, <<>>)])
Tests == {AnyNode, Named(<<"c">>)}
Filters == {<<>>, <<One>>, <<Predicate([type |-> "last"])>>,
            <<Predicate([type |-> "position_is", number |-> 2])>>,
            <<HasChild>>, <<HasAttribute>>, <<HasChild, One>>, <<Predicate([type |-> "not_last"])>>}
Pairs == {<<AnyNode, <<>>>>, <<AnyNode, <<One>>>>, <<AnyNode, <<HasChild, One>>>>,
          <<Named(<<"c">>), <<HasAttribute>>>>,
          <<Named(<<"c">>), <<Predicate([type |-> "not_last"])>>>>}

Firsts == {StepFrom(NoPath, a, AnyNode, <<>>) : a \in MCAxes}
          \cup {StepFrom([type |-> "root"], "descendant_or_self", AnyNode, <<>>)}
Singles == {StepFrom(NoPath, a, t, p) : a \in MCAxes, t \in Tests, p \in Filters}
Seconds == {StepFrom(s, a, f[1], f[2]) : s \in Firsts, a \in MCAxes, f \in Pairs}
AllQueries ==
  Singles \cup Seconds
  \cup {[type |-> "filter", left |-> StepFrom(s, a, AnyNode, <<>>), predicates |-> p] :
          s \in Firsts, a \in MCAxes, p \in {<<One>>, <<HasChild>>}}
  \cup {[type |-> "union", left |-> s, right |-> t] : s, t \in Firsts}

MCQueries == <<AllQueries, Firsts>>

-----------------------------------------------------------------------------
(* Documents to save: an element with every pair out of some two dozen       *)
(* contents, attributes, what may stand beside the element, and the names    *)
(* and texts that are not ASCII. BufCapacity is small enough for texts to be *)
(* divided everywhere.                                                       *)
LOCAL Thing(kind, name, value, attributes, kids) ==
  [kind |-> kind, name |-> name, value |-> value, attributes |-> attributes, kids |-> kids]
LOCAL Tag(name, attributes, kids) == Thing("element", name, <<>>, attributes, kids)
LOCAL Valued(kind, value) == Thing(kind, <<>>, value, <<>>, <<>>)
LOCAL Pi(value) == Thing("pi", <<"n">>, value, <<>>, <<>>)
LOCAL Doc(kids) == Thing("document", <<>>, <<>>, <<>>, kids)
LOCAL Attr(value) == [name |-> <<"k">>, value |-> value]

LOCAL Contents ==
  {Valued("pcdata", v) : v \in {<<>>, <<" ", "\n">>, <<"b">>, <<" ", "<", "&", ">", "\t">>,
                                <<"\r", "\n", "\r">>, <<"\f", "\"">>,
                                <<"&", "a", "m", "p", ";">>, <<"&", "#", "3", "8", ";">>}}
  \cup {Valued("cdata", v) : v \in {<<>>, <<"]", "]", ">">>, <<"]", "]", "]", ">", "&">>, <<"\r", "]">>}}
  \cup {Valued("comment", v) : v \in {<<>>, <<"-">>, <<"-", "-", "-">>, <<"-", ">", "\r", "\n">>}}
  \cup {Pi(v) : v \in {<<>>, <<" ", "?", ">">>, <<"?">>}}
  \cup {Tag(<<>>, <<>>, <<>>), Tag(<<"b">>, <<>>, <<Valued("comment", <<>>), Valued("pcdata", <<" ">>)>>),
        Thing("element", <<"c">>, <<"v">>, <<>>, <<Valued("pcdata", <<"w">>)>>)}

LOCAL Lone == {Doc(<<Tag(<<"a">>, <<>>, <<c>>)>>) : c \in Contents}
LOCAL Couples == {Doc(<<Tag(<<"a">>, <<>>, <<c, d>>)>>) : c, d \in Contents}
LOCAL Attributed ==
  {Doc(<<Tag(<<"a">>, <<Attr(v), Attr(<<"z">>)>>, <<>>)>>) :
     v \in {<<>>, <<" ", " ", "b", " ", " ", "c", "\n">>, <<"\t", "\r", "\n">>, <<"<", "&", ">">>,
            <<"\"", "'">>, <<"&", "l", "t", ";">>, <<"/", ">">>}}
LOCAL EncodingName == <<"e", "n", "c", "o", "d", "i", "n", "g">>
LOCAL Own == Thing("declaration", <<"x", "m", "l">>, <<>>,
                   <<[name |-> <<"v">>, value |-> <<"1">>],
                     [name |-> EncodingName, value |-> <<"L", "a", "t", "i", "n", "1">>]>>, <<>>)
LOCAL Types ==
  {<<"a">>,
   <<"a", " ", "[", "<", "!", "E", " ", "\"", ">", "\"", ">", "<", "?", "n", " ", ">", "?", ">", "]">>,
   <<"a", "[", "<", "!", "[", "<", "!", "[", "]", "]", ">", ">", "]", "]", ">">>
     \o <<"<", "!", "-", "-", "'", "-", "-", ">", "]">>}
LOCAL A == Tag(<<"a">>, <<>>, <<>>)
LOCAL Neighbours ==
  {Doc(<<>>), Doc(<<Valued("pcdata", <<"b">>)>>), Doc(<<A, Valued("pcdata", <<" ", "b">>), A>>),
   Doc(<<Valued("comment", <<"c">>), A, Pi(<<"d">>)>>),
   Doc(<<Valued("cdata", <<"c">>), Own, A>>), Doc(<<A, Own>>)}
  \cup {Doc(<<Valued("doctype", v), A>>) : v \in Types}
LOCAL Accents == <<"U+E9", "b", "U+E9", "U+E9">>
LOCAL Foreign == {Doc(<<Tag(Accents, <<Attr(Accents \o Accents)>>, <<Valued("pcdata", Accents)>>)>>),
                  Doc(<<Own, Tag(<<"a">>, <<>>, <<Valued("pcdata", <<"U+E9">>)>>)>>),
                  Doc(<<Valued("pcdata", <<"b">>), A, Valued("pcdata", <<"c">>)>>)}
LOCAL Wide == {Doc(<<Tag(<<"a", "b", "U+20AC">>, <<>>,
                         <<Valued("pcdata", <<"U+20AC", "U+1D11E", "U+1D11E", "U+20AC", "U+E9", "c",
                                              "U+1D11E">>),
                           Valued("comment", <<"U+20AC", "-", "U+1D11E">>)>>)>>)}

LOCAL WriteFormats == {{"indent"}, {"raw"}, {"raw", "write_bom", "skip_control_chars"}, {"no_declaration"},
                  {"indent_attributes", "attribute_single_quote"},
                  {"raw", "no_declaration", "no_empty_element_tags"}}
LOCAL Utf == {"utf8", "utf16_le", "utf16_be", "utf32_le", "utf32_be"}

MCInterrupted ==
  ({Doc(<<Tag(<<"a">>, <<Attr(<<">">>)>>, <<A, Valued("pcdata", <<"b">>), Valued("comment", <<>>),
                                            Valued("cdata", <<">">>)>>)>>)}
     \X {{"indent"}, {"raw", "no_declaration"}} \X {"utf8", "utf16_le", "latin1"})
  \cup (Neighbours \X WriteFormats \X {"utf8"})

MCSaves ==
  MCInterrupted
  \cup (Couples \X {{"indent"}, {"raw"}} \X {"utf8"})
  \cup ((Lone \cup Attributed \cup Neighbours) \X WriteFormats \X {"utf8"})
  \cup (Foreign \X {{"indent"}, {"raw", "write_bom"}, {"raw", "no_declaration"}} \X (Utf \cup {"latin1"}))
  \cup (Wide \X {{"indent"}, {"raw", "write_bom"}} \X Utf)
LOCAL Escaping == {"escapes", "cdata"}
LOCAL Every == Escaping \cup {"eol", "wconv", "pi", "comments", "declaration", "doctype"}
MCOptionSets ==
  {Escaping \cup {"eol", "wconv"}, Every, Escaping, {"escapes", "eol", "merge_pcdata", "trim_pcdata"},
   Every \cup {"fragment", "wnorm"}, {"escapes", "wnorm", "embed_pcdata", "merge_pcdata", "comments"},
   Escaping \cup {"ws_pcdata"}, {"escapes", "ws_pcdata_single", "embed_pcdata"}}
MCSafeOptions == {Escaping \cup {"eol", "wconv"}, Every}
-----------------------------------------------------------------------------
(* Texts to convert: up to three of the bytes that are treated in some       *)
(* special way; the numbers, places and dates at the edges.                  *)
LOCAL UpTo(S, n) == UNION {[1..k -> S] : k \in 0..n}
MCSampleTexts == UpTo({1, 32, 38, 37, 47, 54, 65, 92, 97, 120, 95, 200, 255}, 3)
MCSampleLines == UpTo(UpTo({44, 97}, 2), 3)
MCSampleNumbers == {0, 1, 9, 10, 99, 100, 123456, 9999999, 10000000, 12345678, 99999999, 123456789}
MCRangeLists == UpTo({<<a, a + n>> : a \in 0..3, n \in 0..2}, 2)
MCSamplePlaces == {0, 1, 2399, 4799, 4800, 43199, 43200, 43201, 43220, 50003, 81599, 86379, 86399}
MCSampleTimes == {0, 951782399, 951782400, 1078012799, 1704067199, 1709164800, 1735689599, 2147383647}
MCZones == {-720, -330, -1, 0, 60, 345, 840}
LOCAL Tm(y, m, d) == [year |-> y, mon |-> m, mday |-> d, hour |-> 23, min |-> 8, sec |-> 59]
MCSampleDates == {Tm(y, m, 28) : y \in {1970, 1999, 2000, 2024, 2069, 2100}, m \in 0..11}
MCFormats ==
  {<<Conv("Y"), Conv("m"), Conv("d")>>, <<Conv("d"), Lit(47), Conv("m"), Lit(47), Conv("y")>>,
   <<Conv("d"), Lit(32), Conv("b"), Lit(32), Conv("Y"), Lit(32), Conv("H"), Lit(58), Conv("M")>>,
   <<Conv("y"), Conv("m"), Conv("d"), Conv("H"), Conv("M"), Conv("S")>>,
   <<Conv("H"), Lit(58), Conv("M")>>, <<Conv("b"), Conv("y")>>}
-----------------------------------------------------------------------------
(* Queries to read: every short sequence of lexemes of expressions, paths,   *)
(* calls and axes; sums of four terms; brackets nested beyond the limit;     *)
(* queries that are long but nowhere deep; and every short text, to divide   *)
(* into lexemes.                                                             *)
LOCAL Parens(n) == [k \in 1..2 * n + 1 |-> IF k <= n THEN "(" ELSE IF k = n + 1 THEN "a" ELSE ")"]
LOCAL Boxes(n) == [k \in 1..3 * n + 1 |-> IF k > 2 * n + 1 THEN "]" ELSE IF k % 2 = 1 THEN "a" ELSE "["]
LOCAL Strung(n, sign) == [k \in 1..2 * n + 1 |-> IF k % 2 = 1 THEN "a" ELSE sign]
LOCAL Units ==
  {<<"(", "a", "or", "a", ")">>, <<"a", "/", "a", "//", "a">>, <<"a", "[", "a", "]", "[", "a", "]">>,
   <<"-", "a", "|", "a">>, <<"(", "a", ")", "[", "a", "]", "/", "a">>, <<"count", "(", "a", "|", "a", ")">>}
LOCAL Repeated(n, unit, sign) ==
  [k \in 1..n * (Len(unit) + 1) - 1 |-> IF k % (Len(unit) + 1) = 0 THEN sign ELSE unit[k % (Len(unit) + 1)]]
LOCAL LongQueries == {Repeated(n, unit, sign) : n \in 4..6, unit \in Units, sign \in {"or", "+"}}
LOCAL LongCalls == {<<"concat", "(">> \o Repeated(n, unit, ",") \o <<")">> : n \in 4..5, unit \in Units}
LOCAL Term == {<<"a">>, <<"-", "a">>}
LOCAL Operator == {"*", "-", "|", "or", "="}
LOCAL Sums == {p \o <<o>> \o q \o <<o2>> \o r \o <<o3>> \o <<"a">> : p, q, r \in Term, o, o2, o3 \in Operator}
MCQueryLexemes ==
  UpTo({"a", "*", "-", "|", "or", "="}, 5) \cup UpTo({"/", "//", "a", "*", "..", "@", "[", "]"}, 4)
  \cup UpTo({"count", "text", "(", ")", "1", ",", "/"}, 4) \cup UpTo({"child", "::", "*", "a:*", "@", "a"}, 4)
  \cup Sums \cup LongQueries \cup LongCalls
  \cup {Parens(n) : n \in 1..13} \cup {Boxes(n) : n \in 1..4}
  \cup {Strung(n, sign) : n \in 4..7, sign \in {"/", "//", "+", "|"}}
  \cup {<<"substring", "(", "'", ",", "1", ")">>, <<"concat", "(", "a", ",", "'", ",", "1", ")">>,
        <<"concat", "(", "a", ")">>,
        <<"processing-instruction", "(", "'", ")">>, <<"(", "a", ")", "[", "1", "]", "/", "a">>,
        <<"id", "(", "'", ")", "//", "a", "|", "a">>,
        <<"a", "[", "1", "]", "[", "a", "]", "//", "text", "(", ")">>,
        <<"a", "<", "1", "+", "a", "*", "-", "a", "|", "*", "and", "a">>,
        <<"(", "1", ")", "[", "1", "]">>, <<"'", "//", "a">>}
MCQueryTexts ==
  UpTo({"a", "1", ".", "-", ":", "*", "/", "$", "'", "!", "=", "<", " "}, 3)
  \cup UpTo({"a", "1", ".", ":", "*", "$"}, 5)
-----------------------------------------------------------------------------
DataInit ==
  /\ part \in Parts
  /\ Init /\ heap = NewHeap /\ query = NoQuery /\ FilesInit
  /\ calls = IF part = "documents" THEN 0 ELSE MaxCalls
  /\ PullInit /\ AverageInit /\ DequeInit /\ (part # "deque" => ~reading)
  /\ part # "items" => item = ItemAtRest /\ error = 0
  /\ IF part = "values" THEN UtilsInit ELSE sample = <<"text", <<>>>>
  /\ IF part = "queries" THEN QueryInit ELSE asked = <<"text", <<>>>>

xmlVars == <<heap, calls, query, vars, fileVars>>
bufferVars == <<dequeVars, averageVars, pullVars>>

DataNext ==
  /\ UNCHANGED <<part, sample, asked>>
  /\ \/ part = "documents" /\ QueryNext /\ UNCHANGED <<vars, fileVars, bufferVars>>
     \/ part = "items" /\ Next /\ UNCHANGED <<heap, calls, query, fileVars, bufferVars>>
     \/ part = "files" /\ FilesNext /\ UNCHANGED <<heap, calls, query, vars, bufferVars>>
     \/ part = "deque" /\ DequeNext /\ UNCHANGED <<xmlVars, averageVars, pullVars>>
     \/ part = "queue" /\ PullNext /\ UNCHANGED <<xmlVars, averageVars, dequeVars>>
     \/ part = "average" /\ AverageNext /\ UNCHANGED <<xmlVars, dequeVars, pullVars>>

DataSpec == DataInit /\ [][DataNext]_<<part, xmlVars, sample, asked, bufferVars>>
=============================================================================
