----------------------------- MODULE XPathParser -----------------------------
(***************************************************************************)
(* How pugixml reads an XPath query (src/pugixml/pugixml.cpp): the lexer,  *)
(* which divides its characters into lexemes, and the parser by recursive  *)
(* descent, with the limit on its depth, against the grammar in the        *)
(* comments of the parser.                                                 *)
(*                                                                         *)
(* The parser's input is a sequence of lexemes: a symbol is itself, "'"    *)
(* any literal, "1" any number and everything else a name. Its result is a *)
(* tree [op, text, kids]; a step's first kid is the set it starts from.    *)
(* There are no variables: a query is given none.                          *)
(***************************************************************************)
EXTENDS Integers, Sequences, FiniteSets

CONSTANTS DepthLimit,            (* xpath_ast_depth_limit                    *)
          QueryTexts,            (* sequences of characters                  *)
          QueryLexemes           (* sequences of lexemes                     *)

VARIABLE asked                   (* rigid: <<"text", t>> or <<"lexemes", s>> *)

LOCAL At(s, k) == IF k <= Len(s) THEN s[k] ELSE "eof"
LOCAL Part(s, j, k) == SubSeq(s, j, k)
LOCAL Digit == {"0", "1"}        (* ctx_digit; two of each stand for all     *)
LOCAL Start == {"a", "_"}        (* ctx_start_symbol                         *)
LOCAL Symbol == Start \cup Digit \cup {"-", "."}
LOCAL Single == {">", "<", "=", "+", "-", "*", "|", "(", ")", "[", "]", ",", "/", ".", "@"}
LOCAL Double == {">=", "<=", "!=", "//", "..", "::"}
-----------------------------------------------------------------------------
(* The lexer                                                                *)
RECURSIVE Skip(_, _, _)
Skip(s, k, chars) == IF At(s, k) \in chars THEN Skip(s, k + 1, chars) ELSE k

Lexeme(kind, s, first, to, next) == [kind |-> kind, text |-> Part(s, first, to - 1), next |-> next]
None(s, k) == Lexeme("none", s, k, k, k)

(* The end of a name, with its prefix if a symbol follows the colon         *)
QualifiedEnd(s, k) ==
  LET end == Skip(s, k, Symbol)
  IN  IF At(s, end) = ":" /\ At(s, end + 1) \in Symbol THEN Skip(s, end + 1, Symbol) ELSE end

NameLexeme(s, k) ==
  LET end == Skip(s, k, Symbol)
      to == IF At(s, end) = ":" /\ At(s, end + 1) = "*" THEN end + 2 ELSE QualifiedEnd(s, k)
  IN  Lexeme("name", s, k, to, to)

VariableLexeme(s, k) ==
  IF At(s, k + 1) \in Start THEN Lexeme("variable", s, k + 1, QualifiedEnd(s, k + 1), QualifiedEnd(s, k + 1))
  ELSE None(s, k)

NumberLexeme(s, k) ==
  LET integral == Skip(s, k, Digit)
      to == IF At(s, integral) = "." THEN Skip(s, integral + 1, Digit) ELSE integral
  IN  Lexeme("number", s, k, to, to)

LiteralLexeme(s, k) ==
  LET to == Skip(s, k + 1, {s[j] : j \in DOMAIN s} \ {s[k]})
  IN  IF to > Len(s) THEN None(s, k) ELSE Lexeme("literal", s, k + 1, to, to + 1)

NextLexeme(s, at) ==
  LET k == Skip(s, at, {" "})
      c == At(s, k)
      d == At(s, k + 1)
      number == c \in Digit \/ (c = "." /\ d \in Digit)
  IN  CASE c = "eof" -> Lexeme("eof", s, k, k, k)
        [] c \o d \in Double -> Lexeme(c \o d, s, k, k + 2, k + 2)
        [] c \o d \notin Double /\ c \in Single /\ ~number -> Lexeme(c, s, k, k + 1, k + 1)
        [] number -> NumberLexeme(s, k)
        [] c = "$" -> VariableLexeme(s, k)
        [] c \in {"'", "\""} -> LiteralLexeme(s, k)
        [] c \in Start -> NameLexeme(s, k)
        [] OTHER -> None(s, k)
-----------------------------------------------------------------------------
(* Trees and names                                                          *)
TreeNode(op, text, kids) == [op |-> op, text |-> text, kids |-> kids]
RootNode == TreeNode("root", <<>>, <<>>)
ContextNode == TreeNode("context", <<>>, <<>>)
StepNode(set, axis, test, name) == TreeNode("step", <<axis, test, name>>, <<set>>)
Abbreviated(t, set) == StepNode(set, IF t = "." THEN "self" ELSE "parent", "node", "")
Deep(set) == StepNode(set, "descendant-or-self", "node", "")
IsNodeSet(tree) ==
  \/ tree.op \in {"root", "context", "step", "filter", "|"}
  \/ tree.op = "call" /\ tree.text = <<"id">>

IsNameLexeme(t) == t \notin Single \cup Double \cup {"eof", "none", "'", "1"}

Axes == {"ancestor", "ancestor-or-self", "attribute", "child", "descendant", "descendant-or-self",
         "following", "following-sibling", "namespace", "parent", "preceding", "preceding-sibling", "self"}
NodeTypes == {"comment", "node", "processing-instruction", "text"}
NamespaceTests == {"a:*"}        (* names that end in a colon and an asterisk *)

(* The functions with their numbers of arguments                            *)
ArgumentCounts(name) ==
  CASE name \in {"false", "last", "position", "true"} -> {0}
    [] name \in {"local-name", "name", "namespace-uri", "normalize-space", "number", "string",
                 "string-length"} -> {0, 1}
    [] name \in {"boolean", "count", "ceiling", "floor", "id", "lang", "not", "round", "sum"} -> {1}
    [] name \in {"contains", "starts-with", "substring-before", "substring-after"} -> {2}
    [] name = "concat" -> Nat \ {0, 1}
    [] name = "substring" -> {2, 3}
    [] name = "translate" -> {3}
    [] OTHER -> {}
ParseFunction(name, args) ==
  IF /\ Len(args) \in ArgumentCounts(name)
     /\ name \in {"count", "sum", "name", "local-name", "namespace-uri"} =>
          \A k \in DOMAIN args : IsNodeSet(args[k])
  THEN {TreeNode("call", <<name>>, args)} ELSE {}

Precedence(t) ==
  CASE t = "or" -> 1 [] t = "and" -> 2 [] t \in {"=", "!="} -> 3 [] t \in {"<", ">", "<=", ">="} -> 4
    [] t \in {"+", "-"} -> 5 [] t \in {"*", "div", "mod"} -> 6 [] t = "|" -> 7 [] OTHER -> 0

StartsStep(t) == IsNameLexeme(t) \/ t \in {"@", ".", "..", "*"}
-----------------------------------------------------------------------------
(* The parser. Each function starts at a lexeme with the depth it finds and *)
(* returns the tree, the lexeme after it and the depth it leaves, which is  *)
(* what its caller goes on with; at 0 it has failed                         *)
RECURSIVE Arguments(_, _, _, _), MoreFilters(_, _, _, _), MorePredicates(_, _, _, _),
          MoreSteps(_, _, _, _), ParsePathOrUnary(_, _, _), Tighter(_, _, _, _, _),
          ParseExpressionRec(_, _, _, _, _), ParseExpression(_, _, _, _)

Done(at, depth, tree) == [at |-> at, depth |-> depth, tree |-> tree]
Failed == Done(0, 0, ContextNode)
Then(result, Continue(_)) == IF result.at = 0 THEN Failed ELSE Continue(result)

(* mutant: the depth is not put back                                        *)
RestoreDepthForgotten(result, depth) == result
RestoreDepth(result, depth) == IF result.at = 0 THEN Failed ELSE [result EXCEPT !.depth = depth]
Expect(s, t, result) == IF At(s, result.at) = t THEN [result EXCEPT !.at = @ + 1] ELSE Failed

Arguments(s, at, depth, args) ==
  LET first == IF args = <<>> THEN at ELSE at + 1
  IN  CASE At(s, at) = ")" -> Done(at + 1, depth, TreeNode("arguments", <<>>, args))
        [] At(s, at) # ")" /\ ((args # <<>> /\ At(s, at) # ",") \/ depth = DepthLimit) -> Failed
        [] OTHER -> Then(ParseExpression(s, first, depth + 1, 0),
                         LAMBDA r : Arguments(s, r.at, r.depth, Append(args, r.tree)))

ParsePrimary(s, at, depth) ==
  CASE At(s, at) = "(" -> Then(ParseExpression(s, at + 1, depth, 0), LAMBDA r : Expect(s, ")", r))
    [] At(s, at) \in {"'", "1"} -> Done(at + 1, depth, TreeNode(At(s, at), <<>>, <<>>))
    [] IsNameLexeme(At(s, at)) /\ At(s, at + 1) = "(" ->
         Then(RestoreDepth(Arguments(s, at + 2, depth, <<>>), depth),
              LAMBDA r : IF ParseFunction(At(s, at), r.tree.kids) = {} THEN Failed
                         ELSE Done(r.at, r.depth, CHOOSE f \in ParseFunction(At(s, at), r.tree.kids) : TRUE))
    [] OTHER -> Failed

MoreFilters(s, at, depth, tree) ==
  CASE At(s, at) # "[" -> Done(at, depth, tree)
    [] At(s, at) = "[" /\ (depth = DepthLimit \/ ~IsNodeSet(tree)) -> Failed
    [] OTHER -> Then(Then(ParseExpression(s, at + 1, depth + 1, 0), LAMBDA r : Expect(s, "]", r)),
                     LAMBDA r : MoreFilters(s, r.at, r.depth, TreeNode("filter", <<>>, <<tree, r.tree>>)))
ParseFilter(s, at, depth) ==
  Then(ParsePrimary(s, at, depth), LAMBDA r : RestoreDepth(MoreFilters(s, r.at, r.depth, r.tree), r.depth))

MorePredicates(s, at, depth, step) ==
  CASE At(s, at) # "[" -> Done(at, depth, step)
    [] At(s, at) = "[" /\ depth = DepthLimit -> Failed
    [] OTHER -> Then(Then(ParseExpression(s, at + 1, depth + 1, 0), LAMBDA r : Expect(s, "]", r)),
                     LAMBDA r : MorePredicates(s, r.at, r.depth, [step EXCEPT !.kids = Append(@, r.tree)]))

NodeTest(s, at, depth, set, axis) ==
  LET t == At(s, at)
      With(next, test, name) ==
        RestoreDepth(MorePredicates(s, next, depth, StepNode(set, axis, test, name)), depth)
  IN  CASE t = "*" -> With(at + 1, "all", "")
        [] IsNameLexeme(t) /\ At(s, at + 1) # "(" ->
             With(at + 1, IF t \in NamespaceTests THEN "namespace" ELSE "name", t)
        [] t \in NodeTypes /\ At(s, at + 1) = "(" /\ At(s, at + 2) = ")" -> With(at + 3, t, "")
        [] t = "processing-instruction" /\ At(s, at + 1) = "(" /\ At(s, at + 2) = "'" /\ At(s, at + 3) = ")" ->
             With(at + 4, "pi", "'")
        [] OTHER -> Failed

ParseStep(s, at, depth, set) ==
  LET t == At(s, at)
      named == IsNameLexeme(t) /\ At(s, at + 1) = "::"
  IN  CASE ~IsNodeSet(set) -> Failed
        [] IsNodeSet(set) /\ t \in {".", ".."} ->
             IF At(s, at + 1) = "[" THEN Failed ELSE Done(at + 1, depth, Abbreviated(t, set))
        [] IsNodeSet(set) /\ t = "@" ->
             IF At(s, at + 2) = "::" THEN Failed ELSE NodeTest(s, at + 1, depth, set, "attribute")
        [] IsNodeSet(set) /\ named -> IF t \in Axes THEN NodeTest(s, at + 2, depth, set, t) ELSE Failed
        [] OTHER -> NodeTest(s, at, depth, set, "child")

MoreSteps(s, at, depth, tree) ==
  LET deep == At(s, at) = "//"
      deeper == depth + (IF deep THEN 2 ELSE 1)
  IN  CASE At(s, at) \notin {"/", "//"} -> Done(at, depth, tree)
        [] At(s, at) \in {"/", "//"} /\ deeper > DepthLimit -> Failed
        [] OTHER -> Then(ParseStep(s, at + 1, deeper, IF deep THEN Deep(tree) ELSE tree),
                         LAMBDA r : MoreSteps(s, r.at, r.depth, r.tree))
ParseRelativePath(s, at, depth, set) ==
  Then(ParseStep(s, at, depth, set), LAMBDA r : RestoreDepth(MoreSteps(s, r.at, r.depth, r.tree), r.depth))

ParseLocationPath(s, at, depth) ==
  CASE At(s, at) = "/" /\ StartsStep(At(s, at + 1)) -> ParseRelativePath(s, at + 1, depth, RootNode)
    [] At(s, at) = "/" /\ ~StartsStep(At(s, at + 1)) -> Done(at + 1, depth, RootNode)
    [] At(s, at) = "//" -> ParseRelativePath(s, at + 1, depth, Deep(RootNode))
    [] OTHER -> ParseRelativePath(s, at, depth, ContextNode)

IsPrimary(s, at) ==
  \/ At(s, at) \in {"(", "'", "1"}
  \/ IsNameLexeme(At(s, at)) /\ At(s, at + 1) = "(" /\ At(s, at) \notin NodeTypes

(* A minus sign takes what binds closer than any other operator             *)
ParsePathOrUnary(s, at, depth) ==
  CASE At(s, at) = "-" ->
         Then(ParseExpression(s, at + 1, depth, 7),
              LAMBDA r : Done(r.at, r.depth, TreeNode("negate", <<>>, <<r.tree>>)))
    [] IsPrimary(s, at) ->
         Then(ParseFilter(s, at, depth),
              LAMBDA r : CASE At(s, r.at) \notin {"/", "//"} -> r
                           [] At(s, r.at) = "/" -> ParseRelativePath(s, r.at + 1, r.depth, r.tree)
                           [] At(s, r.at) = "//" /\ ~IsNodeSet(r.tree) -> Failed
                           [] OTHER -> ParseRelativePath(s, r.at + 1, r.depth, Deep(r.tree)))
    [] OTHER -> ParseLocationPath(s, at, depth)

(* mutant: an operator of the same precedence is taken into the right side  *)
TighterOrSame(s, at, depth, rhs, precedence) ==
  LET next == Precedence(At(s, at))
  IN  IF next = 0 \/ next < precedence THEN Done(at, depth, rhs)
      ELSE Then(ParseExpressionRec(s, at, depth, rhs, next),
                LAMBDA r : Tighter(s, r.at, r.depth, r.tree, precedence))

(* The right side goes on for as long as operators bind tighter             *)
Tighter(s, at, depth, rhs, precedence) ==
  LET next == Precedence(At(s, at))
  IN  IF next <= precedence THEN Done(at, depth, rhs)
      ELSE Then(ParseExpressionRec(s, at, depth, rhs, next),
                LAMBDA r : Tighter(s, r.at, r.depth, r.tree, precedence))

ParseExpressionRec(s, at, depth, lhs, limit) ==
  LET op == At(s, at)
      Joined(r) ==
        IF op = "|" /\ ~(IsNodeSet(lhs) /\ IsNodeSet(r.tree)) THEN Failed
        ELSE ParseExpressionRec(s, r.at, r.depth, TreeNode(op, <<>>, <<lhs, r.tree>>), limit)
  IN  CASE Precedence(op) = 0 \/ Precedence(op) < limit -> Done(at, depth, lhs)
        [] Precedence(op) # 0 /\ Precedence(op) >= limit /\ depth = DepthLimit -> Failed
        [] OTHER -> Then(Then(ParsePathOrUnary(s, at + 1, depth + 1),
                              LAMBDA r : Tighter(s, r.at, r.depth, r.tree, Precedence(op))), Joined)

ParseExpression(s, at, depth, limit) ==
  IF depth = DepthLimit THEN Failed
  ELSE RestoreDepth(Then(ParsePathOrUnary(s, at, depth + 1),
                         LAMBDA r : ParseExpressionRec(s, r.at, r.depth, r.tree, limit)), depth)

ParseQuery(s) == Then(ParseExpression(s, 1, 0, 0), LAMBDA r : Expect(s, "eof", r))
-----------------------------------------------------------------------------
QueryInit ==
  \/ \E t \in QueryTexts : asked = <<"text", t>>
  \/ \E s \in QueryLexemes : asked = <<"lexemes", s>>
ParserSpec == QueryInit /\ [][UNCHANGED asked]_asked
-----------------------------------------------------------------------------
(* What a lexeme is, as a text                                              *)
LOCAL Sign(t) == CASE Len(t) = 1 -> t[1] [] Len(t) = 2 -> t[1] \o t[2] [] OTHER -> "none"
LOCAL All(t, chars) == \A k \in DOMAIN t : t[k] \in chars
LOCAL IsPlain(t) == t # <<>> /\ t[1] \in Start /\ All(t, Symbol)
LOCAL IsQualified(t) ==
  \/ IsPlain(t)
  \/ \E k \in 2..Len(t) - 1 : IsPlain(Part(t, 1, k - 1)) /\ t[k] = ":" /\ All(Part(t, k + 1, Len(t)), Symbol)
LOCAL IsAnyOf(t) ==
  Len(t) > 2 /\ t[Len(t) - 1] = ":" /\ t[Len(t)] = "*" /\ IsPlain(Part(t, 1, Len(t) - 2))
LOCAL IsLexeme(kind, t) ==
  CASE kind = "name" -> IsQualified(t) \/ IsAnyOf(t)
    [] kind = "variable" -> t[1] = "$" /\ IsQualified(Tail(t))
    [] kind = "number" ->
         t # <<".">> /\ All(t, Digit \cup {"."}) /\ Cardinality({k \in DOMAIN t : t[k] = "."}) <= 1
    [] kind = "literal" -> Len(t) > 1 /\ t[1] \in {"'", "\""} /\ {k \in DOMAIN t : t[k] = t[1]} = {1, Len(t)}
    [] OTHER -> kind = Sign(t)

(* The next lexeme is the longest text that is one                          *)
LongestIsTaken(s, at) ==
  LET k == Skip(s, at, {" "})
      lexeme == NextLexeme(s, at)
      Is(j, kind) == IsLexeme(kind, Part(s, k, j))
      kinds == {"name", "variable", "number", "literal"} \cup Single \cup Double
      cut == CASE lexeme.kind = "variable" -> <<1, 0>>
               [] lexeme.kind = "literal" -> <<1, 1>>
               [] OTHER -> <<0, 0>>
  IN  CASE k > Len(s) -> lexeme.kind = "eof"
        [] k <= Len(s) /\ lexeme.kind = "none" -> \A j \in k..Len(s), kind \in kinds : ~Is(j, kind)
        [] OTHER -> /\ Is(lexeme.next - 1, lexeme.kind)
                    /\ lexeme.text = Part(s, k + cut[1], lexeme.next - 1 - cut[2])
                    /\ \A j \in lexeme.next..Len(s), kind \in kinds : ~Is(j, kind)
-----------------------------------------------------------------------------
(* The grammar: all the trees a sequence of lexemes can be read as, by the  *)
(* productions in the comments of the parser. A name and an asterisk after  *)
(* a slash belong to the path, as in the XPath recommendation               *)
RECURSIVE Exprs(_, _), ArgumentLists(_), FilterExprs(_), StepTrees(_, _), RelativePaths(_, _),
          UnionExprs(_), UnaryExprs(_)

LOCAL Splits(t, signs) == {k \in DOMAIN t : t[k] \in signs}
LOCAL Before(t, k) == Part(t, 1, k - 1)
LOCAL After(t, k) == Part(t, k + 1, Len(t))
LOCAL Inside(t, k) == Part(t, k + 1, Len(t) - 1)
LOCAL NodeSets(trees) == {tree \in trees : IsNodeSet(tree)}
LOCAL LastIs(t, sign) == t # <<>> /\ t[Len(t)] = sign

ArgumentLists(t) ==
  {<<e>> : e \in Exprs(t, 1)}
  \cup UNION {{Append(l, e) : l \in ArgumentLists(Before(t, k)), e \in Exprs(After(t, k), 1)}
                : k \in Splits(t, {","})}

PrimaryExprs(t) ==
  IF t \in {<<"'">>, <<"1">>} THEN {TreeNode(t[1], <<>>, <<>>)}
  ELSE IF ~LastIs(t, ")") THEN {}
  ELSE IF t[1] = "(" THEN Exprs(Inside(t, 1), 1)
  ELSE IF ~(IsNameLexeme(t[1]) /\ t[1] \notin NodeTypes /\ At(t, 2) = "(") THEN {}
  ELSE UNION {ParseFunction(t[1], l) : l \in IF Len(t) = 3 THEN {<<>>} ELSE ArgumentLists(Inside(t, 2))}

FilterExprs(t) ==
  PrimaryExprs(t)
  \cup (IF ~LastIs(t, "]") THEN {}
        ELSE UNION {{TreeNode("filter", <<>>, <<f, p>>) :
                       f \in NodeSets(FilterExprs(Before(t, k))), p \in Exprs(Inside(t, k), 1)}
                      : k \in Splits(t, {"["})})

NodeTests(t) ==
  CASE t = <<"*">> -> {<<"all", "">>}
    [] Len(t) = 1 /\ IsNameLexeme(t[1]) -> {<<IF t[1] \in NamespaceTests THEN "namespace" ELSE "name", t[1]>>}
    [] Len(t) = 3 /\ t[1] \in NodeTypes /\ After(t, 1) = <<"(", ")">> -> {<<t[1], "">>}
    [] t = <<"processing-instruction", "(", "'", ")">> -> {<<"pi", "'">>}
    [] OTHER -> {}

StepTrees(t, set) ==
  (IF t = <<>> \/ ~IsNodeSet(set) THEN {}
   ELSE IF t[1] = "@" THEN {StepNode(set, "attribute", n[1], n[2]) : n \in NodeTests(Tail(t))}
   ELSE IF t[1] \in Axes /\ At(t, 2) = "::"
   THEN {StepNode(set, t[1], n[1], n[2]) : n \in NodeTests(After(t, 2))}
   ELSE {StepNode(set, "child", n[1], n[2]) : n \in NodeTests(t)})
  \cup (IF ~LastIs(t, "]") THEN {}
        ELSE UNION {{[step EXCEPT !.kids = Append(@, p)] :
                       step \in StepTrees(Before(t, k), set), p \in Exprs(Inside(t, k), 1)}
                      : k \in Splits(t, {"["})})
AbbreviatedSteps(t, set) ==
  IF t \notin {<<".">>, <<"..">>} \/ ~IsNodeSet(set) THEN {} ELSE {Abbreviated(t[1], set)}

AllSteps(t, set) == StepTrees(t, set) \cup AbbreviatedSteps(t, set)

Onto(set, slash) == IF slash = "//" THEN Deep(set) ELSE set
RelativePaths(t, set) ==
  AllSteps(t, set)
  \cup UNION {UNION {RelativePaths(After(t, k), Onto(first, t[k])) : first \in AllSteps(Before(t, k), set)}
                : k \in Splits(t, {"/", "//"})}

LocationPaths(t) ==
  CASE t = <<"/">> -> {RootNode}
    [] Len(t) > 1 /\ t[1] = "/" -> RelativePaths(Tail(t), RootNode)
    [] Len(t) > 1 /\ t[1] = "//" -> RelativePaths(Tail(t), Deep(RootNode))
    [] OTHER -> RelativePaths(t, ContextNode)

PathExprs(t) ==
  LocationPaths(t) \cup FilterExprs(t)
  \cup UNION {UNION {RelativePaths(After(t, k), Onto(f, t[k])) : f \in NodeSets(FilterExprs(Before(t, k)))}
                : k \in Splits(t, {"/", "//"})}

LOCAL Operators(t, signs) == {k \in Splits(t, signs) : k > 1 /\ ~(t[k - 1] = "/" /\ StartsStep(t[k]))}

UnionExprs(t) ==
  PathExprs(t)
  \cup UNION {{TreeNode("|", <<>>, <<l, r>>) :
                 l \in NodeSets(UnionExprs(Before(t, k))), r \in NodeSets(PathExprs(After(t, k)))}
                : k \in Operators(t, {"|"})}
UnaryExprs(t) ==
  UnionExprs(t)
  \cup (IF At(t, 1) = "-" THEN {TreeNode("negate", <<>>, <<e>>) : e \in UnaryExprs(Tail(t))} ELSE {})

LOCAL Signs == <<{"or"}, {"and"}, {"=", "!="}, {"<", ">", "<=", ">="}, {"+", "-"}, {"*", "div", "mod"}>>
Exprs(t, level) ==
  IF t = <<>> THEN {}
  ELSE IF level > 6 THEN UnaryExprs(t)
  ELSE Exprs(t, level + 1)
       \cup UNION {{TreeNode(t[k], <<>>, <<l, r>>) :
                      l \in Exprs(Before(t, k), level), r \in Exprs(After(t, k), level + 1)}
                     : k \in Operators(t, Signs[level])}

-----------------------------------------------------------------------------
(* How deep a query is: what is open at one of its lexemes. A group or a    *)
(* call is open until its bracket is closed, and a predicate counts until   *)
(* its step ends; a slash counts until the path ends, an operator or a      *)
(* minus sign until the argument or the brackets around it end              *)
LOCAL Nesting(s) ==
  LET Count(k, signs) == Cardinality({j \in 1..k : s[j] \in signs})
  IN  [k \in DOMAIN s |-> Count(k, {"(", "["}) - Count(k, {")", "]"})]

RECURSIVE IsOperator(_, _)
LOCAL IsOperator(s, k) ==
  /\ k > 1 /\ Precedence(s[k]) # 0
  /\ s[k - 1] \notin {"(", "[", ",", "//", "@", "::"} /\ ~(s[k - 1] = "/" /\ StartsStep(s[k]))
  /\ ~IsOperator(s, k - 1)

LOCAL Cost(s, k) ==
  CASE s[k] = "[" \/ s[k] = "//" -> 2
    [] s[k] = "(" -> IF k > 1 /\ IsNameLexeme(s[k - 1]) THEN 2 ELSE 1
    [] s[k] \in {"]", "/", ","} \/ Precedence(s[k]) # 0 -> 1
    [] OTHER -> 0

LOCAL OpenAt(s, k, j) ==
  LET nesting == Nesting(s)
      ends == {m \in k + 1..j : nesting[m] = nesting[k]}
  IN  /\ \A m \in k + 1..j : nesting[m] >= nesting[k]
      /\ s[k] \notin {"(", "[", ","} => \A m \in ends : s[m] # ","
      /\ s[k] \in {"/", "//", "]"} => \A m \in ends : ~IsOperator(s, m)
      /\ s[k] = "]" => \A m \in ends : s[m] \notin {"/", "//"}

RECURSIVE Depth(_, _, _)
LOCAL Depth(s, k, j) ==
  IF k = 0 THEN 1 ELSE Depth(s, k - 1, j) + (IF OpenAt(s, k, j) THEN Cost(s, k) ELSE 0)

(* A query is read as the one tree the grammar gives it, with the depth     *)
(* back at 0, as the assertion in parse() has it; it is refused only if it  *)
(* gives none or is too deep somewhere, however much came before that and   *)
(* is closed; one whose brackets are nested to the limit always is refused  *)
ReadAsTheGrammarSays(s) ==
  LET Agree(trees, result) ==
        /\ Cardinality(trees) <= 1
        /\ result.at # 0 => result.tree \in trees /\ result.depth = 0
        /\ result.at = 0 => trees = {} \/ \E j \in DOMAIN s : Depth(s, j, j) > DepthLimit
        /\ result.at # 0 => \A j \in DOMAIN s : Nesting(s)[j] < DepthLimit
  IN  Agree(Exprs(s, 1), ParseQuery(s))

(* The lexer takes the longest lexeme wherever it starts, and the parser    *)
(* accepts what the grammar in its comments does, as the tree it gives      *)
QueriesAreUnderstood ==
  CASE asked[1] = "text" -> \A k \in 1..Len(asked[2]) : LongestIsTaken(asked[2], k)
    [] asked[1] = "lexemes" -> ReadAsTheGrammarSays(asked[2])
=============================================================================
