----------------------------- MODULE GraphCodec -----------------------------
(***************************************************************************)
(* The JSON codec of graphs: dli::Graph::fromJson and toJson               *)
(* (src/graph.cc), and programs that read, edit and write graph files.     *)
(*                                                                         *)
(* A document is what its text says: a field is Missing, Wrong (of another *)
(* JSON type than asked for) or a value.  A number is a token, an integer  *)
(* or one with a point or exponent, because the codec tells attribute      *)
(* types apart by that alone.  A double is a decimal with Places digits    *)
(* behind the point, held as an integer, or inf or nan; those nearer to 0  *)
(* than MinNormal are the subnormal ones.  A text too large for a double   *)
(* is refused as a subnormal one is, and not told apart from it.           *)
(* model_type is left out: it is read like weights and always written.     *)
(***************************************************************************)
EXTENDS Integers, Sequences

CONSTANTS
  Strings,      \* names, operators, paths
  AttrNames,    \* attribute names
  AttrValues,   \* attributes that programs set
  Documents,    \* files that were not written by toJson()
  Places,       \* digits of a double behind its point
  Precision,    \* significant digits that a stream prints (6)
  MaxInt,       \* 2^63 - 1
  Exact,        \* 2^53: all integers up to there are doubles
  Spacings,     \* 1, 2, 4, ... 2^10: between the integers that are doubles
  MinNormal,    \* DBL_MIN: strtod reports all nearer to 0 as out of range
  V1,           \* "dli.graph.v1"
  NoString,     \* ""
  Missing, Wrong,
  NonFinite,    \* inf and nan
  Malformed,    \* a text that is no JSON object of the subset
  None

Doubles == Int \union {NonFinite}
Text == Strings \union {NoString}
ScalarTypes == {"int", "double", "bool", "string"}
ListTypes == {"ints", "doubles", "strings"}

(* An attribute has its variant's type; a scalar is a list of one item. *)
ItemsOf(type) ==
  CASE type \in {"int", "ints"}       -> 0 - MaxInt - 1 .. MaxInt
    [] type = "bool"                  -> {0, 1}
    [] type \in {"double", "doubles"} -> Doubles
    [] type \in {"string", "strings"} -> Text

Attributes ==
  {a \in [type : ScalarTypes \union ListTypes, items : Seq(Doubles \union Text)] :
     /\ \A k \in 1..Len(a.items) : a.items[k] \in ItemsOf(a.type)
     /\ a.type \in ScalarTypes => Len(a.items) = 1}

(* A node has None for an attribute that is not set. *)
Nodes ==
  [name : Strings, op_type : Strings, inputs : Seq(Strings), outputs : Seq(Strings),
   attributes : [AttrNames -> Attributes \union {None}]]

Graphs ==
  [format : {V1}, weights : Text, inputs : Seq(Strings), outputs : Seq(Strings), nodes : Seq(Nodes)]

(* A number that is too large for its type is still a token. *)
Tokens ==
  [kind : {"int"}, v : Int] \union [kind : {"number"}, v : Doubles]
    \union [kind : {"string"}, v : Text] \union [kind : {"bool"}, v : {0, 1}]
    \union [kind : {"null", "object"}, v : {0}]

(* A JSON value is an array of tokens or a single one. *)
JsonValues ==
  {j \in [array : BOOLEAN, tokens : Seq(Tokens)] : ~j.array => Len(j.tokens) = 1}

Field(S) == S \union {Missing, Wrong}

JsonAttrs == [AttrNames -> JsonValues \union {Missing}]

JsonNodes ==
  [name : Field(Strings), op : Field(Strings), op_type : Field(Strings),
   inputs : Field(Seq(Strings)), outputs : Field(Seq(Strings)), attrs : Field(JsonAttrs)]

JsonGraphs ==
  [format : Field(Strings \union {V1}), weights : Field(Text),
   inputs : Field(Seq(Strings)), outputs : Field(Seq(Strings)),
   nodes : Field(Seq(JsonNodes \union {Wrong}))]

Pow10[k \in Nat] == IF k = 0 THEN 1 ELSE 10 * Pow10[k - 1]

(* What a stream prints without point or exponent fits the integers, and   *)
(* is a double; subnormal doubles are below one; every integer is between  *)
(* two doubles.                                                            *)
ASSUME CodecAssumption ==
  /\ Places \in Nat /\ Precision \in Nat \ {0} /\ MaxInt \in Nat
  /\ MinNormal \in Nat /\ MinNormal <= Pow10[Places]
  /\ Pow10[Precision] <= MaxInt + 1
  /\ Exact \in Nat /\ Pow10[Precision] <= Exact
  /\ Spacings \subseteq Nat \ {0} /\ 1 \in Spacings
  /\ \A n \in 0..MaxInt + 1 : \E u \in Spacings : n <= Exact * u
  /\ AttrValues \subseteq Attributes
  /\ Documents \subseteq JsonGraphs \union {Malformed}

(* The marks are none of the values they stand beside. *)
ASSUME MarksAssumption ==
  /\ Missing # Wrong
  /\ \A mark \in {Missing, Wrong} :
       /\ mark \notin Text \union {V1} /\ mark \notin Seq(Strings)
       /\ mark \notin JsonAttrs /\ mark \notin Seq(JsonNodes \union {Wrong})
  /\ Missing \notin JsonValues /\ Wrong \notin JsonNodes
  /\ NonFinite \notin Int \union Text
  /\ None \notin Attributes /\ Malformed \notin JsonGraphs

VARIABLES
  graph,     \* the program's Graph
  document,  \* the file
  outcome,   \* of the last fromJson(): "ok" or what it has thrown
  origin,    \* of the graph: "edited", "parsed", or "reread" from toJson()'s file
  written    \* the graph and origin the file was written from, or None

vars == <<graph, document, outcome, origin, written>>

-----------------------------------------------------------------------------
(* Numbers *)

Abs(n) == IF n < 0 THEN 0 - n ELSE n
Scale == Pow10[Places]

(* The number of digits of a natural number. *)
DigitsOf(n) == CHOOSE k \in 0..n : Pow10[k] > n /\ \A j \in 0..(k - 1) : Pow10[j] <= n

(* To the nearest multiple of unit, ties to even. *)
Nearest(n, unit) ==
  LET q == n \div unit
      up == 2 * (n % unit) > unit \/ (2 * (n % unit) = unit /\ q % 2 = 1)
  IN  unit * (IF up THEN q + 1 ELSE q)

(* A stream prints the nearest number of Precision digits. *)
RoundUnit(n) == IF DigitsOf(n) > Precision THEN Pow10[DigitsOf(n) - Precision] ELSE 1
RoundMagnitude(n) == Nearest(n, RoundUnit(n))
Rounded(d) == IF d < 0 THEN 0 - RoundMagnitude(Abs(d)) ELSE RoundMagnitude(d)

(* An integer is converted to the nearest double. *)
Spacing(n) ==
  CHOOSE u \in Spacings : n <= Exact * u /\ \A w \in Spacings : n <= Exact * w => u <= w
DoubleOf(n) ==
  IF n < 0 THEN 0 - Nearest(Abs(n), Spacing(Abs(n))) ELSE Nearest(n, Spacing(n))

IntToken(n) == [kind |-> "int", v |-> n]
NumberToken(d) == [kind |-> "number", v |-> d]

(* Mutant: a double is printed through an integer. *)
DoubleTokenTruncates(d) ==
  IF d = NonFinite THEN NumberToken(d) ELSE IntToken(Rounded(d) \div Scale)

(* out << double: what is printed is whole and has no exponent only below  *)
(* 10^Precision; all other numbers show a point or an exponent.  The text  *)
(* of a normal double may be that of a subnormal one.                      *)
DoubleToken(d) ==
  IF d = NonFinite THEN NumberToken(d)
  ELSE LET r == Rounded(d) IN
       IF r % Scale = 0 /\ Abs(r) < Scale * Pow10[Precision]
       THEN IntToken(r \div Scale)
       ELSE NumberToken(r)

(* inf and nan do not start like a JSON value of the subset. *)
NotJson(token) == token.kind = "number" /\ token.v = NonFinite

IsSubnormal(d) == d # NonFinite /\ d # 0 /\ Abs(d) < MinNormal

(* stoll and stod throw what they throw. *)
OutOfRange(token) ==
  \/ token.kind = "int" /\ (token.v > MaxInt \/ token.v < 0 - MaxInt - 1)
  \/ token.kind = "number" /\ IsSubnormal(token.v)

-----------------------------------------------------------------------------
(* Attributes *)

AllOf(tokens, kinds) == \A i \in DOMAIN tokens : tokens[i].kind \in kinds
ValuesOf(tokens) == [i \in DOMAIN tokens |-> tokens[i].v]

(* Mutant: the two members of JsonValue are confused; the other one is 0. *)
AsDoublesSwapped(tokens) == [i \in DOMAIN tokens |-> 0]
AsDoubles(tokens) ==
  [i \in DOMAIN tokens |->
     IF tokens[i].kind = "int" THEN Scale * DoubleOf(tokens[i].v) ELSE tokens[i].v]

(* Mutant: a mixed list of integers and doubles is not accepted. *)
IsNumbersStrict(tokens) == AllOf(tokens, {"int"}) \/ AllOf(tokens, {"number"})
IsNumbers(tokens) == AllOf(tokens, {"int", "number"})

(* Mutant: a list is judged by its first item. *)
SupportedByFirst(json) ==
  IF json.array
  THEN json.tokens = << >> \/ json.tokens[1].kind \in {"string", "int", "number"}
  ELSE AllOf(json.tokens, {"bool", "int", "number", "string"})

Supported(json) ==
  IF json.array
  THEN AllOf(json.tokens, {"string"}) \/ IsNumbers(json.tokens)
  ELSE AllOf(json.tokens, {"bool", "int", "number", "string"})

(* toAttributeValue() of a supported value. *)
ScalarType(kind) == IF kind = "number" THEN "double" ELSE kind
AttributeOf(json) ==
  LET tokens == json.tokens
      is(type, items) == [type |-> type, items |-> items]
  IN  CASE ~json.array                  -> is(ScalarType(tokens[1].kind), ValuesOf(tokens))
        [] json.array /\ tokens = << >> -> is("ints", << >>)
        [] json.array /\ tokens # << >> ->
             CASE AllOf(tokens, {"string"}) -> is("strings", ValuesOf(tokens))
               [] AllOf(tokens, {"int"})    -> is("ints", ValuesOf(tokens))
               [] OTHER                     -> is("doubles", AsDoubles(tokens))

TokenKind(type) ==
  CASE type \in {"int", "ints"}       -> "int"
    [] type = "bool"                  -> "bool"
    [] type \in {"string", "strings"} -> "string"

(* appendAttributeValue() *)
JsonOf(attribute) ==
  [array  |-> attribute.type \in ListTypes,
   tokens |-> [i \in DOMAIN attribute.items |->
                 IF attribute.type \in {"double", "doubles"}
                 THEN DoubleToken(attribute.items[i])
                 ELSE [kind |-> TokenKind(attribute.type), v |-> attribute.items[i]]]]

-----------------------------------------------------------------------------
(* Graph::fromJson() *)

NoAttrs == [a \in AttrNames |-> Missing]
FieldOr(field, default) == IF field = Missing THEN default ELSE field
Given(field) == field \notin {Missing, Wrong}

(* "op" goes before "op_type"; a node may have no attributes. *)
AttrsOf(node) == FieldOr(node.attrs, NoAttrs)
NodeAccepted(node) ==
  /\ Given(node.name) /\ Given(node.inputs) /\ Given(node.outputs)
  /\ Given(FieldOr(node.op, node.op_type))
  /\ node.attrs # Wrong
  /\ \A a \in AttrNames : AttrsOf(node)[a] # Missing => Supported(AttrsOf(node)[a])

Accepted(doc) ==
  /\ FieldOr(doc.format, V1) = V1
  /\ Wrong \notin {doc.weights, doc.inputs, doc.outputs}
  /\ Given(doc.nodes)
  /\ \A i \in DOMAIN doc.nodes : doc.nodes[i] # Wrong /\ NodeAccepted(doc.nodes[i])

NodeOf(node) ==
  [name |-> node.name, op_type |-> FieldOr(node.op, node.op_type),
   inputs |-> node.inputs, outputs |-> node.outputs,
   attributes |-> [a \in AttrNames |->
     IF AttrsOf(node)[a] = Missing THEN None ELSE AttributeOf(AttrsOf(node)[a])]]

GraphOf(doc) ==
  [format |-> FieldOr(doc.format, V1), weights |-> FieldOr(doc.weights, NoString),
   inputs |-> FieldOr(doc.inputs, << >>), outputs |-> FieldOr(doc.outputs, << >>),
   nodes |-> [i \in DOMAIN doc.nodes |-> NodeOf(doc.nodes[i])]]

(* The tokens of a document, wherever they are. *)
TokensOf(doc) ==
  IF ~Given(doc.nodes) THEN {}
  ELSE LET nodes == {doc.nodes[i] : i \in DOMAIN doc.nodes} \ {Wrong}
           values == {AttrsOf(n)[a] : n \in {n \in nodes : n.attrs # Wrong}, a \in AttrNames}
                       \ {Missing}
       IN  UNION {{v.tokens[i] : i \in DOMAIN v.tokens} : v \in values}

(* What fromJson() may throw: the parser first, for the token it meets     *)
(* first, then the checks of the fields.                                   *)
ParserThrows(doc) ==
  IF doc = Malformed THEN {"invalid_argument"}
  ELSE {e \in {"invalid_argument", "out_of_range"} :
          \E t \in TokensOf(doc) : IF e = "out_of_range" THEN OutOfRange(t) ELSE NotJson(t)}

Throws(doc) ==
  IF ParserThrows(doc) # {} THEN ParserThrows(doc)
  ELSE IF Accepted(doc) THEN {} ELSE {"invalid_argument"}

-----------------------------------------------------------------------------
(* Graph::toJson() *)

JsonNode(node) ==
  [name |-> node.name, op |-> node.op_type, op_type |-> Missing,
   inputs |-> node.inputs, outputs |-> node.outputs,
   attrs |-> [a \in AttrNames |->
     IF node.attributes[a] = None THEN Missing ELSE JsonOf(node.attributes[a])]]

Json(g) ==
  [format |-> g.format,
   weights |-> IF g.weights = NoString THEN Missing ELSE g.weights,
   inputs |-> g.inputs, outputs |-> g.outputs,
   nodes |-> [i \in DOMAIN g.nodes |-> JsonNode(g.nodes[i])]]

-----------------------------------------------------------------------------
(* Programs *)

NewGraph ==
  [format |-> V1, weights |-> NoString, inputs |-> << >>, outputs |-> << >>, nodes |-> << >>]

(* A program starts and has a file that the exporter or somebody wrote. *)
Start ==
  /\ graph' = NewGraph
  /\ document' \in Documents
  /\ outcome' = "ok"
  /\ origin' = "edited"
  /\ written' = None

ReadOk ==
  /\ document # None
  /\ Throws(document) = {}
  /\ graph' = GraphOf(document)
  /\ outcome' = "ok"
  /\ origin' = IF written = None THEN "parsed" ELSE "reread"
  /\ UNCHANGED <<document, written>>

ReadThrows ==
  /\ document # None
  /\ outcome' \in Throws(document)
  /\ UNCHANGED <<graph, document, origin, written>>

(* Attributes::set() replaces.  Bound: one edit between two reads. *)
SetAttribute(i, name, value) ==
  /\ origin # "edited"
  /\ graph' = [graph EXCEPT !.nodes[i].attributes[name] = value]
  /\ origin' = "edited"
  /\ UNCHANGED <<document, outcome, written>>

Write ==
  /\ document' = Json(graph)
  /\ written' = [graph |-> graph, origin |-> origin]
  /\ UNCHANGED <<graph, outcome, origin>>

Init ==
  /\ graph = NewGraph
  /\ document = None
  /\ outcome = "ok"
  /\ origin = "edited"
  /\ written = None

Next ==
  \/ Start
  \/ ReadOk
  \/ ReadThrows
  \/ \E i \in DOMAIN graph.nodes, name \in AttrNames, value \in AttrValues :
       SetAttribute(i, name, value)
  \/ Write

Spec == Init /\ [][Next]_vars

-----------------------------------------------------------------------------
(* Properties *)

(* The graph a program holds is always well formed: an attribute has items *)
(* of its variant's type.                                                  *)
TypeOK ==
  /\ graph \in Graphs
  /\ outcome \in {"ok", "invalid_argument", "out_of_range"}
  /\ origin \in {"edited", "parsed", "reread"}

(* A double whose text the parser refuses: inf, nan, and those whose       *)
(* printed digits are a subnormal number, normal as the double may be.     *)
Unreadable(d) == d = NonFinite \/ IsSubnormal(Rounded(d))

HasUnreadable(g) ==
  \E i \in DOMAIN g.nodes : \E a \in AttrNames :
    LET attribute == g.nodes[i].attributes[a]
    IN  /\ attribute # None /\ attribute.type \in {"double", "doubles"}
        /\ \E k \in DOMAIN attribute.items : Unreadable(attribute.items[k])

(* toJson() is documented as "JSON that fromJson() accepts" (graph.h).     *)
(* That is so for all graphs but those with an unreadable double, which a  *)
(* program may set and even a file may hold: a double just above the least *)
(* normal one is read, and written with digits that are refused.  Only the *)
(* graph that was read from a file of toJson() can always be written and   *)
(* read again, for rounding its doubles once more changes nothing.         *)
WritesAreAccepted ==
  [][(ReadOk \/ ReadThrows) /\ written # None =>
       /\ outcome' = "ok" <=> ~HasUnreadable(written.graph)
       /\ written.origin = "reread" => outcome' = "ok"]_vars

(* What may become of an attribute on the way through a file: doubles are  *)
(* rounded to the digits printed, and become integers when these show      *)
(* neither point nor exponent; an empty list becomes one of integers;      *)
(* nothing else changes.                                                   *)
Close(d, e) == 2 * Abs(e - d) <= RoundUnit(Abs(d))
SameAttribute(a, b) ==
  \/ a = b
  \/ a.type \in ListTypes /\ a.items = << >> /\ b = [type |-> "ints", items |-> << >>]
  \/ /\ <<a.type, b.type>> \in {"double"} \X {"double", "int"}
                               \union {"doubles"} \X {"doubles", "ints"}
     /\ Len(a.items) = Len(b.items)
     /\ \A k \in DOMAIN a.items :
          Close(a.items[k], IF b.type \in {"int", "ints"} THEN Scale * b.items[k] ELSE b.items[k])

SameNode(n, m) ==
  /\ [n EXCEPT !.attributes = NoAttrs] = [m EXCEPT !.attributes = NoAttrs]
  /\ \A a \in AttrNames :
       /\ n.attributes[a] = None <=> m.attributes[a] = None
       /\ n.attributes[a] # None => SameAttribute(n.attributes[a], m.attributes[a])

(* A graph that is read back is the graph that was written, up to that.    *)
OnlyDoublesDrift ==
  [][ReadOk /\ written # None =>
       /\ [graph' EXCEPT !.nodes = << >>] = [written.graph EXCEPT !.nodes = << >>]
       /\ Len(graph'.nodes) = Len(written.graph.nodes)
       /\ \A i \in DOMAIN graph'.nodes : SameNode(written.graph.nodes[i], graph'.nodes[i])]_vars

(* And the drift ends there: another round trip changes nothing at all.    *)
SecondTripIsExact ==
  [][ReadOk /\ written # None /\ written.origin = "reread" => graph' = written.graph]_vars
=============================================================================
