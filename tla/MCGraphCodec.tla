---------------------------- MODULE MCGraphCodec ----------------------------
(* TLC instance of GraphCodec: three digits behind the point, streams that *)
(* print two significant digits, 9-bit integers of which doubles hold 7    *)
(* bits, and 0.222 as the least normal double, so that every side of every *)
(* limit is near.                                                          *)
EXTENDS GraphCodec

CONSTANTS x, y, relu

I(n) == IntToken(n)
D(n) == NumberToken(n)
S(n) == [kind |-> "string", v |-> n]
Other(kind) == [kind |-> kind, v |-> 0]
One(t) == [array |-> FALSE, tokens |-> <<t>>]
List(ts) == [array |-> TRUE, tokens |-> ts]

(* 2.0, 15.5, 99.5, 123.4, -2.5; a normal double that is printed as a      *)
(* subnormal one, and one that is not; a subnormal one.                    *)
MCDoubles == {D(2000), D(15500), D(99500), D(123400), D(-2500), D(-223), D(226), D(221)}
MCJson ==
  {One(t) : t \in MCDoubles \union {I(7), I(-256), I(256), S(x), D(NonFinite),
                                    Other("bool"), Other("null"), Other("object")}}
  \union {List(<< >>), List(<<I(1), D(2500)>>), List(<<I(255), D(500)>>), List(<<I(-129), D(223)>>),
          List(<<D(1000), D(2000)>>), List(<<I(1), I(2)>>), List(<<S(x), S(y)>>),
          List(<<S(x), I(1)>>), List(<<Other("bool")>>)}

GoodNode == [name |-> x, op |-> relu, op_type |-> Missing, inputs |-> <<x>>, outputs |-> <<y>>,
             attrs |-> Missing]
Good == [format |-> V1, weights |-> x, inputs |-> <<x>>, outputs |-> <<y>>, nodes |-> <<GoodNode>>]
WithNode(n) == [Good EXCEPT !.nodes = <<n>>]

MCDocuments ==
  {Malformed}
  \union {WithNode([GoodNode EXCEPT !.attrs = [k \in AttrNames |-> j]]) : j \in MCJson}
  \union {WithNode([GoodNode EXCEPT !.op = f, !.op_type = g]) :
            f \in {Missing, Wrong, relu}, g \in {Missing, Wrong, y}}
  \union {[Good EXCEPT !.format = f] : f \in {Missing, Wrong, x}}
  \union {[Good EXCEPT !.weights = f] : f \in {Missing, Wrong, NoString}}
  \union {[Good EXCEPT !.inputs = f, !.outputs = g] : f \in {Missing, Wrong}, g \in {Missing, <<y>>}}
  \union {[Good EXCEPT !.nodes = f] : f \in {Missing, Wrong, <<Wrong>>, << >>, <<GoodNode, Wrong>>}}
  \union {WithNode([GoodNode EXCEPT !.inputs = f]) : f \in {Missing, Wrong}}
  \union {WithNode([GoodNode EXCEPT !.attrs = f]) : f \in {Missing, Wrong, NoAttrs}}

A(type, items) == [type |-> type, items |-> items]
MCAttrValues ==
  {A("double", <<d>>) : d \in {2000, 15500, 16500, 99400, 99500, 123400, 2500, -99500, NonFinite,
                               221, 223, -226}}
  \union {A("doubles", ds) : ds \in {<< >>, <<1000, 2500>>, <<1000, 2000>>, <<99500, 2000>>}}
  \union {A("strings", << >>), A("strings", <<x>>), A("ints", <<1, 2>>), A("bool", <<1>>),
          A("int", <<255>>), A("string", <<NoString>>)}
=============================================================================
