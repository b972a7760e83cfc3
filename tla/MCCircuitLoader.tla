-------------------------- MODULE MCCircuitLoader ---------------------------
(* CircuitLoader on families of small netlists.                             *)
EXTENDS CircuitLoader

MCSignal == ConstSignal \cup {"a", "clk", "x", "y", "q", "r"}
MCName   == {"in", "out", "n"}

Buf(a, y)       == [type |-> <<"BUF">>, conn |-> [A |-> a, Y |-> y]]
And(a, b, y)    == [type |-> <<"AND">>, conn |-> [A |-> a, B |-> b, Y |-> y]]
Mux(a, b, s, y) == [type |-> <<"MUX">>, conn |-> [A |-> a, B |-> b, S |-> s, Y |-> y]]
Dff(c, d, q, edge) == [type |-> <<"DFF", edge>>, conn |-> [C |-> c, D |-> d, Q |-> q]]
Sdff(c, d, q, r)   == [type |-> <<"SDFF", "P", "N", "0">>,
                       conn |-> [C |-> c, D |-> d, Q |-> q, R |-> r]]
Dffe(c, d, q, e)   == [type |-> <<"DFFE", "P", "P">>,
                       conn |-> [C |-> c, D |-> d, Q |-> q, E |-> e]]
Dffre(c, d, q, e, r) == [type |-> <<"DFFE", "P", "N", "1", "P">>,
                         conn |-> [C |-> c, D |-> d, Q |-> q, E |-> e, R |-> r]]
Checker == [type |-> <<"$assert">>, conn |-> [A |-> "a", Y |-> "x"]]
Latch  == [type |-> <<"DLATCH", "P">>, conn |-> [D |-> "a", Q |-> "q"]]

Port(name, dir, bits) == [name |-> name, direction |-> dir, bits |-> bits]
Net(name, bits)       == [name |-> name, bits |-> bits]

In  == Port("in", "input", <<"a", "clk">>)
Out == Port("out", "output", <<"x", "y", "S_1">>)

(* Three gates on one input: chains, loops, double and missing drivers.     *)
GateNets ==
  {[ports |-> <<In, Out>>, cells |-> <<g, h, k>>, nets |-> <<Net("in", <<"a", "clk">>), Net("n", <<"q", "q">>)>>] :
     g \in {And(s, t, y) : s \in {"a", "x", "y", "q"}, t \in {"a", "q", "S_1"}, y \in {"x", "y"}},
     h \in {Mux("S_0", s, t, "x") : s, t \in {"a", "y", "q"}} \cup {Checker},
     k \in {Buf(s, y) : s \in {"a", "x", "y", "r"}, y \in {"y", "q", "a"}}}

(* Two registers of all kinds around a gate: clocks, edges, resets.         *)
RegisterNets ==
  {[ports |-> <<In, Out>>, cells |-> <<f, Buf(s, "y"), g>>, nets |-> <<>>] :
     s \in {"x", "q"},
     f \in {Dff(c, "y", "x", e) : c \in {"clk", "a", "S_0", "y"}, e \in Polarity}
           \cup {Dffe("clk", "x", "x", s) : s \in {"x", "y"}},
     g \in {Dff(c, "q", "q", "P") : c \in {"clk", "x"}} \cup {Sdff("clk", "x", "q", s) : s \in {"y", "q", "r"}}
           \cup {Dffre("clk", "y", "q", e, s) : e, s \in {"x", "q", "r"}} \cup {Latch}}

(* Names given twice, to vectors of several lengths, and other directions.  *)
Vectors  == {<<"a", "x">>, <<"a">>, <<"x", "a", "x">>, <<"S_1">>, <<>>}
NameNets ==
  {[ports |-> <<Port("in", d, <<"a", "x">>), Port("out", "output", b)>>, cells |-> <<>>,
    nets  |-> <<Net("n", c), Net("out", e)>>] :
     d \in {"input", "inout"}, b, c, e \in Vectors}

MCNetlist == GateNets \cup RegisterNets \cup NameNets
=============================================================================
