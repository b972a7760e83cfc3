-------------------------------- MODULE Cell --------------------------------
(***************************************************************************)
(* The cells of a circuit and their evaluation (src/Cell.h) on the symbols  *)
(* of two consecutive cycles.  A cycle is a function from signals to        *)
(* symbols.  The bits of a cell type (src/cell_types.h) are fields here:    *)
(*   gate      [kind, op, neg, neg2, in, out]                               *)
(*   register  [d, q, enable, e, eTrigger, reset, r, rTrigger, rValue]      *)
(* kind is "unary", "binary" or "mux", and op matters for "binary" only.    *)
(***************************************************************************)
EXTENDS SymbolManager

(* An operator of Symbol.h gives a manager and a symbol.                    *)
Made(res) == [m |-> res.m, sym |-> SymbolOf(res.m, res.v)]
Kept(m, x) == [m |-> m, sym |-> x]

NotIf(flag, y) == IF flag THEN Made(MakeNot(y.m, y.sym.var)) ELSE y

-----------------------------------------------------------------------------
(* Cell::eval of a gate.                                                    *)

(* Mutant: only the first input is compared with the cycle before.          *)
UnchangedFirst(prev, curr, g) ==
  /\ g.out \in DOMAIN prev
  /\ g.in[1] \in DOMAIN prev /\ prev[g.in[1]].var = curr[g.in[1]].var

(* The inputs have the variables of the cycle before: so has the output.    *)
UnchangedInputs(prev, curr, g) ==
  /\ g.out \in DOMAIN prev
  /\ \A i \in DOMAIN g.in : /\ g.in[i] \in DOMAIN prev
                            /\ prev[g.in[i]].var = curr[g.in[i]].var

EvalBinary(m, g, a, b0) ==
  LET b == NotIf(g.neg2, Kept(m, b0))
  IN  Made(CASE g.op = "and" -> MakeAnd(b.m, a.var, b.sym.var)
             [] g.op = "xor" -> MakeXor(b.m, a.var, b.sym.var)
             [] g.op = "or"  -> MakeOr(b.m, a.var, b.sym.var))

EvalGate(m, prev, curr, g) ==
  LET in(i) == curr[g.in[i]]
      y == CASE g.kind = "unary"  -> Kept(m, in(1))
             [] g.kind = "binary" -> EvalBinary(m, g, in(1), in(2))
             [] g.kind = "mux"    -> Made(MakeMux(m, in(3).var, in(2).var, in(1).var))
  IN  IF UnchangedInputs(prev, curr, g) THEN Kept(m, prev[g.out])
      ELSE NotIf(g.neg, y)

(* Cell::eval of a register: everything is read from the cycle before.      *)
EvalRegister(m, prev, c) ==
  LET e == NotIf(~c.eTrigger, Kept(m, prev[c.e]))
      w == IF c.enable THEN Made(MakeMux(e.m, e.sym.var, prev[c.d].var, prev[c.q].var))
           ELSE Kept(m, prev[c.d])
      r == NotIf(~c.rTrigger, Kept(w.m, prev[c.r]))
  IN  IF c.reset
      THEN Made(MakeMux(r.m, r.sym.var, ConstSymbol(c.rValue).var, w.sym.var))
      ELSE w

-----------------------------------------------------------------------------
(* What the cells compute, as functions of the inputs of the simulation.    *)

NotF(flag, f) == IF flag THEN Not(f) ELSE f

GateFunction(g, val) ==
  LET in(i) == val[g.in[i]]
      b == NotF(g.neg2, in(2))
  IN  NotF(g.neg, CASE g.kind = "unary" -> in(1)
                    [] g.kind = "mux"   -> Mux(in(3), in(2), in(1))
                    [] g.kind = "binary" /\ g.op = "and" -> in(1) \cap b
                    [] g.kind = "binary" /\ g.op = "or"  -> in(1) \cup b
                    [] g.kind = "binary" /\ g.op = "xor" -> Xor(in(1), b))

RegisterFunction(c, val) ==
  LET w == IF c.enable THEN Mux(NotF(~c.eTrigger, val[c.e]), val[c.d], val[c.q]) ELSE val[c.d]
  IN  IF c.reset
      THEN Mux(NotF(~c.rTrigger, val[c.r]), IF c.rValue THEN Assignment ELSE {}, w)
      ELSE w
=============================================================================
