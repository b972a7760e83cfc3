----------------------------- MODULE MCVerifier -----------------------------
(* Verifier with two processes, three files and two designs, and with       *)
(* single verifiers for many command lines.                                 *)
EXTENDS Verifier, TLC

CONSTANTS p1, p2, f1, f2, f3, h1, h2

MCRunLength == h1 :> 2 @@ h2 :> 2

Sampling == [cycles |-> 1, f_given_d |-> None, f_given_ds |-> None, secrets |-> None, data |-> 1,
             samples |-> None, threads |-> None, epsilon |-> None, early |-> {}]
Files(load, store, report) == [load |-> load, store |-> store, report |-> report]
Verify(design, q) == [tool |-> "verify", design |-> design, request |-> q]
Merge(inputs, output) == [tool |-> "merge", inputs |-> inputs, output |-> output]

(* Starting, continuing in place, continuing elsewhere, another design or   *)
(* other options on the same files, a report over a result, merging.        *)
Jobs == {
  Verify(h1, Sampling @@ Files(None, f1, None)),
  Verify(h1, Sampling @@ Files(f1, f1, None)),
  Verify(h1, Sampling @@ Files(f1, f2, f3)),
  Verify(h2, Sampling @@ Files(f1, f1, None)),
  Verify(h1, [Sampling EXCEPT !.f_given_d = 5] @@ Files(f2, f2, None)),
  Merge(<<f1, f2>>, f3), Merge(<<f3, f1, f1>>, f2)}

Chains == {p1 :> <<a, b>> @@ p2 :> <<c>> : a, b, c \in Jobs}

Counted ==
  [cycles : {1}, f_given_d : {None, 0, 1, 4, 62}, f_given_ds : {None, 0, 4, 6},
   secrets : {None, 0, 3, 20}, data : {None, 0, 1, 5}, samples : {None, 0, 7, 8, 40},
   threads : {None, 0, 3, 16}, epsilon : {None}, early : {{}}]
Others ==
  {[Sampling EXCEPT !.epsilon = [hist |-> h, data |-> d], !.threads = t, !.early = e] :
     h \in {4, 8}, d \in {0, 1, 3}, t \in {None, 2}, e \in {{}, {TRUE}, BOOLEAN}}
Lines == {p1 :> <<Verify(h1, q @@ Files(None, None, None))>> @@ p2 :> <<>> : q \in Counted \cup Others}

Saved(hash, params, runs) == <<hash, params, runs, 2, runs, runs>>
Default == <<1, 4, 4, 1>>
MCDisk == {f1 :> Saved(h1, Default, 2),
           f1 :> SubSeq(Saved(h1, Default, 2), 1, 5) @@ f3 :> Saved(h1, Default, 1)}
MCScript == Chains \cup Lines
=============================================================================
