--------------------------- MODULE NegacyclicRing ---------------------------
(***************************************************************************)
(* Integer polynomials modulo X^N + 1, by their coefficients: the          *)
(* definitions that transforms, formats and word arithmetic are measured   *)
(* against.                                                                *)
(***************************************************************************)
EXTENDS Integers

CONSTANT N   \* the ring dimension

Degrees == 0 .. N - 1
Ring(q) == [Degrees -> 0 .. q - 1]

\* Any integer vector, as an element modulo q.
Modulo(v, q)  == [i \in Degrees |-> v[i] % q]
Constant(b)   == [i \in Degrees |-> IF i = 0 THEN b ELSE 0]
Total(t)      ==
  LET total[n \in 0 .. N] == IF n = 0 THEN 0 ELSE total[n - 1] + t[n - 1] IN total[N]

Plus(x, y)     == [i \in Degrees |-> x[i] + y[i]]
Minus(x, y)    == [i \in Degrees |-> x[i] - y[i]]
Scaled(x, b)   == [i \in Degrees |-> x[i] * b]
Times(x, y)    ==
  [i \in Degrees |->
     Total([j \in Degrees |-> IF j <= i THEN x[j] * y[i - j] ELSE -(x[j] * y[N + i - j])])]

\* x at X^k, for odd k: X^(k*j) is X^i or -X^i for one j.
AtPower(x, k) ==
  [i \in Degrees |->
     LET j == CHOOSE j \in Degrees : (k * j) % N = i
     IN  IF ((k * j) \div N) % 2 = 1 THEN -x[j] ELSE x[j]]

Sparse(x, w) == [i \in Degrees |-> IF i % w = 0 THEN x[i] ELSE 0]

\* The element whose coefficients lie around zero.
Centred(x, q) == [i \in Degrees |-> IF x[i] > q \div 2 THEN x[i] - q ELSE x[i]]

Nearest(new, old, p, q) == \A i \in Degrees : 2 * (new[i] * q - old[i] * p) \in -q .. q
=============================================================================
