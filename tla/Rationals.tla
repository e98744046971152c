------------------------------ MODULE Rationals ------------------------------
(***************************************************************************)
(* Exact fractions of naturals, in lowest terms, for probabilities.        *)
(***************************************************************************)
EXTENDS Naturals

Gcd[s \in Nat \X Nat] == IF s[2] = 0 THEN s[1] ELSE Gcd[<<s[2], s[1] % s[2]>>]

\* The fraction a / b; b # 0.
Frac(a, b) == LET g == Gcd[<<a, b>>] IN <<a \div g, b \div g>>

Fractions == {Frac(s[1], s[2]) : s \in Nat \X (Nat \ {0})}

Zero == <<0, 1>>
One == <<1, 1>>

Plus(x, y) == Frac(x[1] * y[2] + y[1] * x[2], x[2] * y[2])
Times(x, y) == Frac(x[1] * y[1], x[2] * y[2])
Over(x, y) == Frac(x[1] * y[2], x[2] * y[1])
AtMost(x, y) == x[1] * y[2] <= y[1] * x[2]
Least(x, y) == IF AtMost(x, y) THEN x ELSE y

\* max(x - y, 0)
Monus(x, y) == IF AtMost(x, y) THEN Zero
               ELSE Frac(x[1] * y[2] - y[1] * x[2], x[2] * y[2])

\* The sum of f over 1 .. n, and its product from a to b.
Total(f, n) ==
  LET sum[i \in 0 .. n] == IF i = 0 THEN Zero ELSE Plus(sum[i - 1], f[i])
  IN  sum[n]

Product(f, a, b) ==
  LET product[i \in a .. b + 1] == IF i = b + 1 THEN One ELSE Times(f[i], product[i + 1])
  IN  product[a]
===============================================================================
