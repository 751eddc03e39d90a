--------------------------- MODULE MCSearchEngine ---------------------------
(* A small instance of SearchEngine for TLC, of two scenarios: overlapping *)
(* searches for three queries while results are activated, and one search  *)
(* for any short expression.                                               *)
EXTENDS SearchEngine

CONSTANTS
  Largest,   \* the greatest finite number
  Longest    \* characters of the expressions

\* The arithmetic of whole floats up to Largest: a quotient loses its fraction,
\* what is greater is infinite, as in float64 from 2^1024 on; one zero.
Inf == Largest + 1
NaN == Largest + 2
MCValue == (-Inf)..NaN
MCFinites == (-Largest)..Largest

Infinite(x) == x \in {Inf, -Inf}
Magnitude(x) == IF x < 0 THEN -x ELSE x
Signed(x, n) == IF x < 0 THEN -n ELSE n
Rounded(n) == IF Magnitude(n) > Largest THEN Signed(n, Inf) ELSE n
Even(n) == n % 2 = 0 \/ Infinite(n)

Sum(x, y) ==
  CASE Infinite(x) /\ y = -x -> NaN
    [] Infinite(x) /\ y # -x -> x
    [] OTHER -> IF Infinite(y) THEN y ELSE Rounded(x + y)
Product(x, y) ==
  IF 0 \in {x, y} /\ (Infinite(x) \/ Infinite(y)) THEN NaN ELSE Rounded(x * y)
Quotient(x, y) ==
  CASE y = 0 -> IF x = 0 THEN NaN ELSE Signed(x, Inf)
    [] Infinite(x) /\ y # 0 -> IF Infinite(y) THEN NaN ELSE Signed(y, x)
    [] OTHER -> Signed(x, Signed(y, Magnitude(x) \div Magnitude(y)))
Modulus(x, y) ==
  CASE Infinite(x) \/ y = 0 -> NaN
    [] ~Infinite(x) /\ Infinite(y) -> x
    [] OTHER -> Signed(x, Magnitude(x) % Magnitude(y))

\* math.Pow, where neither is NaN, y not 0 and x not 1.
Power(x, y) ==
  LET Repeated == LET p[n \in 0..y] == IF n = 0 THEN 1 ELSE Rounded(x * p[n - 1]) IN p[y]
  IN CASE x = 0 -> IF y < 0 THEN Inf ELSE 0
       [] x = -1 -> IF Even(y) THEN 1 ELSE -1
       [] x \notin {0, -1} /\ y < 0 -> 0
       [] x \notin {0, -1} /\ y > 0 /\ (Infinite(x) \/ Infinite(y)) ->
            IF x < 0 /\ ~Even(y) THEN -Inf ELSE Inf
       [] OTHER -> Repeated

Calculated(op, x, y) ==
  CASE op = "^" /\ (y = 0 \/ x = 1) -> 1
    [] NaN \in {x, y} /\ ~(op = "^" /\ (y = 0 \/ x = 1)) -> NaN
    [] OTHER -> CASE op = "+" -> Sum(x, y)      [] op = "-" -> Sum(x, -y)
                  [] op = "*" -> Product(x, y)  [] op = "/" -> Quotient(x, y)
                  [] op = "%" -> Modulus(x, y)  [] op = "^" -> Power(x, y)

MCApply == [t \in Operators \X MCValue \X MCValue |-> Calculated(t[1], t[2], t[3])]
MCNegated == [x \in MCValue |-> IF x = NaN THEN NaN ELSE -x]

\* The digits 0 and 2: runs of them that are not too large, with zeros in front
\* or a point behind.
MCLiteral == ("0" :> 0) @@ ("2" :> 2) @@ ("20" :> 20) @@ ("22" :> 22)
Decimal(run) == LET d == [i \in DOMAIN run |-> IF run[i] = "0" THEN 0 ELSE 2]
                IN FoldLeft(LAMBDA n, x : 10 * n + x, 0, d)
Readable ==
  LET whole == {run \in UNION {[1..n -> {"0", "2"}] : n \in 1..Longest} :
                  Decimal(run) <= Largest}
      Named(run) == CHOOSE t \in DOMAIN MCLiteral : MCLiteral[t] = Decimal(run)
  IN [run \in whole |-> Named(run)] @@ [run \in {Append(r, ".") : r \in whole} |->
                                           Named(Front(run))]
MCWord == Readable

\* Two applications that match as well; a folder entry that two sources hold;
\* matches too scattered to count; a plugin that answers a row twice.
MCApps == << [id |-> <<"app", "x">>, title |-> 1, keys |-> {"x", "ex"}],
             [id |-> <<"app", "y">>, title |-> 2, keys |-> {"y"}] >>
MCFolders == << [id |-> <<"folder", "f">>, title |-> 1, keys |-> {"f"}],
                [id |-> <<"folder", "g">>, title |-> 2, keys |-> {"long name"}],
                [id |-> <<"folder", "f">>, title |-> 1, keys |-> {"f"}] >>
MCFuzzy == (<<"x", <<"g">>>> :> -1) @@ (<<"ex", <<"g">>>> :> 4) @@ (<<"y", <<"g">>>> :> 4)
           @@ (<<"f", <<"g">>>> :> 2) @@ (<<"long name", <<"g">>>> :> -3)
MCCommands == (<<"g">> :> << [id |-> <<"plugin", "p">>, title |-> 2, score |-> 0],
                             [id |-> <<"plugin", "p">>, title |-> 1, score |-> 1] >>)
              @@ (<<"g", " ", "g">> :> << [id |-> <<"plugin", "q">>, title |-> 1, score |-> 0] >>)
MCActivated == {<<"app", "y">>, <<"plugin", "p">>}
MCBoost == [n \in 0..1 |-> 3 * n]

Words == {<<>>, <<"g">>, <<"g", " ", "g", "2">>}

\* The characters of expressions of every shape; the longest have two numbers at
\* least, to make their number bearable.
Alphabet == {"0", "2", "(", ")"} \cup Operators
Operands(q) == {i \in DOMAIN q : q[i] \in Figures /\ ~(i > 1 /\ q[i - 1] \in Figures)}
Expressions ==
  {q \in UNION {[1..n -> Alphabet] : n \in 0..Longest} :
     Len(q) = Longest => Cardinality(Operands(q)) > 1}

\* What is joined or replaced before it is read, points, division by what is zero
\* and by what is infinite, and powers of and to the infinite.
Samples == {
  <<"2", " ", "2", "+", "2">>, <<"2", ",", "2", "+", "2">>, <<"2", "times", "2", "over", "2">>,
  <<"2", ".", "+", "2">>, <<".", "+", "2">>, <<"2", ".", ".", "+", "2">>,
  <<"2", "/", "(", "2", "-", "2", ")">>, <<"2", "/", "(", "2", "/", "0", ")">>,
  <<"2", "%", "(", "2", "2", "*", "2", ")">>, <<"2", "2", "^", "2", "^", "2">>,
  <<"0", "^", "0", "^", "-", "2">>, <<"2", "/", "2", "2", "^", "2">>,
  <<"2", "2", "*", "2", "-", "2", "2", "*", "2">>, <<"2", "2", "*", "2", "+", "2", "2", "*", "2">>,
  <<"2", "/", "(", "2", "2", "*", "2", "-", "2", "2", "*", "2", ")">> }

MCTyped == {Words} \cup {{q} : q \in Expressions \cup Samples}

\* An expression longer than this is followed until its search has begun.
Short == 3

Scenarios ==
  \/ typed = Words
  \/ /\ usage = <<>> /\ faults = 0
     /\ Cardinality({s \in Searches : search[s].pc # "idle"}) <= 1
     /\ \A s \in Searches : search[s].pc \in {"idle", "begun"} \/ Len(search[s].query) <= Short

Interchangeable == Permutations(Searches)
=============================================================================
