----------------------------- MODULE Calculator -----------------------------
(***************************************************************************)
(* The calculator of internal/providers/calc/calc.go: which queries it     *)
(* answers, and with which value. A query is a sequence of characters,     *)
(* which are read as tokens: a run of figures is one. The arithmetic of    *)
(* float64, with what math.Mod and math.Pow make of infinities and NaN, is *)
(* a parameter.                                                            *)
(***************************************************************************)
EXTENDS Integers, Sequences, FiniteSetsExt

CONSTANTS
  Value,     \* float64
  Zeros,     \* those equal to 0
  Finites,   \* those that are neither infinite nor NaN
  Apply,     \* what an operator makes of two values
  Negated,   \* what a minus sign makes of one
  Word,      \* the number token of each run of figures that ParseFloat reads
  Literal    \* the value of each number token

Numbers == DOMAIN Literal
Operators == {"+", "-", "*", "/", "%", "^"}

ASSUME ArithmeticAssumption ==
  /\ Zeros \subseteq Value /\ Finites \subseteq Value
  /\ Apply \in [Operators \X Value \X Value -> Value]
  /\ Negated \in [Value -> Value]

ASSUME LiteralAssumption ==
  /\ Literal \in [Numbers -> Value]
  /\ Word \in [DOMAIN Word -> Numbers]
  /\ Numbers \cap (Operators \cup {"(", ")", "end", "within", "malformed"}) = {}

Digits == {"0", "1", "2", "3", "4", "5", "6", "7", "8", "9"}
Figures == Digits \cup {"."}
Charset == Figures \cup Operators \cup {"(", ")"}

\* Faulty Results: division by zero is left to the arithmetic.
ResultsUnchecked(op, v, w) == {Apply[<<op, v, w>>]}

\* What "v op w" evaluates to: nothing where the code returns an error.
Results(op, v, w) == IF op \in {"/", "%"} /\ w \in Zeros THEN {} ELSE {Apply[<<op, v, w>>]}

----------------------------------------------------------------------------
(* The recursive-descent parser. A call <<rule, i, acc>> is of the rule's  *)
(* method at position i; f[call] is the set of what it returns, a value    *)
(* and the position after it, or nothing where it returns an error; acc    *)
(* holds the value that the loops of expr and term have reached.           *)

\* expr and term: the operators of their loops and the rule between them.
Loop == [expr |-> {"+", "-"}, term |-> {"*", "/", "%"}]
Below == [expr |-> "term", term |-> "factor"]
Rules == {"expr", "term", "factor", "unary", "primary"}
Calls(s) == Rules \X (1..(Len(s) + 1)) \X (SUBSET Value)

At(s, i) == IF i <= Len(s) THEN s[i] ELSE "end"

\* The loop of expr and term at an operator: the next operand, and on.
Folds(f, s, rule, i, acc) ==
  UNION {UNION {f[<<rule, t.i, {r}>>] : r \in UNION {Results(s[i], v, t.v) : v \in acc}}
         : t \in f[<<Below[rule], i + 1, {}>>]}

\* expr and term, from the first operand or on from acc.
Chain(f, s, rule, i, acc) ==
  CASE acc = {} -> UNION {f[<<rule, t.i, {t.v}>>] : t \in f[<<Below[rule], i, {}>>]}
    [] acc # {} /\ At(s, i) \in Loop[rule] -> Folds(f, s, rule, i, acc)
    [] OTHER -> {[v |-> v, i |-> i] : v \in acc}

\* factor: a power takes the whole factor on its right, powers included.
Factor(f, s, i) ==
  UNION {IF At(s, u.i) # "^" THEN {u}
         ELSE UNION {{[v |-> r, i |-> t.i] : r \in Results("^", u.v, t.v)}
                     : t \in f[<<"factor", u.i + 1, {}>>]}
         : u \in f[<<"unary", i, {}>>]}

Unary(f, s, i) ==
  CASE At(s, i) = "-" -> {[u EXCEPT !.v = Negated[@]] : u \in f[<<"unary", i + 1, {}>>]}
    [] At(s, i) = "+" -> f[<<"unary", i + 1, {}>>]
    [] OTHER -> f[<<"primary", i, {}>>]

Primary(f, s, i) ==
  CASE At(s, i) = "(" -> {[t EXCEPT !.i = @ + 1] :
                            t \in {t \in f[<<"expr", i + 1, {}>>] : At(s, t.i) = ")"}}
    [] At(s, i) \in Numbers -> {[v |-> Literal[s[i]], i |-> i + 1]}
    [] OTHER -> {}

Returns(f, s, rule, i, acc) ==
  CASE rule = "factor"  -> Factor(f, s, i)
    [] rule = "unary"   -> Unary(f, s, i)
    [] rule = "primary" -> Primary(f, s, i)
    [] OTHER            -> Chain(f, s, rule, i, acc)

Parse(s) ==
  LET f[call \in Calls(s)] == Returns(f, s, call[1], call[2], call[3])
  IN f[<<"expr", 1, {}>>]

----------------------------------------------------------------------------
(* From the query to the tokens.                                           *)

\* s without the elements to be dropped.
Without(s, dropped) ==
  LET kept[n \in 0..Len(s)] ==
        IF n = 0 THEN <<>>
        ELSE IF s[n] \in dropped THEN kept[n - 1] ELSE Append(kept[n - 1], s[n])
  IN kept[Len(s)]

\* The symbols of Chinese input methods.
Ascii(c) == CASE c = "times" -> "*" [] c = "over" -> "/" [] OTHER -> c

\* Without blanks and thousand separators: what stood apart is joined.
Normalise(query) == Without([i \in DOMAIN query |-> Ascii(query[i])], {" ", ","})

\* Only the calculator's characters, a digit, and an operator further on than
\* the first character, which a leading sign is not.
LooksArithmetic(expr) ==
  /\ \A i \in DOMAIN expr : expr[i] \in Charset
  /\ \E i \in DOMAIN expr : expr[i] \in Digits
  /\ \E i \in DOMAIN expr : i > 1 /\ expr[i] \in Operators

\* The token that begins at i: a figure takes all those that follow it.
Token(expr, i) ==
  LET inside == i > 1 /\ {expr[i - 1], expr[i]} \subseteq Figures
      run == SubSeq(expr, i, Max({j \in i..Len(expr) : \A k \in i..j : expr[k] \in Figures}))
  IN CASE expr[i] \notin Figures -> expr[i]
       [] inside -> "within"
       [] expr[i] \in Figures /\ ~inside /\ run \in DOMAIN Word -> Word[run]
       [] OTHER -> "malformed"

Tokens(expr) == Without([i \in DOMAIN expr |-> Token(expr, i)], {"within"})

\* The value of the row the calculator shows, if it shows one.
Evaluate(query) ==
  LET expr == Normalise(query)
      s == Tokens(expr)
  IN IF LooksArithmetic(expr)
     THEN {t.v : t \in {t \in Parse(s) : t.i = Len(s) + 1 /\ t.v \in Finites}}
     ELSE {}

----------------------------------------------------------------------------
(* The reference: an expression is read by splitting it at the operator    *)
(* that is applied last, which no parser is needed for.                    *)

Depth(s, i) == Cardinality({j \in 1..(i - 1) : s[j] = "("})
             - Cardinality({j \in 1..(i - 1) : s[j] = ")"})

\* The operators of s[i .. j-1] that stand between two operands, outside all
\* its parentheses.
Binary(s, ops, i, j) == {k \in (i + 1)..(j - 1) : /\ s[k] \in ops /\ Depth(s, k) = Depth(s, i)
                                                 /\ s[k - 1] \in Numbers \cup {")"}}

\* Below, m[<<k, l>>] is the meaning of s[k .. l-1].
\* A part whose operator at k is applied last: no value is divided by zero.
Applied(m, s, i, k, j) ==
  {Apply[<<s[k], l, r>>] :
     l \in m[<<i, k>>],
     r \in {r \in m[<<k + 1, j>>] : s[k] \in {"/", "%"} => r \notin Zeros}}

\* A part without a binary operator.
Operand(m, s, i, j) ==
  CASE s[i] = "-" -> {Negated[v] : v \in m[<<i + 1, j>>]}
    [] s[i] = "+" -> m[<<i + 1, j>>]
    [] s[i] = "(" /\ s[j - 1] = ")" -> m[<<i + 1, j - 1>>]
    [] i + 1 = j /\ s[i] \in Numbers -> {Literal[s[i]]}
    [] OTHER -> {}

Reading(m, s, i, j) ==
  LET sums == Binary(s, {"+", "-"}, i, j)
      products == Binary(s, {"*", "/", "%"}, i, j)
      powers == Binary(s, {"^"}, i, j)
  IN CASE i >= j -> {}
       [] i < j /\ sums # {} -> Applied(m, s, i, Max(sums), j)
       [] i < j /\ sums = {} /\ products # {} -> Applied(m, s, i, Max(products), j)
       [] i < j /\ sums \cup products = {} /\ powers # {} -> Applied(m, s, i, Min(powers), j)
       [] i < j /\ sums \cup products \cup powers = {} -> Operand(m, s, i, j)

Parts(s) == (1..(Len(s) + 1)) \X (1..(Len(s) + 1))

Meaning(s) ==
  LET m[part \in Parts(s)] == Reading(m, s, part[1], part[2])
  IN m[<<1, Len(s) + 1>>]
=============================================================================
