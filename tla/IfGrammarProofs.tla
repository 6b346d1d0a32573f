--------------------------- MODULE IfGrammarProofs ---------------------------
(***************************************************************************)
(* Proofs about IfGrammar, for every line of any length, every derivation, *)
(* every outcome of the operands and any arithmetic that stays within the  *)
(* values.                                                                 *)
(***************************************************************************)
EXTENDS IfGrammar, WellFoundedInduction, TLAPS

-----------------------------------------------------------------------------
(* Numbers and tokens.                                                     *)

\* A set of numbers has a least one.
LEMMA LeastOf ==
  ASSUME NEW S, S \subseteq Nat, S # {}
  PROVE  \E i \in S : \A k \in S : i <= k
<1>1. PICK i \in S : \A j \in S : ~(<<j, i>> \in OpToRel(<, Nat))
  BY NatLessThanWellFounded, WFMin
<1>2. ASSUME NEW j \in S PROVE i <= j
  <2>1. i \in Nat /\ j \in Nat
    OBVIOUS
  <2>2. <<j, i>> \in Nat \X Nat /\ <<j, i>>[1] = j /\ <<j, i>>[2] = i
    BY <2>1
  <2>3. ~(j < i)
    BY <1>1, <2>2 DEF OpToRel
  <2>4. QED
    BY <2>1, <2>3
<1>3. QED
  BY <1>2

\* No operator ends a line.
LEMMA EndIsNoOperator ==
  EndOfLine \notin {"?", ":", "(", ")"} \cup PrefixOps \cup BinaryOps
<1>1. EndOfLine \notin {"?", ":", "(", ")"} \cup PrefixOps
  BY DEF EndOfLine, PrefixOps
<1>2. \A k \in 1 .. 10 : EndOfLine \notin Levels[k]
  BY DEF EndOfLine, Levels
<1>3. DOMAIN Levels = 1 .. 10
  BY DEF Levels
<1>4. QED
  BY <1>1, <1>2, <1>3 DEF BinaryOps

-----------------------------------------------------------------------------
(* The parts of a line in the order in which they are read: behind a part  *)
(* nothing is read that is not further on or of a tighter level.           *)

\* The last place at which what begins at i may end.
Limit(l, i) == IF OperandsEnd(l) /\ i <= LineEnd(l) THEN LineEnd(l) ELSE Len(l.tokens)

Rank(l, part) == (Len(l.tokens) - part.at) * 12 + (UnaryOps - part.level)

\* What has been read behind a part's place ends further on; what is left of a loop may be nothing.
FitsPart(l, part, x) == IsOutcomeOf(x, IF part.left = {} THEN part.at ELSE part.at - 1, Limit(l, part.at))

Step(l, f, part) == parse_if(f, l.tokens, l.operands, part)

\* The functions agree on the parts that are read behind a part, and what they hold there fits.
AgreeBehind(l, f, g, part) ==
  \A p \in Parts(l.tokens) : Rank(l, p) < Rank(l, part) => f[p] = g[p] /\ FitsPart(l, p, f[p])

LEMMA LineIs ==
  ASSUME NEW l, IsLine(l)
  PROVE  /\ Len(l.tokens) \in Nat \ {0} /\ DOMAIN l.tokens = 1 .. Len(l.tokens)
         /\ \A i \in DOMAIN l.tokens : l.tokens[i] \in {"?", ":", "(", ")"} \cup PrefixOps \cup BinaryOps =>
              i + 1 \in DOMAIN l.tokens
<1>1. l.tokens \in Seq(STRING) /\ l.tokens # <<>> /\ l.tokens[Len(l.tokens)] = EndOfLine
  BY DEF IsLine
<1>2. Len(l.tokens) \in Nat \ {0} /\ DOMAIN l.tokens = 1 .. Len(l.tokens)
  BY <1>1
<1>3. QED
  BY <1>1, <1>2, EndIsNoOperator

LEMMA LineEndIs ==
  ASSUME NEW l, IsLine(l)
  PROVE  LineEnd(l) \in DOMAIN l.tokens /\ l.tokens[LineEnd(l)] = EndOfLine
<1> DEFINE places == {i \in DOMAIN l.tokens : l.tokens[i] = EndOfLine}
<1>1. Len(l.tokens) \in Nat \ {0} /\ DOMAIN l.tokens = 1 .. Len(l.tokens)
  BY LineIs
<1>2. places \subseteq Nat /\ Len(l.tokens) \in places
  BY <1>1 DEF IsLine
<1>3. PICK i \in places : \A j \in places : i <= j
  BY <1>2, LeastOf
<1>4. \A j \in 1 .. i - 1 : l.tokens[j] # EndOfLine
  BY <1>1, <1>2, <1>3
<1>5. QED
  BY <1>3, <1>4 DEF LineEnd

\* The limit is the same at all places up to it, an operator is in front of it, and an operand
\* does not go over it.
LEMMA LimitIs ==
  ASSUME NEW l, IsLine(l), NEW i \in DOMAIN l.tokens
  PROVE  /\ i \in 1 .. Limit(l, i) /\ Limit(l, i) \in 1 .. Len(l.tokens)
         /\ \A j \in i .. Limit(l, i) :
              /\ j \in DOMAIN l.tokens /\ Limit(l, j) = Limit(l, i)
              /\ l.tokens[j] \in {"?", ":", "(", ")"} \cup PrefixOps \cup BinaryOps =>
                   j + 1 \in i .. Limit(l, i) /\ Limit(l, j + 1) = Limit(l, i)
         /\ IsOutcomeOf(l.operands[i], i, Limit(l, i))
<1> DEFINE e == LineEnd(l)
           n == Len(l.tokens)
           m == Limit(l, i)
<1>1. /\ n \in Nat \ {0} /\ DOMAIN l.tokens = 1 .. n /\ i \in 1 .. n
      /\ e \in 1 .. n /\ l.tokens[e] = EndOfLine /\ l.tokens[n] = EndOfLine
  BY LineIs, LineEndIs DEF IsLine
<1>2. IsOutcomeOf(l.operands[i], i, n)
  BY DEF IsLine
<1>3. m = IF OperandsEnd(l) /\ i <= e THEN e ELSE n
  BY DEF Limit
<1>4. \A j : Limit(l, j) = IF OperandsEnd(l) /\ j <= e THEN e ELSE n
  BY DEF Limit
<1>5. OperandsEnd(l) /\ i <= e => (l.operands[i].st = "ok" => l.operands[i].at <= e)
  BY <1>1 DEF OperandsEnd
<1> HIDE DEF e, n, m
<1>6. i \in 1 .. m /\ m \in 1 .. n /\ l.tokens[m] = EndOfLine
  BY <1>1, <1>3
<1>7. IsOutcomeOf(l.operands[i], i, m)
  BY <1>1, <1>2, <1>3, <1>5 DEF IsOutcomeOf
<1>8. ASSUME NEW j \in i .. m
      PROVE  j \in DOMAIN l.tokens /\ Limit(l, j) = m
  BY <1>1, <1>3, <1>4, <1>6
<1>9. ASSUME NEW j \in i .. m, l.tokens[j] \in {"?", ":", "(", ")"} \cup PrefixOps \cup BinaryOps
      PROVE  j + 1 \in i .. m /\ Limit(l, j + 1) = m
  <2>1. l.tokens[j] # EndOfLine
    BY <1>9, EndIsNoOperator
  <2>2. j + 1 \in i .. m
    BY <1>6, <2>1
  <2>3. QED
    BY <1>8, <2>2
<1>10. QED
  BY <1>6, <1>7, <1>8, <1>9 DEF m, n

LEMMA RankFalls ==
  ASSUME NEW n \in Nat, NEW a \in 1 .. n, NEW b \in 1 .. n, NEW k \in 0 .. 11, NEW m \in 0 .. 11,
         b > a \/ (b = a /\ m > k)
  PROVE  (n - b) * 12 + (11 - m) < (n - a) * 12 + (11 - k)
<1>1. CASE b > a
  <2>1. n - b <= (n - a) - 1 /\ n - a \in Nat /\ n - b \in Nat
    BY <1>1
  <2>2. (n - b) * 12 <= (n - a) * 12 - 12
    BY <2>1
  <2>3. QED
    BY <2>1, <2>2
<1>2. QED
  BY <1>1

\* What is read from another place or level on.
LEMMA FromIs ==
  ASSUME NEW l, IsLine(l), NEW part \in Parts(l.tokens), NEW f, NEW g, AgreeBehind(l, f, g, part),
         NEW level \in Conditional .. UnaryOps, NEW i \in DOMAIN l.tokens,
         i > part.at \/ (i = part.at /\ level > part.level)
  PROVE  f[From(level, i)] = g[From(level, i)] /\ IsOutcomeOf(f[From(level, i)], i, Limit(l, i))
<1> DEFINE p == From(level, i)
<1>1. p \in Parts(l.tokens) /\ p.at = i /\ p.level = level /\ p.left = {}
  BY DEF Parts, From, Part
<1>2. part.at \in DOMAIN l.tokens /\ part.level \in Conditional .. UnaryOps
  BY DEF Parts
<1>3. Rank(l, p) < Rank(l, part)
  <2> HIDE DEF p
  <2>1. Len(l.tokens) \in Nat /\ p.at \in 1 .. Len(l.tokens) /\ part.at \in 1 .. Len(l.tokens)
    BY <1>1, <1>2, LineIs
  <2>2. p.level \in 0 .. 11 /\ part.level \in 0 .. 11 /\ UnaryOps = 11
    BY <1>1, <1>2 DEF Conditional, UnaryOps
  <2>3. QED
    BY <1>1, <2>1, <2>2, RankFalls DEF Rank
<1>4. f[p] = g[p] /\ FitsPart(l, p, f[p])
  BY <1>1, <1>3 DEF AgreeBehind
<1>5. QED
  BY <1>1, <1>4 DEF FitsPart

\* What a loop makes of an operand that ends further on.
LEMMA BehindIs ==
  ASSUME NEW l, IsLine(l), NEW part \in Parts(l.tokens), NEW f, NEW g, AgreeBehind(l, f, g, part),
         NEW level \in Conditional .. UnaryOps, NEW x, IsOutcomeOf(x, part.at, Limit(l, part.at)), x.st = "ok"
  PROVE  /\ f[Behind(level, x)] = g[Behind(level, x)]
         /\ IsOutcomeOf(f[Behind(level, x)], part.at, Limit(l, part.at))
<1> DEFINE p == Behind(level, x)
<1>1. part.at \in DOMAIN l.tokens /\ part.level \in Conditional .. UnaryOps
  BY DEF Parts
<1>2. /\ x.at \in part.at + 1 .. Limit(l, part.at) /\ x.value \in Ints
      /\ Limit(l, x.at) = Limit(l, part.at) /\ x.at \in DOMAIN l.tokens
  <2>1. x.at \in part.at + 1 .. Limit(l, part.at) /\ x.value \in Ints
    BY DEF IsOutcomeOf
  <2>2. part.at \in Int /\ Limit(l, part.at) \in Int
    BY <1>1, LimitIs, LineIs
  <2>3. x.at \in part.at .. Limit(l, part.at)
    BY <2>1, <2>2
  <2>4. QED
    BY <1>1, <2>1, <2>3, LimitIs
<1>3. p \in Parts(l.tokens) /\ p.at = x.at /\ p.level = level /\ p.left # {}
  BY <1>1, <1>2 DEF Parts, Behind, Part
<1>4. Rank(l, p) < Rank(l, part)
  <2> HIDE DEF p
  <2>1. /\ Len(l.tokens) \in Nat /\ p.at \in 1 .. Len(l.tokens) /\ part.at \in 1 .. Len(l.tokens)
        /\ p.at > part.at
    BY <1>1, <1>2, <1>3, LineIs
  <2>2. p.level \in 0 .. 11 /\ part.level \in 0 .. 11 /\ UnaryOps = 11
    BY <1>1, <1>3 DEF Conditional, UnaryOps
  <2>3. QED
    BY <2>1, <2>2, RankFalls DEF Rank
<1>5. f[p] = g[p] /\ FitsPart(l, p, f[p])
  BY <1>3, <1>4 DEF AgreeBehind
<1>6. IsOutcomeOf(f[p], x.at - 1, Limit(l, part.at))
  BY <1>2, <1>3, <1>5 DEF FitsPart
<1>7. IsOutcomeOf(f[p], part.at, Limit(l, part.at))
  BY <1>1, <1>2, <1>6, LimitIs, LineIs DEF IsOutcomeOf
<1>8. QED
  BY <1>5, <1>7

LEMMA FailedFits ==
  ASSUME NEW st, st # "ok", NEW i, NEW n
  PROVE  IsOutcomeOf(Failed(st), i, n)
BY ArithmeticAssumption DEF IsOutcomeOf, Failed, Outcome

LEMMA ValueFits ==
  ASSUME NEW i, NEW n, NEW v \in Ints, NEW at \in i + 1 .. n
  PROVE  IsOutcomeOf(Value(v, at), i, n) /\ Value(v, at).st = "ok"
BY DEF IsOutcomeOf, Value, Outcome

LEMMA EndsEarlier ==
  ASSUME NEW n \in Int, NEW i \in Int, NEW j \in Int, j <= i, NEW x, IsOutcomeOf(x, i, n)
  PROVE  IsOutcomeOf(x, j, n)
BY DEF IsOutcomeOf

-----------------------------------------------------------------------------
(* Every parse function only asks for parts that are read behind its own,  *)
(* and its outcome fits.                                                   *)

LEMMA PrimaryFits ==
  ASSUME NEW l, IsLine(l), NEW part \in Parts(l.tokens), NEW f, NEW g, AgreeBehind(l, f, g, part)
  PROVE  /\ parse_if_primary(f, l.tokens, l.operands, part.at)
              = parse_if_primary(g, l.tokens, l.operands, part.at)
         /\ IsOutcomeOf(parse_if_primary(f, l.tokens, l.operands, part.at), part.at, Limit(l, part.at))
<1> DEFINE i == part.at
           n == Limit(l, part.at)
           inner(h) == h[From(Conditional, i + 1)]
<1>1. i \in DOMAIN l.tokens /\ i \in 1 .. n /\ n \in Nat
  BY LineIs, LimitIs DEF Parts
<1>2. CASE l.tokens[i] # "("
  BY <1>1, <1>2, LimitIs DEF parse_if_primary
<1>3. CASE l.tokens[i] = "("
  <2>1. i + 1 \in DOMAIN l.tokens /\ i + 1 > i /\ Limit(l, i + 1) = n
    BY <1>1, <1>3, LimitIs, LineIs
  <2>2. inner(f) = inner(g) /\ IsOutcomeOf(inner(f), i + 1, n)
    <3>1. Conditional \in Conditional .. UnaryOps
      BY DEF Conditional, UnaryOps
    <3>2. inner(f) = inner(g) /\ IsOutcomeOf(inner(f), i + 1, Limit(l, i + 1))
      BY <2>1, <3>1, FromIs
    <3>3. QED
      BY <2>1, <3>2
  <2> HIDE DEF inner
  <2>3. IsOutcomeOf(inner(f), i, n)
    BY <1>1, <2>2 DEF IsOutcomeOf
  <2>4. CASE inner(f).st = "ok" /\ l.tokens[inner(f).at] = ")"
    <3>1. inner(f).at \in i + 2 .. n /\ inner(f).value \in Ints
      BY <1>1, <2>2, <2>4 DEF IsOutcomeOf
    <3>2. inner(f).at + 1 \in i + 1 .. n
      BY <1>1, <2>4, <3>1, LimitIs
    <3>3. IsOutcomeOf(Value(inner(f).value, inner(f).at + 1), i, n)
      BY <3>1, <3>2, ValueFits
    <3>4. QED
      BY <1>3, <2>2, <2>4, <3>3 DEF parse_if_primary, inner
  <2>5. CASE inner(f).st # "ok"
    BY <1>3, <2>2, <2>3, <2>5 DEF parse_if_primary, inner
  <2>6. CASE inner(f).st = "ok" /\ l.tokens[inner(f).at] # ")"
    BY <1>3, <2>2, <2>6, FailedFits DEF parse_if_primary, inner
  <2>7. QED
    BY <2>4, <2>5, <2>6
<1>4. QED
  BY <1>2, <1>3

LEMMA UnaryFits ==
  ASSUME NEW l, IsLine(l), NEW part \in Parts(l.tokens), NEW f, NEW g, AgreeBehind(l, f, g, part)
  PROVE  /\ parse_if_unary(f, l.tokens, l.operands, part.at)
              = parse_if_unary(g, l.tokens, l.operands, part.at)
         /\ IsOutcomeOf(parse_if_unary(f, l.tokens, l.operands, part.at), part.at, Limit(l, part.at))
<1> DEFINE i == part.at
           n == Limit(l, part.at)
           x(h) == h[From(UnaryOps, i + 1)]
<1>1. i \in DOMAIN l.tokens /\ i \in 1 .. n /\ n \in Nat
  BY LineIs, LimitIs DEF Parts
<1>2. CASE l.tokens[i] \notin PrefixOps
  BY <1>2, PrimaryFits DEF parse_if_unary
<1>3. CASE l.tokens[i] \in PrefixOps
  <2>1. i + 1 \in DOMAIN l.tokens /\ i + 1 > i /\ Limit(l, i + 1) = n
    BY <1>1, <1>3, LimitIs, LineIs
  <2>2. x(f) = x(g) /\ IsOutcomeOf(x(f), i + 1, n)
    <3>1. UnaryOps \in Conditional .. UnaryOps
      BY DEF Conditional, UnaryOps
    <3>2. x(f) = x(g) /\ IsOutcomeOf(x(f), i + 1, Limit(l, i + 1))
      BY <2>1, <3>1, FromIs
    <3>3. QED
      BY <2>1, <3>2
  <2> HIDE DEF x
  <2>3. IsOutcomeOf(x(f), i, n)
    BY <1>1, <2>2 DEF IsOutcomeOf
  <2>4. CASE x(f).st = "ok"
    <3>1. x(f).at \in i + 1 .. n /\ ComputedUnary(l.tokens[i], x(f).value) \in Ints
      BY <1>3, <2>3, <2>4, ArithmeticAssumption DEF IsOutcomeOf
    <3>2. IsOutcomeOf(Value(ComputedUnary(l.tokens[i], x(f).value), x(f).at), i, n)
      BY <3>1, ValueFits
    <3>3. QED
      BY <1>3, <2>2, <2>4, <3>2 DEF parse_if_unary, x
  <2>5. CASE x(f).st # "ok"
    BY <1>3, <2>2, <2>3, <2>5 DEF parse_if_unary, x
  <2>6. QED
    BY <2>4, <2>5
<1>4. QED
  BY <1>2, <1>3

LEMMA BinaryFits ==
  ASSUME NEW l, IsLine(l), NEW part \in Parts(l.tokens), NEW f, NEW g, AgreeBehind(l, f, g, part),
         part.level \in 1 .. 10
  PROVE  /\ parse_if_binary(f, part.level, part.at) = parse_if_binary(g, part.level, part.at)
         /\ IsOutcomeOf(parse_if_binary(f, part.level, part.at), part.at, Limit(l, part.at))
<1> DEFINE first(h) == h[From(part.level + 1, part.at)]
<1>1. part.at \in DOMAIN l.tokens /\ part.level + 1 \in Conditional .. UnaryOps
  BY DEF Parts, Conditional, UnaryOps
<1>2. first(f) = first(g) /\ IsOutcomeOf(first(f), part.at, Limit(l, part.at))
  BY <1>1, FromIs
<1> HIDE DEF first
<1>3. CASE first(f).st = "ok"
  <2>1. part.level \in Conditional .. UnaryOps
    BY DEF Parts
  <2>2. /\ f[Behind(part.level, first(f))] = g[Behind(part.level, first(f))]
        /\ IsOutcomeOf(f[Behind(part.level, first(f))], part.at, Limit(l, part.at))
    BY <1>2, <1>3, <2>1, BehindIs
  <2>3. QED
    BY <1>2, <1>3, <2>2 DEF parse_if_binary, first
<1>4. CASE first(f).st # "ok"
  BY <1>2, <1>4 DEF parse_if_binary, first
<1>5. QED
  BY <1>3, <1>4

LEMMA OperatedFits ==
  ASSUME NEW op \in BinaryOps, NEW left, left.value \in Ints, NEW i, NEW n, NEW right, IsOutcomeOf(right, i, n)
  PROVE  IsOutcomeOf(Operated(op, left, right), i, n)
<1>1. CASE right.st # "ok"
  BY <1>1 DEF Operated
<1>2. CASE right.st = "ok" /\ Ends(op, left.value, right.value) # "ok"
  BY <1>2, FailedFits DEF Operated
<1>3. CASE right.st = "ok" /\ Ends(op, left.value, right.value) = "ok"
  <2>1. right.value \in Ints /\ right.at \in i + 1 .. n
    BY <1>3 DEF IsOutcomeOf
  <2>2. Combined(op, left.value, right.value) \in Ints
    BY <1>3, <2>1, ArithmeticAssumption
  <2>3. IsOutcomeOf(Value(Combined(op, left.value, right.value), right.at), i, n)
    BY <2>1, <2>2, ValueFits
  <2>4. QED
    BY <1>3, <2>3 DEF Operated
<1>4. QED
  BY <1>1, <1>2, <1>3

LEMMA OperatorsFits ==
  ASSUME NEW l, IsLine(l), NEW part \in Parts(l.tokens), NEW f, NEW g, AgreeBehind(l, f, g, part),
         part.level \in 1 .. 10, NEW v \in Ints
  PROVE  /\ parse_if_operators(f, l.tokens, part.level, Value(v, part.at))
              = parse_if_operators(g, l.tokens, part.level, Value(v, part.at))
         /\ IsOutcomeOf(parse_if_operators(f, l.tokens, part.level, Value(v, part.at)), part.at - 1, Limit(l, part.at))
<1> DEFINE i == part.at
           n == Limit(l, part.at)
           left == Value(v, i)
           right(h) == h[From(RightLevel(part.level), left.at + 1)]
           both(h) == Operated(l.tokens[left.at], left, right(h))
<1>1. i \in DOMAIN l.tokens /\ i \in 1 .. n /\ n \in Nat
  BY LineIs, LimitIs DEF Parts
<1>2. left.at = i /\ left.value = v /\ left.st = "ok" /\ IsOutcomeOf(left, i - 1, n)
  BY <1>1 DEF Value, Outcome, IsOutcomeOf
<1>3. CASE l.tokens[i] \notin Levels[part.level]
  BY <1>2, <1>3 DEF parse_if_operators
<1>4. CASE l.tokens[i] \in Levels[part.level]
  <2>1. l.tokens[i] \in BinaryOps
    BY <1>4 DEF BinaryOps, Levels
  <2>2. i + 1 \in DOMAIN l.tokens /\ i + 1 > i /\ Limit(l, i + 1) = n
    BY <1>1, <2>1, LimitIs, LineIs
  <2>3. RightLevel(part.level) \in Conditional .. UnaryOps
    BY DEF RightLevel, Equality, Conditional, UnaryOps
  <2>4. right(f) = right(g) /\ IsOutcomeOf(right(f), i + 1, n)
    BY <1>2, <2>2, <2>3, FromIs
  <2> HIDE DEF right, left
  <2>5. IsOutcomeOf(right(f), i, n)
    BY <1>1, <2>4, EndsEarlier
  <2>6. both(f) = both(g) /\ IsOutcomeOf(both(f), i, n)
    BY <1>2, <2>1, <2>4, <2>5, OperatedFits
  <2> HIDE DEF both
  <2>7. IsOutcomeOf(both(f), i - 1, n)
    BY <1>1, <2>6, EndsEarlier
  <2>8. CASE both(f).st # "ok" \/ part.level \in {Equality, Comparison}
    BY <1>2, <1>4, <2>6, <2>7, <2>8 DEF parse_if_operators, both, right, left
  <2>9. CASE both(f).st = "ok" /\ part.level \notin {Equality, Comparison}
    <3>1. part.level \in Conditional .. UnaryOps
      BY DEF Parts
    <3>2. /\ f[Behind(part.level, both(f))] = g[Behind(part.level, both(f))]
          /\ IsOutcomeOf(f[Behind(part.level, both(f))], i, n)
      BY <2>6, <2>9, <3>1, BehindIs
    <3>3. IsOutcomeOf(f[Behind(part.level, both(f))], i - 1, n)
      BY <1>1, <3>2, EndsEarlier
    <3>4. QED
      BY <1>2, <1>4, <2>6, <2>9, <3>2, <3>3 DEF parse_if_operators, both, right, left
  <2>10. QED
    BY <2>8, <2>9
<1>5. QED
  BY <1>3, <1>4

LEMMA ConditionalFits ==
  ASSUME NEW l, IsLine(l), NEW part \in Parts(l.tokens), NEW f, NEW g, AgreeBehind(l, f, g, part),
         part.level = Conditional
  PROVE  /\ parse_if_conditional(f, l.tokens, part.at) = parse_if_conditional(g, l.tokens, part.at)
         /\ IsOutcomeOf(parse_if_conditional(f, l.tokens, part.at), part.at, Limit(l, part.at))
<1> DEFINE i == part.at
           n == Limit(l, part.at)
           condition(h) == h[From(1, i)]
           yes(h) == h[From(Conditional, condition(h).at + 1)]
           no(h) == h[From(Conditional, yes(h).at + 1)]
<1>1. i \in DOMAIN l.tokens /\ i \in 1 .. n /\ n \in Nat /\ Conditional \in Conditional .. UnaryOps
  BY LineIs, LimitIs DEF Parts, Conditional, UnaryOps
<1>2. condition(f) = condition(g) /\ IsOutcomeOf(condition(f), i, n)
  BY <1>1, FromIs DEF Conditional, UnaryOps
<1> HIDE DEF condition
<1>3. CASE condition(f).st # "ok" \/ l.tokens[condition(f).at] # "?"
  BY <1>2, <1>3 DEF parse_if_conditional, condition
<1>4. CASE condition(f).st = "ok" /\ l.tokens[condition(f).at] = "?"
  <2>1. condition(f).at \in i + 1 .. n
    BY <1>2, <1>4 DEF IsOutcomeOf
  <2>2. /\ condition(f).at + 1 \in DOMAIN l.tokens /\ condition(f).at + 1 > i
        /\ Limit(l, condition(f).at + 1) = n
    BY <1>1, <1>4, <2>1, LimitIs, LineIs
  <2>3. yes(f) = yes(g) /\ IsOutcomeOf(yes(f), condition(f).at + 1, n)
    BY <1>1, <1>2, <2>2, FromIs
  <2> HIDE DEF yes
  <2>4. IsOutcomeOf(yes(f), i, n)
    BY <1>1, <2>1, <2>3, EndsEarlier
  <2>5. CASE yes(f).st # "ok"
    BY <1>2, <1>4, <2>3, <2>4, <2>5 DEF parse_if_conditional, condition, yes
  <2>6. CASE yes(f).st = "ok" /\ l.tokens[yes(f).at] # ":"
    <3>1. /\ parse_if_conditional(f, l.tokens, i) = Failed("error")
          /\ parse_if_conditional(g, l.tokens, i) = Failed("error")
      BY <1>2, <1>4, <2>3, <2>6 DEF parse_if_conditional, condition, yes
    <3>2. QED
      BY <3>1, FailedFits
  <2>7. CASE yes(f).st = "ok" /\ l.tokens[yes(f).at] = ":"
    <3>1. yes(f).at \in i + 1 .. n /\ yes(f).value \in Ints
      BY <2>4, <2>7 DEF IsOutcomeOf
    <3>2. yes(f).at + 1 \in DOMAIN l.tokens /\ yes(f).at + 1 > i /\ Limit(l, yes(f).at + 1) = n
      BY <1>1, <2>7, <3>1, LimitIs, LineIs
    <3>3. no(f) = no(g) /\ IsOutcomeOf(no(f), yes(f).at + 1, n)
      BY <1>1, <2>3, <3>2, FromIs
    <3> HIDE DEF no
    <3>4. IsOutcomeOf(no(f), i, n)
      BY <1>1, <3>1, <3>3, EndsEarlier
    <3>5. CASE no(f).st # "ok"
      <4>1. /\ parse_if_conditional(f, l.tokens, i) = no(f)
            /\ parse_if_conditional(g, l.tokens, i) = no(g)
        BY <1>2, <1>4, <2>3, <2>7, <3>3, <3>5 DEF parse_if_conditional, condition, yes, no
      <4>2. QED
        BY <3>3, <3>4, <4>1
    <3>6. CASE no(f).st = "ok"
      <4> DEFINE value == IF condition(f).value # 0 THEN yes(f).value ELSE no(f).value
      <4>1. /\ parse_if_conditional(f, l.tokens, i) = Value(value, no(f).at)
            /\ parse_if_conditional(g, l.tokens, i) = Value(value, no(f).at)
        BY <1>2, <1>4, <2>3, <2>7, <3>3, <3>6 DEF parse_if_conditional, condition, yes, no
      <4>2. no(f).at \in i + 1 .. n /\ value \in Ints
        BY <3>1, <3>4, <3>6 DEF IsOutcomeOf
      <4>3. IsOutcomeOf(Value(value, no(f).at), i, n)
        BY <4>2, ValueFits
      <4>4. QED
        BY <4>1, <4>3
    <3>7. QED
      BY <3>5, <3>6
  <2>8. QED
    BY <2>5, <2>6, <2>7
<1>5. QED
  BY <1>3, <1>4

LEMMA StepFits ==
  ASSUME NEW l, IsLine(l), NEW part \in Parts(l.tokens), NEW f, NEW g, AgreeBehind(l, f, g, part)
  PROVE  Step(l, f, part) = Step(l, g, part) /\ FitsPart(l, part, Step(l, f, part))
<1> DEFINE n == Limit(l, part.at)
<1>1. /\ part.at \in Int /\ n \in Int /\ part.left \subseteq Ints
      /\ part.level \in 0 .. 11 /\ Conditional = 0 /\ UnaryOps = 11
  BY LimitIs, LineIs DEF Parts, Conditional, UnaryOps
<1>2. ASSUME NEW x, IsOutcomeOf(x, part.at, n)
      PROVE  FitsPart(l, part, x)
  BY <1>1, <1>2, EndsEarlier DEF FitsPart
<1>3. CASE part.level = Conditional
  BY <1>2, <1>3, ConditionalFits DEF Step, parse_if
<1>4. CASE part.level = UnaryOps
  BY <1>1, <1>2, <1>4, UnaryFits DEF Step, parse_if
<1>5. CASE part.level \in 1 .. 10 /\ part.left = {}
  BY <1>1, <1>2, <1>5, BinaryFits DEF Step, parse_if
<1>6. CASE part.level \in 1 .. 10 /\ part.left # {}
  <2> DEFINE v == CHOOSE w \in part.left : TRUE
             O(h) == parse_if_operators(h, l.tokens, part.level, Value(v, part.at))
  <2>1. v \in Ints
    BY <1>1, <1>6
  <2>2. Step(l, f, part) = O(f) /\ Step(l, g, part) = O(g)
    BY <1>1, <1>6 DEF Step, parse_if
  <2>3. O(f) = O(g) /\ IsOutcomeOf(O(f), part.at - 1, n)
    <3> HIDE DEF v
    <3>1. QED
      BY <1>6, <2>1, OperatorsFits
  <2> HIDE DEF v, O
  <2>4. FitsPart(l, part, O(f))
    BY <1>6, <2>3 DEF FitsPart
  <2>5. QED
    BY <2>2, <2>3, <2>4
<1>7. QED
  BY <1>1, <1>3, <1>4, <1>5, <1>6

-----------------------------------------------------------------------------
(* The parse functions end: there is one outcome of every part of a line.  *)

RankIs(l, part) == Rank(l, part) \in Nat /\ Rank(l, part) < Len(l.tokens) * 12

LEMMA RankOf ==
  ASSUME NEW l, IsLine(l), NEW part \in Parts(l.tokens)
  PROVE  RankIs(l, part)
<1> DEFINE n == Len(l.tokens)
           a == part.at
           k == part.level
<1>1. n \in Nat \ {0} /\ a \in 1 .. n /\ k \in 0 .. 11 /\ UnaryOps = 11
  BY LineIs DEF Parts, Conditional, UnaryOps
<1> HIDE DEF n, a, k
<1>2. n - a \in 0 .. n - 1
  BY <1>1
<1>3. (n - a) * 12 + (11 - k) \in Nat /\ (n - a) * 12 + (11 - k) < n * 12
  BY <1>1, <1>2
<1>4. QED
  BY <1>1, <1>3 DEF RankIs, Rank, n, a, k

\* f reads the parts of a rank below k.
ReadsBelow(l, f, k) ==
  /\ DOMAIN f = Parts(l.tokens)
  /\ \A p \in Parts(l.tokens) : Rank(l, p) < k => f[p] = Step(l, f, p) /\ FitsPart(l, p, f[p])

\* Two functions that agree below a part's rank, where one reads.
LEMMA AgreesBelow ==
  ASSUME NEW l, IsLine(l), NEW k \in Nat, NEW f, ReadsBelow(l, f, k), NEW g,
         \A p \in Parts(l.tokens) : Rank(l, p) < k => g[p] = f[p],
         NEW part \in Parts(l.tokens), Rank(l, part) <= k
  PROVE  AgreeBehind(l, f, g, part)
<1>1. ASSUME NEW p \in Parts(l.tokens), Rank(l, p) < Rank(l, part)
      PROVE  f[p] = g[p] /\ FitsPart(l, p, f[p])
  <2>1. Rank(l, p) \in Nat /\ Rank(l, part) \in Nat
    BY RankOf DEF RankIs
  <2>2. Rank(l, p) < k
    BY <1>1, <2>1
  <2>3. QED
    BY <2>2 DEF ReadsBelow
<1>2. QED
  BY <1>1 DEF AgreeBehind

\* What reads below a rank reads the parts of this rank too, once their steps have been taken.
LEMMA ReadsOneMore ==
  ASSUME NEW l, IsLine(l), NEW k \in Nat, NEW f, ReadsBelow(l, f, k)
  PROVE  \E g : ReadsBelow(l, g, k + 1)
<1> DEFINE g == [p \in Parts(l.tokens) |-> IF Rank(l, p) < k THEN f[p] ELSE Step(l, f, p)]
<1>1. \A p \in Parts(l.tokens) : Rank(l, p) < k => g[p] = f[p]
  OBVIOUS
<1>2. \A p \in Parts(l.tokens) : ~(Rank(l, p) < k) => g[p] = Step(l, f, p)
  OBVIOUS
<1>3. DOMAIN g = Parts(l.tokens)
  OBVIOUS
<1> HIDE DEF g
<1>4. ASSUME NEW p \in Parts(l.tokens), Rank(l, p) < k + 1
      PROVE  g[p] = Step(l, g, p) /\ FitsPart(l, p, g[p])
  <2>1. Rank(l, p) \in Nat /\ Rank(l, p) <= k
    BY <1>4, RankOf DEF RankIs
  <2>2. AgreeBehind(l, f, g, p)
    BY <1>1, <2>1, AgreesBelow
  <2>3. Step(l, f, p) = Step(l, g, p) /\ FitsPart(l, p, Step(l, f, p))
    BY <2>2, StepFits
  <2>4. g[p] = Step(l, f, p)
    <3>1. CASE Rank(l, p) < k
      BY <1>1, <3>1 DEF ReadsBelow
    <3>2. QED
      BY <1>2, <3>1
  <2>5. QED
    BY <2>3, <2>4
<1>5. QED
  BY <1>3, <1>4 DEF ReadsBelow

LEMMA SomeReads ==
  ASSUME NEW l, IsLine(l), NEW k \in Nat
  PROVE  \E f : ReadsBelow(l, f, k)
<1> DEFINE Bad == {j \in Nat : ~ \E f : ReadsBelow(l, f, j)}
<1>1. SUFFICES ASSUME Bad # {} PROVE FALSE
  OBVIOUS
<1>2. PICK j \in Bad : \A m \in Bad : j <= m
  BY <1>1, LeastOf
<1>3. CASE j = 0
  <2> DEFINE f == [p \in Parts(l.tokens) |-> 0]
  <2>1. \A p \in Parts(l.tokens) : ~(Rank(l, p) < 0)
    BY RankOf DEF RankIs
  <2>2. ReadsBelow(l, f, 0)
    BY <2>1 DEF ReadsBelow
  <2>3. QED
    BY <1>2, <1>3, <2>2
<1>4. CASE j # 0
  <2>1. j - 1 \in Nat /\ j - 1 \notin Bad
    BY <1>2, <1>4
  <2>2. PICK f : ReadsBelow(l, f, j - 1)
    BY <2>1
  <2>3. PICK g : ReadsBelow(l, g, (j - 1) + 1)
    BY <2>1, <2>2, ReadsOneMore
  <2>4. (j - 1) + 1 = j
    BY <1>2
  <2>5. QED
    BY <1>2, <2>3, <2>4
<1>5. QED
  BY <1>3, <1>4

\* The reading of a line is the recursion of the parse functions.
LEMMA ReadingIs ==
  ASSUME NEW l, IsLine(l), NEW part \in Parts(l.tokens)
  PROVE  /\ Reading(l.tokens, l.operands)[part] = Step(l, Reading(l.tokens, l.operands), part)
         /\ FitsPart(l, part, Reading(l.tokens, l.operands)[part])
<1> DEFINE IsReading(f) == f = [p \in Parts(l.tokens) |-> parse_if(f, l.tokens, l.operands, p)]
           k == Len(l.tokens) * 12
           read == Reading(l.tokens, l.operands)
<1>1. k \in Nat /\ \A p \in Parts(l.tokens) : Rank(l, p) < k
  BY RankOf, LineIs DEF RankIs
<1>2. PICK f : ReadsBelow(l, f, k)
  BY <1>1, SomeReads
<1> DEFINE g == [p \in Parts(l.tokens) |-> f[p]]
<1>3. \A p \in Parts(l.tokens) : g[p] = f[p]
  OBVIOUS
<1>4. g = [p \in Parts(l.tokens) |-> g[p]]
  OBVIOUS
<1> HIDE DEF g
<1>5. ASSUME NEW p \in Parts(l.tokens) PROVE g[p] = Step(l, g, p)
  <2>1. Rank(l, p) < k /\ Rank(l, p) <= k
    BY <1>1, RankOf DEF RankIs
  <2>2. AgreeBehind(l, f, g, p)
    <3> HIDE DEF k
    <3>1. QED
      BY <1>1, <1>2, <1>3, <2>1, AgreesBelow
  <2>3. Step(l, f, p) = Step(l, g, p)
    BY <2>2, StepFits
  <2>4. f[p] = Step(l, f, p)
    BY <1>2, <2>1 DEF ReadsBelow
  <2>5. QED
    BY <1>3, <2>3, <2>4
<1>6. [p \in Parts(l.tokens) |-> g[p]] = [p \in Parts(l.tokens) |-> parse_if(g, l.tokens, l.operands, p)]
  BY <1>5 DEF Step
<1>7. IsReading(g)
  BY <1>4, <1>6
<1>8. read = CHOOSE h : IsReading(h)
  BY DEF Reading
<1>9. IsReading(read)
  <2> HIDE DEF IsReading
  <2>1. QED
    BY <1>7, <1>8
<1>10. \A p \in Parts(l.tokens) : read[p] = Step(l, read, p)
  <2> HIDE DEF read
  <2>1. QED
    BY <1>9 DEF Step
<1> HIDE DEF read
<1> DEFINE Bad == {m \in Nat : \E p \in Parts(l.tokens) : Rank(l, p) = m /\ ~FitsPart(l, p, read[p])}
<1>11. Bad = {}
  <2>1. SUFFICES ASSUME Bad # {} PROVE FALSE
    OBVIOUS
  <2>2. PICK m \in Bad : \A j \in Bad : m <= j
    BY <2>1, LeastOf
  <2>3. PICK p \in Parts(l.tokens) : Rank(l, p) = m /\ ~FitsPart(l, p, read[p])
    BY <2>2
  <2>4. ASSUME NEW q \in Parts(l.tokens), Rank(l, q) < Rank(l, p)
        PROVE  FitsPart(l, q, read[q])
    <3>1. Rank(l, q) \in Nat /\ Rank(l, q) \notin Bad
      BY <2>2, <2>3, <2>4, RankOf DEF RankIs
    <3>2. QED
      BY <3>1
  <2>5. AgreeBehind(l, read, read, p)
    BY <2>4 DEF AgreeBehind
  <2>6. FitsPart(l, p, Step(l, read, p))
    BY <2>5, StepFits
  <2>7. QED
    BY <1>10, <2>3, <2>6
<1>12. FitsPart(l, part, read[part])
  <2>1. Rank(l, part) \in Nat /\ Rank(l, part) \notin Bad
    BY <1>11, RankOf DEF RankIs
  <2>2. QED
    BY <2>1
<1>13. QED
  BY <1>10, <1>12 DEF read

-----------------------------------------------------------------------------
(* Where what is read ends.                                                *)

LEMMA LineStays == Spec => [](line \in Lines)
<1>1. Init => line \in Lines
  BY DEF Init
<1>2. line \in Lines /\ [Read]_grammarVars => (line \in Lines)'
  BY DEF Read, grammarVars
<1>3. QED
  BY <1>1, <1>2, PTL DEF Spec

LEMMA ReadingFits ==
  ASSUME NEW l, IsLine(l)
  PROVE  IsOutcomeOf(ReadAs(Conditional, l.tokens, l.operands), 1,
                     IF OperandsEnd(l) THEN LineEnd(l) ELSE Len(l.tokens))
<1> DEFINE part == From(Conditional, 1)
<1>1. part \in Parts(l.tokens) /\ part.at = 1 /\ part.left = {}
  BY LineIs DEF Parts, From, Part, Conditional, UnaryOps
<1>2. FitsPart(l, part, Reading(l.tokens, l.operands)[part])
  BY <1>1, ReadingIs
<1>3. 1 <= LineEnd(l)
  BY LineEndIs, LineIs
<1>4. QED
  BY <1>1, <1>2, <1>3 DEF FitsPart, ReadAs, Limit

\* Once a line has been read, result has the outcome of its reading.
ReadResult == result \subseteq {ReadAs(Conditional, line.tokens, line.operands)}

LEMMA ResultIsRead == Spec => []ReadResult
<1>1. Init => ReadResult
  BY DEF Init, ReadResult
<1>2. ReadResult /\ [Read]_grammarVars => ReadResult'
  BY DEF ReadResult, Read, grammarVars
<1>3. QED
  BY <1>1, <1>2, PTL DEF Spec

\* However long the line and whatever the operands are, what can be read ends in the file; and if
\* every operand on the line ends on it, then what is read does: no parse function takes the next
\* line for a part of the expression (parse_if_conditional and those under it).  An operand
\* that goes on behind the line, a call that is not closed there, is the only way out.
THEOREM StaysInLine == Spec => []TypeOK
<1>1. line \in Lines /\ ReadResult => TypeOK
  BY ReadingFits, LinesAssumption DEF ReadResult, TypeOK
<1>2. QED
  BY <1>1, LineStays, ResultIsRead, PTL

-----------------------------------------------------------------------------
(* The levels.                                                             *)

\* An operator is of one level.
LEMMA LevelsApart ==
  ASSUME NEW a \in 1 .. 10, NEW b \in 1 .. 10, NEW op, op \in Levels[a], op \in Levels[b]
  PROVE  a = b
<1>1. \A m \in 1 .. 10 : Levels[m] =
        IF m = 1 THEN {"||"} ELSE IF m = 2 THEN {"&&"} ELSE IF m = 3 THEN {"|"} ELSE IF m = 4 THEN {"^"}
        ELSE IF m = 5 THEN {"&"} ELSE IF m = 6 THEN {"==", "!="} ELSE IF m = 7 THEN {"<", ">", "<=", ">="}
        ELSE IF m = 8 THEN {"<<", ">>"} ELSE IF m = 9 THEN {"+", "-"} ELSE {"*", "/", "%"}
  BY DEF Levels
<1>2. QED
  BY <1>1

\* The levels of the parse functions are the sections of the standard.
LEMMA SectionsAreLevels ==
  DOMAIN Sections = 1 .. 10 /\ DOMAIN Levels = 1 .. 10 /\ \A k \in 1 .. 10 : Sections[11 - k] = Levels[k]
BY DEF Sections, Levels

\* What ends an operand is no operator.
LEMMA NoLevelHas ==
  ASSUME NEW k \in 1 .. 10
  PROVE  \A t \in {"?", ":", "(", ")", EndOfLine} : t \notin Levels[k]
BY DEF Levels, EndOfLine

-----------------------------------------------------------------------------
(* The reading of a line, one parse function at a time.                    *)

ReadingOf(l) == Reading(l.tokens, l.operands)

\* What the loop of a level makes of an outcome.
Continued(l, level, x) == IF x.st # "ok" THEN x ELSE ReadingOf(l)[Behind(level, x)]

LEMMA ReadsConditional ==
  ASSUME NEW l, IsLine(l), NEW i \in DOMAIN l.tokens
  PROVE  ReadingOf(l)[From(Conditional, i)] = parse_if_conditional(ReadingOf(l), l.tokens, i)
<1> DEFINE part == From(Conditional, i)
<1>1. part \in Parts(l.tokens) /\ part.at = i /\ part.level = Conditional
  BY DEF Parts, From, Part, Conditional, UnaryOps
<1>2. QED
  BY <1>1, ReadingIs DEF Step, parse_if, ReadingOf

LEMMA ReadsUnary ==
  ASSUME NEW l, IsLine(l), NEW i \in DOMAIN l.tokens
  PROVE  ReadingOf(l)[From(UnaryOps, i)] = parse_if_unary(ReadingOf(l), l.tokens, l.operands, i)
<1> DEFINE part == From(UnaryOps, i)
<1>1. part \in Parts(l.tokens) /\ part.at = i /\ part.level = UnaryOps /\ UnaryOps # Conditional
  BY DEF Parts, From, Part, Conditional, UnaryOps
<1>2. QED
  BY <1>1, ReadingIs DEF Step, parse_if, ReadingOf

LEMMA ReadsBinary ==
  ASSUME NEW l, IsLine(l), NEW i \in DOMAIN l.tokens, NEW level \in 1 .. 10
  PROVE  ReadingOf(l)[From(level, i)] = Continued(l, level, ReadingOf(l)[From(level + 1, i)])
<1> DEFINE part == From(level, i)
<1>1. /\ part \in Parts(l.tokens) /\ part.at = i /\ part.level = level /\ part.left = {}
      /\ level # UnaryOps /\ level # Conditional
  BY DEF Parts, From, Part, Conditional, UnaryOps
<1>2. ReadingOf(l)[part] = parse_if_binary(ReadingOf(l), level, i)
  BY <1>1, ReadingIs DEF Step, parse_if, ReadingOf
<1>3. QED
  BY <1>2 DEF parse_if_binary, Continued

LEMMA ReadsOperators ==
  ASSUME NEW l, IsLine(l), NEW x, x.st = "ok", NEW i, IsOutcomeOf(x, i, Len(l.tokens)), x.at \in DOMAIN l.tokens,
         NEW level \in 1 .. 10
  PROVE  ReadingOf(l)[Behind(level, x)] = parse_if_operators(ReadingOf(l), l.tokens, level, x)
<1> DEFINE part == Behind(level, x)
<1>1. x.value \in Ints /\ x = Value(x.value, x.at)
  BY DEF IsOutcomeOf, Value
<1>2. /\ part \in Parts(l.tokens) /\ part.at = x.at /\ part.level = level /\ part.left = {x.value}
      /\ level # UnaryOps /\ level # Conditional
  BY <1>1 DEF Parts, Behind, Part, Conditional, UnaryOps
<1>3. part.left # {} /\ (CHOOSE v \in part.left : TRUE) = x.value
  BY <1>2
<1>4. parse_if(ReadingOf(l), l.tokens, l.operands, part)
        = parse_if_operators(ReadingOf(l), l.tokens, level, Value(x.value, x.at))
  BY <1>2, <1>3 DEF parse_if
<1>5. QED
  BY <1>1, <1>2, <1>4, ReadingIs DEF Step, ReadingOf

\* The loop of a level ends where no operator of the level stands.
LEMMA LoopEnds ==
  ASSUME NEW l, IsLine(l), NEW x, NEW i \in DOMAIN l.tokens, IsOutcomeOf(x, i, Len(l.tokens)),
         NEW level \in 1 .. 10, x.st = "ok" => l.tokens[x.at] \notin Levels[level]
  PROVE  Continued(l, level, x) = x
<1>1. CASE x.st # "ok"
  BY <1>1 DEF Continued
<1>2. CASE x.st = "ok"
  <2>1. x.at \in DOMAIN l.tokens
    BY <1>2, LineIs DEF IsOutcomeOf
  <2>2. ReadingOf(l)[Behind(level, x)] = parse_if_operators(ReadingOf(l), l.tokens, level, x)
    BY <1>2, <2>1, ReadsOperators
  <2>3. QED
    BY <1>2, <2>2 DEF Continued, parse_if_operators
<1>3. QED
  BY <1>1, <1>2

\* What a level reads, the looser levels read too, up to the operators that stand behind it.
LEMMA LooserReads ==
  ASSUME NEW l, IsLine(l), NEW x, NEW i \in DOMAIN l.tokens, IsOutcomeOf(x, i, Len(l.tokens)),
         NEW high \in 1 .. 10, NEW low \in 1 .. high,
         ReadingOf(l)[From(high, i)] = Continued(l, high, x),
         x.st = "ok" => \A m \in low + 1 .. high : l.tokens[x.at] \notin Levels[m]
  PROVE  ReadingOf(l)[From(low, i)] = Continued(l, low, x)
<1> DEFINE Bad == {d \in Nat : d <= high - low /\
                     ReadingOf(l)[From(high - d, i)] # Continued(l, high - d, x)}
<1>1. Bad = {}
  <2>1. SUFFICES ASSUME Bad # {} PROVE FALSE
    OBVIOUS
  <2>2. PICK d \in Bad : \A e \in Bad : d <= e
    BY <2>1, LeastOf
  <2>3. d # 0
    BY <2>2
  <2>4. d \in Nat /\ d - 1 \in Nat /\ d - 1 <= high - low /\ d - 1 \notin Bad
    BY <2>2, <2>3
  <2> DEFINE m == high - d
  <2>5. m \in low .. high - 1 /\ m + 1 = high - (d - 1)
    BY <2>2, <2>3
  <2> HIDE DEF m
  <2>6. ReadingOf(l)[From(m + 1, i)] = Continued(l, m + 1, x)
    BY <2>4, <2>5
  <2>7. m + 1 \in low + 1 .. high /\ m + 1 \in 1 .. 10 /\ m \in 1 .. 10
    BY <2>5
  <2>8. Continued(l, m + 1, x) = x
    BY <2>7, LoopEnds
  <2>9. ReadingOf(l)[From(m, i)] = Continued(l, m, x)
    BY <2>6, <2>7, <2>8, ReadsBinary
  <2>10. QED
    BY <2>2, <2>9 DEF m
<1>2. high - low \in Nat /\ high - low \notin Bad /\ high - (high - low) = low
  BY <1>1
<1>3. QED
  BY <1>2

-----------------------------------------------------------------------------
(* What reading makes of a node of a derivation.                           *)

\* The outcome of a node ends with it, and is its value; or a node of the line has none.
FitsNode(l, n, x) ==
  /\ IsOutcomeOf(x, l.nodes[n].first, Len(l.tokens))
  /\ x.st = "ok" => x.at = l.nodes[n].behind /\ l.nodes[n].means \subseteq {x.value}
  /\ x.st # "ok" => \E m \in DOMAIN l.nodes : l.nodes[m].means = {}

\* No operator stands behind a node that would go on with what a level has read of it.
Closed(l, n, level) ==
  LET token == l.tokens[l.nodes[n].behind]
  IN /\ \A m \in level + 1 .. 10 : token \notin Levels[m]
     /\ l.nodes[n].level \in {Equality, Comparison} => token \notin Levels[l.nodes[n].level]

LEMMA ClosedAtOne ==
  ASSUME NEW l, NEW n, \A m \in 1 .. 10 : l.tokens[l.nodes[n].behind] \notin Levels[m]
  PROVE  Closed(l, n, 1)
<1>1. \A m \in 1 + 1 .. 10 : m \in 1 .. 10
  OBVIOUS
<1>2. Equality \in 1 .. 10 /\ Comparison \in 1 .. 10
  BY DEF Equality, Comparison
<1>3. QED
  BY <1>1, <1>2 DEF Closed

\* Levels that derivations have next to each other.
LEMMA AboveConditional ==
  ASSUME NEW level \in 0 .. 12, level > 0
  PROVE  1 \in 1 .. 10 /\ 1 <= level
OBVIOUS

LEMMA ComparingLevels ==
  ASSUME NEW own \in 1 .. 10, NEW level \in {Equality, Comparison},
         own \in {Equality, Comparison} => level > own
  PROVE  level \in 1 .. 10 /\ level # own
BY DEF Equality, Comparison

\* What reads an operand, a level that may stand there, and a conditional.
OperandReads(l, n, x) ==
  l.nodes[n].level >= UnaryOps => ReadingOf(l)[From(UnaryOps, l.nodes[n].first)] = x
LevelReads(l, n, x) ==
  \A level \in 1 .. 10 :
    level <= l.nodes[n].level /\ Closed(l, n, level) =>
      ReadingOf(l)[From(level, l.nodes[n].first)] = Continued(l, level, x)
AllReads(l, n, x) ==
  Closed(l, n, 0) /\ l.tokens[l.nodes[n].behind] # "?" =>
    ReadingOf(l)[From(Conditional, l.nodes[n].first)] = x

ReadsNode(l, n, x) ==
  FitsNode(l, n, x) /\ OperandReads(l, n, x) /\ LevelReads(l, n, x) /\ AllReads(l, n, x)

LEMMA NodeIs ==
  ASSUME NEW l, IsLine(l), IsDerivation(l), NEW n \in DOMAIN l.nodes
  PROVE  /\ l.nodes[n].first \in DOMAIN l.tokens /\ l.nodes[n].behind \in DOMAIN l.tokens
         /\ n \in Nat /\ l.nodes[n].level \in 0 .. 12
<1>1. l.nodes[n].level \in 0 .. 12
  <2>1. IsOperand(l, n) \/ IsParenthesized(l, n) => l.nodes[n].level = 12
    BY DEF IsOperand, IsParenthesized, UnaryOps
  <2>2. IsUnary(l, n) => l.nodes[n].level = 11
    BY DEF IsUnary, UnaryOps
  <2>3. IsBinary(l, n) => l.nodes[n].level \in 1 .. 10
    BY SectionsAreLevels DEF IsBinary
  <2>4. IsConditional(l, n) => l.nodes[n].level = 0
    BY DEF IsConditional, Conditional
  <2>5. QED
    BY <2>1, <2>2, <2>3, <2>4 DEF IsDerivation
<1>2. QED
  BY <1>1 DEF IsDerivation

\* A conditional reads what the loosest operators read, where no ? stands behind it.
LEMMA ConditionalPasses ==
  ASSUME NEW l, IsLine(l), NEW i \in DOMAIN l.tokens, NEW x, IsOutcomeOf(x, i, Len(l.tokens)),
         ReadingOf(l)[From(1, i)] = x, x.st = "ok" => l.tokens[x.at] # "?"
  PROVE  ReadingOf(l)[From(Conditional, i)] = x
BY ReadsConditional DEF parse_if_conditional

\* Once a node is read at its own level, it is read from every place that may ask for it.
LEMMA Lifted ==
  ASSUME NEW l, IsLine(l), IsDerivation(l), NEW n \in DOMAIN l.nodes, NEW x, FitsNode(l, n, x),
         NEW own \in 1 .. 10,
         \/ l.nodes[n].level = own
         \/ own = 10 /\ l.nodes[n].level > 10,
         Closed(l, n, own) =>
           ReadingOf(l)[From(own, l.nodes[n].first)] = Continued(l, own, x),
         OperandReads(l, n, x)
  PROVE  ReadsNode(l, n, x)
<1> DEFINE i == l.nodes[n].first
           token == l.tokens[l.nodes[n].behind]
<1>1. i \in DOMAIN l.tokens /\ IsOutcomeOf(x, i, Len(l.tokens)) /\ l.nodes[n].level \in 0 .. 12
  BY NodeIs DEF FitsNode
<1>2. x.st = "ok" => l.tokens[x.at] = token
  BY DEF FitsNode
<1>3. ASSUME NEW level \in 1 .. 10, level <= own, Closed(l, n, level)
      PROVE  ReadingOf(l)[From(level, i)] = Continued(l, level, x)
  <2>1. level \in 1 .. own /\ Closed(l, n, own)
    BY <1>3 DEF Closed
  <2>2. x.st = "ok" => \A m \in level + 1 .. own : l.tokens[x.at] \notin Levels[m]
    BY <1>2, <1>3 DEF Closed
  <2>3. ReadingOf(l)[From(own, i)] = Continued(l, own, x)
    BY <2>1
  <2> HIDE DEF i, token
  <2>4. /\ i \in DOMAIN l.tokens /\ IsOutcomeOf(x, i, Len(l.tokens))
        /\ own \in 1 .. 10 /\ level \in 1 .. own
    BY <1>1, <2>1
  <2>5. QED
    BY <2>2, <2>3, <2>4, LooserReads, SMTT(40)
<1>4. LevelReads(l, n, x)
  <2>1. ASSUME NEW level \in 1 .. 10, level <= l.nodes[n].level PROVE level <= own
    BY <1>1, <2>1
  <2>2. QED
    BY <1>3, <2>1 DEF LevelReads
<1>5. ASSUME Closed(l, n, 0), token # "?"
      PROVE  ReadingOf(l)[From(Conditional, i)] = x
  <2>1. Closed(l, n, 1) /\ token \notin Levels[1]
    BY <1>5 DEF Closed
  <2>2. ReadingOf(l)[From(1, i)] = Continued(l, 1, x)
    BY <1>3, <2>1
  <2>3. Continued(l, 1, x) = x
    <3>1. x.st = "ok" => l.tokens[x.at] \notin Levels[1]
      BY <1>2, <2>1
    <3>2. \A level \in 1 .. 10 :
            (x.st = "ok" => l.tokens[x.at] \notin Levels[level]) => Continued(l, level, x) = x
      BY <1>1, LoopEnds
    <3>3. QED
      BY <3>1, <3>2
  <2>4. QED
    BY <1>1, <1>2, <1>5, <2>2, <2>3, ConditionalPasses
<1>6. QED
  BY <1>4, <1>5 DEF ReadsNode, AllReads

\* So is an operand, a parenthesis or a unary operator.
LEMMA LiftedOperand ==
  ASSUME NEW l, IsLine(l), IsDerivation(l), NEW n \in DOMAIN l.nodes, NEW x, FitsNode(l, n, x),
         l.nodes[n].level >= UnaryOps, ReadingOf(l)[From(UnaryOps, l.nodes[n].first)] = x
  PROVE  ReadsNode(l, n, x)
<1>1. l.nodes[n].first \in DOMAIN l.tokens /\ l.nodes[n].level > 10 /\ UnaryOps = 11
  BY NodeIs DEF UnaryOps
<1>2. ReadingOf(l)[From(10, l.nodes[n].first)] = Continued(l, 10, x)
  BY <1>1, ReadsBinary
<1>3. OperandReads(l, n, x)
  BY DEF OperandReads
<1>4. QED
  BY <1>1, <1>2, <1>3, Lifted

-----------------------------------------------------------------------------
(* One node after the other.                                               *)

LEMMA OperandIsRead ==
  ASSUME NEW l, IsLine(l), IsDerivation(l), NEW n \in DOMAIN l.nodes, IsOperand(l, n)
  PROVE  \E x : ReadsNode(l, n, x)
<1> DEFINE i == l.nodes[n].first
           x == l.operands[i]
<1>1. i \in DOMAIN l.tokens /\ IsOutcomeOf(x, i, Len(l.tokens))
  BY NodeIs DEF IsLine
<1>2. l.tokens[i] \notin PrefixOps /\ l.tokens[i] # "(" /\ l.nodes[n].level >= UnaryOps
  BY DEF IsOperand, UnaryOps
<1>3. FitsNode(l, n, x)
  <2>1. x.st = "ok" => l.nodes[n].behind = x.at /\ l.nodes[n].means \subseteq {x.value}
    BY DEF IsOperand
  <2>2. x.st # "ok" => l.nodes[n].means = {}
    BY DEF IsOperand
  <2>3. QED
    BY <1>1, <2>1, <2>2 DEF FitsNode
<1>4. ReadingOf(l)[From(UnaryOps, i)] = x
  BY <1>1, <1>2, ReadsUnary DEF parse_if_unary, parse_if_primary
<1>5. QED
  BY <1>2, <1>3, <1>4, LiftedOperand

\* An operand that is read in front of another token than an operator or ?.
LEMMA ReadToToken ==
  ASSUME NEW l, IsLine(l), IsDerivation(l), NEW n \in DOMAIN l.nodes, NEW x, ReadsNode(l, n, x),
         l.tokens[l.nodes[n].behind] \in {":", ")", EndOfLine}
  PROVE  ReadingOf(l)[From(Conditional, l.nodes[n].first)] = x
<1>1. l.tokens[l.nodes[n].behind] # "?"
  BY EndIsNoOperator
<1>2. Closed(l, n, 0)
  BY NoLevelHas DEF Closed, Equality, Comparison
<1>3. QED
  BY <1>1, <1>2 DEF ReadsNode, AllReads

LEMMA ParenthesizedIsRead ==
  ASSUME NEW l, IsLine(l), IsDerivation(l), NEW n \in DOMAIN l.nodes, IsParenthesized(l, n),
         NEW k \in DOMAIN l.nodes, k = l.nodes[n].kids[1], NEW y, ReadsNode(l, k, y)
  PROVE  \E x : ReadsNode(l, n, x)
<1> DEFINE i == l.nodes[n].first
           x == IF y.st # "ok" THEN y ELSE Value(y.value, y.at + 1)
<1>1. /\ l.nodes[n].level >= UnaryOps /\ l.tokens[i] = "(" /\ l.nodes[k].first = i + 1
      /\ l.tokens[l.nodes[k].behind] = ")" /\ l.nodes[n].behind = l.nodes[k].behind + 1
      /\ l.nodes[n].means \subseteq l.nodes[k].means
  BY DEF IsParenthesized, Kid, UnaryOps
<1>2. i \in 1 .. Len(l.tokens) /\ Len(l.tokens) \in Nat /\ i \in DOMAIN l.tokens /\ l.nodes[k].behind \in DOMAIN l.tokens
  BY NodeIs, LineIs
<1>3. FitsNode(l, k, y) /\ ReadingOf(l)[From(Conditional, i + 1)] = y
  BY <1>1, ReadToToken DEF ReadsNode
<1>4. IsOutcomeOf(y, i + 1, Len(l.tokens)) /\ (y.st = "ok" => y.at = l.nodes[k].behind)
  BY <1>1, <1>3 DEF FitsNode
<1>5. ReadingOf(l)[From(UnaryOps, i)] = x
  <2>1. l.tokens[i] \notin PrefixOps
    BY <1>1 DEF PrefixOps
  <2>2. QED
    BY <1>1, <1>2, <1>3, <1>4, <2>1, ReadsUnary DEF parse_if_unary, parse_if_primary
<1>6. FitsNode(l, n, x)
  <2>1. CASE y.st # "ok"
    <3>1. IsOutcomeOf(y, i, Len(l.tokens))
      BY <1>4, <2>1 DEF IsOutcomeOf
    <3>2. QED
      BY <1>3, <2>1, <3>1 DEF FitsNode
  <2>2. CASE y.st = "ok"
    <3>1. y.at \in i + 2 .. Len(l.tokens) /\ y.value \in Ints /\ y.at = l.nodes[k].behind
      BY <1>2, <1>4, <2>2 DEF IsOutcomeOf
    <3>2. y.at + 1 \in DOMAIN l.tokens
      BY <1>1, <1>2, <3>1, LineIs
    <3>3. y.at + 1 \in i + 1 .. Len(l.tokens)
      BY <1>2, <3>1, <3>2, LineIs, SMTT(40)
    <3>4. IsOutcomeOf(Value(y.value, y.at + 1), i, Len(l.tokens))
      BY <3>1, <3>3, ValueFits
    <3>5. /\ x = Value(y.value, y.at + 1) /\ x.st = "ok" /\ x.value = y.value
          /\ x.at = l.nodes[n].behind
      BY <1>1, <2>2, <3>1 DEF Value, Outcome
    <3>6. l.nodes[n].means \subseteq {y.value}
      BY <1>1, <1>3, <2>2 DEF FitsNode
    <3>7. QED
      BY <3>4, <3>5, <3>6 DEF FitsNode
  <2>3. QED
    BY <2>1, <2>2
<1>7. QED
  BY <1>1, <1>5, <1>6, LiftedOperand

LEMMA UnaryIsRead ==
  ASSUME NEW l, IsLine(l), IsDerivation(l), NEW n \in DOMAIN l.nodes, IsUnary(l, n),
         NEW k \in DOMAIN l.nodes, k = l.nodes[n].kids[1], NEW y, ReadsNode(l, k, y)
  PROVE  \E x : ReadsNode(l, n, x)
<1> DEFINE i == l.nodes[n].first
           x == IF y.st # "ok" THEN y ELSE Value(ComputedUnary(l.tokens[i], y.value), y.at)
<1>1. /\ l.nodes[n].level >= UnaryOps /\ l.tokens[i] \in PrefixOps /\ l.nodes[k].first = i + 1
      /\ l.nodes[k].level >= UnaryOps /\ l.nodes[n].behind = l.nodes[k].behind
      /\ l.nodes[n].means \subseteq {ComputedUnary(l.tokens[i], a) : a \in l.nodes[k].means}
  BY DEF IsUnary, Kid, UnaryOps
<1>2. i \in 1 .. Len(l.tokens) /\ Len(l.tokens) \in Nat /\ i \in DOMAIN l.tokens
  BY NodeIs, LineIs
<1>3. FitsNode(l, k, y) /\ ReadingOf(l)[From(UnaryOps, i + 1)] = y
  BY <1>1 DEF ReadsNode, OperandReads
<1>4. IsOutcomeOf(y, i, Len(l.tokens))
  <2>1. IsOutcomeOf(y, i + 1, Len(l.tokens))
    BY <1>1, <1>3 DEF FitsNode
  <2>2. QED
    BY <1>2, <2>1, EndsEarlier
<1>5. ReadingOf(l)[From(UnaryOps, i)] = x
  BY <1>1, <1>2, <1>3, ReadsUnary DEF parse_if_unary
<1>6. FitsNode(l, n, x)
  <2>1. CASE y.st # "ok"
    BY <1>3, <1>4, <2>1 DEF FitsNode
  <2>2. CASE y.st = "ok"
    <3>1. y.at \in i + 1 .. Len(l.tokens) /\ y.value \in Ints /\ y.at = l.nodes[k].behind
      BY <1>3, <1>4, <2>2 DEF IsOutcomeOf, FitsNode
    <3>2. ComputedUnary(l.tokens[i], y.value) \in Ints
      BY <1>1, <3>1, ArithmeticAssumption
    <3>3. IsOutcomeOf(Value(ComputedUnary(l.tokens[i], y.value), y.at), i, Len(l.tokens))
      BY <3>1, <3>2, ValueFits
    <3>4. /\ x = Value(ComputedUnary(l.tokens[i], y.value), y.at) /\ x.st = "ok"
          /\ x.value = ComputedUnary(l.tokens[i], y.value) /\ x.at = l.nodes[n].behind
      BY <1>1, <2>2, <3>1 DEF Value, Outcome
    <3>5. l.nodes[k].means \subseteq {y.value}
      BY <1>3, <2>2 DEF FitsNode
    <3>6. l.nodes[n].means \subseteq {ComputedUnary(l.tokens[i], y.value)}
      BY <1>1, <3>5
    <3>7. QED
      BY <3>3, <3>4, <3>6 DEF FitsNode
  <2>3. QED
    BY <2>1, <2>2
<1>7. QED
  BY <1>1, <1>5, <1>6, LiftedOperand

\* What operands of one value each mean together.
LEMMA MeansOne ==
  ASSUME NEW op, NEW u, NEW v, NEW A, A \subseteq {u}, NEW B, B \subseteq {v}
  PROVE  /\ Means(op, A, B) \subseteq {Combined(op, u, v)}
         /\ Ends(op, u, v) # "ok" => Means(op, A, B) = {}
<1>1. CASE op = "||"
  <2>1. Means(op, A, B) = UNION {IF a # 0 THEN {1} ELSE {IF b # 0 THEN 1 ELSE 0 : b \in B} : a \in A}
    BY <1>1 DEF Means
  <2>2. QED
    BY <1>1, <2>1 DEF Combined, Ends
<1>2. CASE op = "&&"
  <2>1. Means(op, A, B) = UNION {IF a # 0 THEN {IF b # 0 THEN 1 ELSE 0 : b \in B} ELSE {0} : a \in A}
    BY <1>2 DEF Means
  <2>2. QED
    BY <1>2, <2>1 DEF Combined, Ends
<1>3. CASE op \notin {"||", "&&"}
  <2>1. Means(op, A, B) = {Computed(op, p[1], p[2]) : p \in {q \in A \X B : Refused(op, q[1], q[2]) = "ok"}}
    BY <1>3 DEF Means
  <2>2. \A p \in A \X B : p[1] = u /\ p[2] = v
    OBVIOUS
  <2>3. QED
    BY <1>3, <2>1, <2>2 DEF Combined, Ends
<1>4. QED
  BY <1>1, <1>2, <1>3

LEMMA BinaryFitsNode ==
  ASSUME NEW l, IsLine(l), IsDerivation(l), NEW n \in DOMAIN l.nodes, IsBinary(l, n),
         NEW a \in DOMAIN l.nodes, a = l.nodes[n].kids[1], NEW b \in DOMAIN l.nodes, b = l.nodes[n].kids[2],
         NEW y, FitsNode(l, a, y), NEW z, FitsNode(l, b, z)
  PROVE  FitsNode(l, n, IF y.st # "ok" THEN y ELSE Operated(l.tokens[l.nodes[a].behind], y, z))
<1> DEFINE i == l.nodes[n].first
           op == l.tokens[l.nodes[a].behind]
           len == Len(l.tokens)
<1>1. /\ l.nodes[n].level \in 1 .. 10 /\ op \in Sections[11 - l.nodes[n].level]
      /\ l.nodes[a].first = i /\ l.nodes[b].first = l.nodes[a].behind + 1
      /\ l.nodes[n].behind = l.nodes[b].behind
      /\ l.nodes[n].means \subseteq Means(op, l.nodes[a].means, l.nodes[b].means)
  BY SectionsAreLevels DEF IsBinary, Kid, UnaryOps
<1>2. op \in BinaryOps
  BY <1>1, SectionsAreLevels, ZenonT(40) DEF BinaryOps
<1>3. i \in Int /\ len \in Int
  <2>1. l.nodes[n].first \in DOMAIN l.tokens
    BY NodeIs
  <2>2. DOMAIN l.tokens = 1 .. Len(l.tokens) /\ Len(l.tokens) \in Nat
    BY LineIs
  <2>3. QED
    BY <2>1, <2>2
<1>4. IsOutcomeOf(y, i, len)
  BY <1>1 DEF FitsNode
<1> HIDE DEF i, op, len
<1>5. CASE y.st # "ok"
  BY <1>4, <1>5 DEF FitsNode, i, len
<1>6. CASE y.st = "ok"
  <2> DEFINE x == Operated(op, y, z)
  <2>1. y.at = l.nodes[a].behind /\ y.at \in i + 1 .. len /\ y.value \in Ints
    BY <1>4, <1>6 DEF FitsNode, IsOutcomeOf
  <2>2. IsOutcomeOf(z, y.at + 1, len)
    BY <1>1, <2>1 DEF FitsNode, len
  <2>3. IsOutcomeOf(z, i, len)
    BY <1>3, <2>1, <2>2, EndsEarlier
  <2>4. IsOutcomeOf(x, i, len)
    BY <1>2, <2>1, <2>3, OperatedFits
  <2>5. CASE z.st # "ok"
    <3>1. x = z
      BY <2>5 DEF Operated
    <3>2. \E m \in DOMAIN l.nodes : l.nodes[m].means = {}
      BY <2>5 DEF FitsNode
    <3>3. FitsNode(l, n, x)
      BY <2>4, <2>5, <3>1, <3>2 DEF FitsNode, i, len
    <3>4. QED
      BY <1>6, <3>3 DEF op
  <2>6. CASE z.st = "ok"
    <3>1. l.nodes[a].means \subseteq {y.value} /\ l.nodes[b].means \subseteq {z.value} /\ z.at = l.nodes[n].behind
      BY <1>1, <1>6, <2>6 DEF FitsNode
    <3>2. /\ l.nodes[n].means \subseteq {Combined(op, y.value, z.value)}
          /\ Ends(op, y.value, z.value) # "ok" => l.nodes[n].means = {}
      <4> DEFINE meant == Means(op, l.nodes[a].means, l.nodes[b].means)
      <4>1. /\ meant \subseteq {Combined(op, y.value, z.value)}
            /\ Ends(op, y.value, z.value) # "ok" => meant = {}
        BY <3>1, MeansOne
      <4>2. l.nodes[n].means \subseteq meant
        BY <1>1
      <4> HIDE DEF meant
      <4>3. QED
        BY <4>1, <4>2
    <3>3. CASE Ends(op, y.value, z.value) # "ok"
      <4>1. x.st # "ok"
        BY <2>6, <3>3 DEF Operated, Failed, Outcome
      <4>2. FitsNode(l, n, x)
        BY <2>4, <3>2, <3>3, <4>1 DEF FitsNode, i, len
      <4>3. QED
        BY <1>6, <4>2 DEF op
    <3>4. CASE Ends(op, y.value, z.value) = "ok"
      <4>1. x.st = "ok" /\ x.value = Combined(op, y.value, z.value) /\ x.at = z.at
        BY <2>6, <3>4 DEF Operated, Value, Outcome
      <4>2. FitsNode(l, n, x)
        <5> HIDE DEF x
        <5>1. QED
          BY <2>4, <3>1, <3>2, <4>1 DEF FitsNode, i, len
      <4>3. QED
        BY <1>6, <4>2 DEF op
    <3>5. QED
      BY <3>3, <3>4
  <2>7. QED
    BY <2>5, <2>6
<1>7. QED
  BY <1>5, <1>6

\* A level above own is at or above each of the two that an operand at the right may start on.
LEMMA NextLevel ==
  ASSUME NEW own \in 1 .. 10, NEW level \in 0 .. 12, level > own
  PROVE  own \in own .. own + 1 /\ own + 1 \in own .. own + 1 /\ own <= level /\ own + 1 <= level
OBVIOUS

\* The right operand of an operator is read up to what stands behind it.
LEMMA RightIsRead ==
  ASSUME NEW l, IsLine(l), IsDerivation(l), NEW own \in 1 .. 10,
         NEW b \in DOMAIN l.nodes, l.nodes[b].level > own, NEW z, ReadsNode(l, b, z),
         \A m \in own + 1 .. 10 : l.tokens[l.nodes[b].behind] \notin Levels[m],
         own \in {Equality, Comparison} => l.tokens[l.nodes[b].behind] \notin Levels[own]
  PROVE  ReadingOf(l)[From(RightLevel(own), l.nodes[b].first)] = z
<1> DEFINE i == l.nodes[b].first
           token == l.tokens[l.nodes[b].behind]
<1>1. i \in DOMAIN l.tokens /\ IsOutcomeOf(z, i, Len(l.tokens)) /\ l.nodes[b].level \in 0 .. 12
  BY NodeIs DEF ReadsNode, FitsNode
<1>2. z.st = "ok" => l.tokens[z.at] = token
  BY DEF ReadsNode, FitsNode
<1>3. ASSUME NEW level \in 1 .. 10, level \in own .. own + 1, level <= l.nodes[b].level, token \notin Levels[level]
      PROVE  ReadingOf(l)[From(level, i)] = z
  <2>1. Closed(l, b, level)
    <3>1. \A m \in level + 1 .. 10 : token \notin Levels[m]
      BY <1>3
    <3>2. l.nodes[b].level \in {Equality, Comparison} => l.nodes[b].level \in own + 1 .. 10
      BY <1>1 DEF Equality, Comparison
    <3>3. QED
      BY <3>1, <3>2 DEF Closed
  <2>2. ReadingOf(l)[From(level, i)] = Continued(l, level, z)
    BY <1>3, <2>1 DEF ReadsNode, LevelReads
  <2>3. z.st = "ok" => l.tokens[z.at] \notin Levels[level]
    BY <1>2, <1>3
  <2> HIDE DEF i
  <2>4. Continued(l, level, z) = z
    BY <1>1, <2>3, LoopEnds
  <2>5. QED
    BY <2>2, <2>4
<1>4. CASE own = 6
  <2>1. RightLevel(own) = own
    BY <1>4 DEF RightLevel, Equality
  <2>2. token \notin Levels[own]
    BY <1>4 DEF Equality
  <2>3. own \in 1 .. 10 /\ own \in own .. own + 1 /\ own <= l.nodes[b].level
    BY <1>1, NextLevel
  <2> HIDE DEF i, token
  <2>4. ReadingOf(l)[From(own, i)] = z
    BY <1>3, <2>2, <2>3
  <2>5. QED
    BY <2>1, <2>4 DEF i
<1>5. CASE own = 10
  <2>1. RightLevel(own) = UnaryOps /\ l.nodes[b].level >= UnaryOps
    BY <1>1, <1>5 DEF RightLevel, Equality, UnaryOps
  <2>2. QED
    BY <2>1 DEF ReadsNode, OperandReads
<1>6. CASE own \notin {6, 10}
  <2>1. RightLevel(own) = own + 1 /\ own + 1 \in 1 .. 10 /\ own + 1 <= l.nodes[b].level
    BY <1>1, <1>6 DEF RightLevel, Equality
  <2>2. token \notin Levels[own + 1]
    BY <2>1
  <2>3. QED
    BY <1>3, <2>1, <2>2
<1>7. QED
  BY <1>4, <1>5, <1>6

LEMMA BinaryIsRead ==
  ASSUME NEW l, IsLine(l), IsDerivation(l), NoRows(l), NEW n \in DOMAIN l.nodes, IsBinary(l, n),
         NEW a \in DOMAIN l.nodes, a = l.nodes[n].kids[1], NEW b \in DOMAIN l.nodes, b = l.nodes[n].kids[2],
         NEW y, ReadsNode(l, a, y), NEW z, ReadsNode(l, b, z)
  PROVE  \E x : ReadsNode(l, n, x)
<1> DEFINE i == l.nodes[n].first
           own == l.nodes[n].level
           op == l.tokens[l.nodes[a].behind]
           token == l.tokens[l.nodes[n].behind]
           x == IF y.st # "ok" THEN y ELSE Operated(op, y, z)
<1>1. /\ own \in 1 .. 10 /\ op \in Levels[own]
      /\ l.nodes[a].first = i /\ l.nodes[a].level >= own
      /\ l.nodes[b].first = l.nodes[a].behind + 1 /\ l.nodes[b].level > own
      /\ l.nodes[n].behind = l.nodes[b].behind
  BY SectionsAreLevels DEF IsBinary, Kid, UnaryOps
<1>2. own \in {Equality, Comparison} => l.nodes[a].level > own
  BY DEF NoRows, IsBinary, Kid
<1>3. l.nodes[a].level \in 0 .. 12 /\ i \in DOMAIN l.tokens /\ l.nodes[a].behind \in DOMAIN l.tokens
  BY NodeIs
<1>4. Closed(l, a, own)
  <2>1. ASSUME NEW m \in own + 1 .. 10 PROVE op \notin Levels[m]
    <3>1. m \in 1 .. 10 /\ m # own /\ own \in 1 .. 10 /\ op \in Levels[own]
      BY <1>1
    <3> HIDE DEF own, op
    <3>2. QED
      BY <3>1, LevelsApart
  <2>2. ASSUME l.nodes[a].level \in {Equality, Comparison} PROVE op \notin Levels[l.nodes[a].level]
    <3>1. l.nodes[a].level \in 1 .. 10 /\ l.nodes[a].level # own
      BY <1>1, <1>2, <2>2, ComparingLevels
    <3>2. QED
      BY <1>1, <3>1, LevelsApart
  <2>3. QED
    BY <2>1, <2>2 DEF Closed
<1>5. ReadingOf(l)[From(own, i)] = Continued(l, own, y)
  BY <1>1, <1>4 DEF ReadsNode, LevelReads
<1>6. FitsNode(l, a, y) /\ FitsNode(l, b, z)
  BY DEF ReadsNode
<1>7. FitsNode(l, n, x)
  BY <1>6, BinaryFitsNode
<1>8. ASSUME Closed(l, n, own) PROVE ReadingOf(l)[From(own, i)] = Continued(l, own, x)
  <2>1. CASE y.st # "ok"
    BY <1>5, <2>1
  <2>2. CASE y.st = "ok"
    <3>1. y.at = l.nodes[a].behind /\ IsOutcomeOf(y, i, Len(l.tokens))
      BY <1>1, <1>6, <2>2 DEF FitsNode
    <3>2. Continued(l, own, y) = parse_if_operators(ReadingOf(l), l.tokens, own, y)
      BY <1>1, <1>3, <2>2, <3>1, ReadsOperators DEF Continued
    <3>3. /\ \A m \in own + 1 .. 10 : token \notin Levels[m]
          /\ own \in {Equality, Comparison} => token \notin Levels[own]
      BY <1>8 DEF Closed
    <3>4. ReadingOf(l)[From(RightLevel(own), y.at + 1)] = z
      <4>1. own \in 1 .. 10 /\ l.nodes[b].level > own /\ token = l.tokens[l.nodes[b].behind]
        BY <1>1
      <4>2. l.nodes[b].first = y.at + 1
        BY <1>1, <3>1
      <4> HIDE DEF own, token
      <4>3. ReadingOf(l)[From(RightLevel(own), l.nodes[b].first)] = z
        <5>1. ReadsNode(l, b, z) /\ \A m \in own + 1 .. 10 : l.tokens[l.nodes[b].behind] \notin Levels[m]
          BY <3>3, <4>1
        <5>2. own \in {Equality, Comparison} => l.tokens[l.nodes[b].behind] \notin Levels[own]
          BY <3>3, <4>1
        <5>3. QED
          BY <4>1, <5>1, <5>2, RightIsRead, Zenon
      <4>4. QED
        BY <4>2, <4>3
    <3>5. parse_if_operators(ReadingOf(l), l.tokens, own, y)
            = IF x.st # "ok" \/ own \in {Equality, Comparison} THEN x
              ELSE ReadingOf(l)[Behind(own, x)]
      BY <1>1, <2>2, <3>1, <3>4 DEF parse_if_operators
    <3>6. IsOutcomeOf(x, i, Len(l.tokens)) /\ (x.st = "ok" => l.tokens[x.at] = token)
      BY <1>7 DEF FitsNode
    <3> HIDE DEF x, i, token, own
    <3>7. CASE own \in {Equality, Comparison}
      <4>1. x.st = "ok" => l.tokens[x.at] \notin Levels[own]
        BY <3>3, <3>6, <3>7
      <4>2. Continued(l, own, x) = x
        BY <1>1, <1>3, <3>6, <4>1, LoopEnds
      <4>3. QED
        BY <1>5, <3>2, <3>5, <3>7, <4>2
    <3>8. CASE own \notin {Equality, Comparison}
      BY <1>5, <3>2, <3>5, <3>8 DEF Continued
    <3>9. QED
      BY <3>7, <3>8
  <2>3. QED
    BY <2>1, <2>2
<1>9. OperandReads(l, n, x)
  <2>1. ~(l.nodes[n].level >= UnaryOps)
    BY <1>1 DEF UnaryOps
  <2> HIDE DEF x
  <2>2. QED
    BY <2>1 DEF OperandReads
<1>10. ReadsNode(l, n, x)
  <2> HIDE DEF x
  <2>1. QED
    BY <1>1, <1>7, <1>8, <1>9, Lifted
<1>11. QED
  BY <1>10

LEMMA ConditionalFitsNode ==
  ASSUME NEW l, IsLine(l), IsDerivation(l), NEW n \in DOMAIN l.nodes, IsConditional(l, n),
         NEW a \in DOMAIN l.nodes, a = l.nodes[n].kids[1], NEW b \in DOMAIN l.nodes, b = l.nodes[n].kids[2],
         NEW c \in DOMAIN l.nodes, c = l.nodes[n].kids[3],
         NEW y, FitsNode(l, a, y), NEW z, FitsNode(l, b, z), NEW w, FitsNode(l, c, w)
  PROVE  FitsNode(l, n, IF y.st # "ok" THEN y ELSE IF z.st # "ok" THEN z ELSE IF w.st # "ok" THEN w
                        ELSE Value(IF y.value # 0 THEN z.value ELSE w.value, w.at))
<1> DEFINE i == l.nodes[n].first
           len == Len(l.tokens)
<1>1. /\ l.nodes[a].first = i /\ l.nodes[b].first = l.nodes[a].behind + 1
      /\ l.nodes[c].first = l.nodes[b].behind + 1 /\ l.nodes[n].behind = l.nodes[c].behind
      /\ l.nodes[n].means \subseteq
           UNION {IF v # 0 THEN l.nodes[b].means ELSE l.nodes[c].means : v \in l.nodes[a].means}
  BY DEF IsConditional, Kid
<1>2. i \in Int /\ len \in Int
  <2>1. l.nodes[n].first \in DOMAIN l.tokens
    BY NodeIs
  <2>2. DOMAIN l.tokens = 1 .. Len(l.tokens) /\ Len(l.tokens) \in Nat
    BY LineIs
  <2>3. QED
    BY <2>1, <2>2
<1>3. IsOutcomeOf(y, i, len)
  BY <1>1 DEF FitsNode
<1> HIDE DEF i, len
<1>4. CASE y.st # "ok"
  BY <1>3, <1>4 DEF FitsNode, i, len
<1>5. CASE y.st = "ok"
  <2>1. y.at = l.nodes[a].behind /\ y.at \in i + 1 .. len /\ y.value \in Ints
    BY <1>3, <1>5 DEF FitsNode, IsOutcomeOf
  <2>2. IsOutcomeOf(z, y.at + 1, len)
    BY <1>1, <2>1 DEF FitsNode, len
  <2>3. IsOutcomeOf(z, i, len)
    BY <1>2, <2>1, <2>2, EndsEarlier
  <2>4. CASE z.st # "ok"
    BY <1>5, <2>3, <2>4 DEF FitsNode, i, len
  <2>5. CASE z.st = "ok"
    <3>1. z.at = l.nodes[b].behind /\ z.at \in i + 1 .. len /\ z.value \in Ints
      BY <2>3, <2>5 DEF FitsNode, IsOutcomeOf
    <3>2. IsOutcomeOf(w, z.at + 1, len)
      BY <1>1, <3>1 DEF FitsNode, len
    <3>3. IsOutcomeOf(w, i, len)
      BY <1>2, <3>1, <3>2, EndsEarlier
    <3>4. CASE w.st # "ok"
      BY <1>5, <2>5, <3>3, <3>4 DEF FitsNode, i, len
    <3>5. CASE w.st = "ok"
      <4> DEFINE value == IF y.value # 0 THEN z.value ELSE w.value
                 x == Value(value, w.at)
      <4>1. w.at = l.nodes[n].behind /\ w.at \in i + 1 .. len /\ value \in Ints
        BY <1>1, <3>1, <3>3, <3>5 DEF FitsNode, IsOutcomeOf
      <4>2. IsOutcomeOf(x, i, len)
        BY <4>1, ValueFits
      <4>3. x.st = "ok" /\ x.value = value /\ x.at = l.nodes[n].behind
        BY <4>1 DEF Value, Outcome
      <4>4. /\ l.nodes[a].means \subseteq {y.value} /\ l.nodes[b].means \subseteq {z.value}
            /\ l.nodes[c].means \subseteq {w.value}
        BY <1>5, <2>5, <3>5 DEF FitsNode
      <4>5. l.nodes[n].means \subseteq {value}
        <5>1. ASSUME NEW v \in l.nodes[a].means
              PROVE  (IF v # 0 THEN l.nodes[b].means ELSE l.nodes[c].means) \subseteq {value}
          BY <4>4
        <5> HIDE DEF value
        <5>2. QED
          BY <1>1, <5>1
      <4>6. FitsNode(l, n, x)
        <5> HIDE DEF x
        <5>1. QED
          BY <4>2, <4>3, <4>5 DEF FitsNode, i, len
      <4>7. QED
        BY <1>5, <2>5, <3>5, <4>6
    <3>6. QED
      BY <3>4, <3>5
  <2>6. QED
    BY <2>4, <2>5
<1>6. QED
  BY <1>4, <1>5

LEMMA ConditionalIsRead ==
  ASSUME NEW l, IsLine(l), IsDerivation(l), NEW n \in DOMAIN l.nodes, IsConditional(l, n),
         NEW a \in DOMAIN l.nodes, a = l.nodes[n].kids[1], NEW b \in DOMAIN l.nodes, b = l.nodes[n].kids[2],
         NEW c \in DOMAIN l.nodes, c = l.nodes[n].kids[3],
         NEW y, ReadsNode(l, a, y), NEW z, ReadsNode(l, b, z), NEW w, ReadsNode(l, c, w)
  PROVE  \E x : ReadsNode(l, n, x)
<1> DEFINE i == l.nodes[n].first
           x == IF y.st # "ok" THEN y ELSE IF z.st # "ok" THEN z ELSE IF w.st # "ok" THEN w
                ELSE Value(IF y.value # 0 THEN z.value ELSE w.value, w.at)
<1>1. /\ l.nodes[n].level = 0 /\ l.nodes[a].first = i /\ l.nodes[a].level > 0
      /\ l.tokens[l.nodes[a].behind] = "?" /\ l.nodes[b].first = l.nodes[a].behind + 1
      /\ l.tokens[l.nodes[b].behind] = ":" /\ l.nodes[c].first = l.nodes[b].behind + 1
      /\ l.nodes[n].behind = l.nodes[c].behind
  BY DEF IsConditional, Kid, Conditional
<1>2. FitsNode(l, a, y) /\ FitsNode(l, b, z) /\ FitsNode(l, c, w)
  BY DEF ReadsNode
<1>3. FitsNode(l, n, x)
  BY <1>2, ConditionalFitsNode, SMTT(40)
<1>4. i \in DOMAIN l.tokens /\ l.nodes[a].level \in 0 .. 12 /\ l.nodes[c].level \in 0 .. 12
  BY NodeIs
<1>5. ReadingOf(l)[From(1, i)] = y
  <2>1. Closed(l, a, 1)
    <3>1. \A m \in 1 .. 10 : l.tokens[l.nodes[a].behind] \notin Levels[m]
      BY <1>1, NoLevelHas
    <3>2. QED
      BY <3>1, ClosedAtOne
  <2>2. 1 \in 1 .. 10 /\ 1 <= l.nodes[a].level
    BY <1>1, <1>4, AboveConditional
  <2>3. ReadingOf(l)[From(1, i)] = Continued(l, 1, y)
    BY <1>1, <2>1, <2>2 DEF ReadsNode, LevelReads
  <2>4. IsOutcomeOf(y, i, Len(l.tokens)) /\ (y.st = "ok" => l.tokens[y.at] = "?")
    BY <1>1, <1>2 DEF FitsNode
  <2> HIDE DEF i
  <2>5. ASSUME NEW level \in 1 .. 10 PROVE Continued(l, level, y) = y
    <3>1. y.st = "ok" => l.tokens[y.at] \notin Levels[level]
      BY <2>4, NoLevelHas
    <3>2. QED
      BY <1>4, <2>4, <3>1, LoopEnds
  <2>6. QED
    BY <2>3, <2>5
<1>6. ReadingOf(l)[From(Conditional, l.nodes[b].first)] = z
  BY <1>1, ReadToToken
<1>7. ASSUME Closed(l, n, 0), l.tokens[l.nodes[n].behind] # "?"
      PROVE  ReadingOf(l)[From(Conditional, i)] = x
  <2>1. Closed(l, c, 0)
    <3>1. \A m \in 0 + 1 .. 10 : l.tokens[l.nodes[c].behind] \notin Levels[m]
      BY <1>1, <1>7 DEF Closed
    <3>2. l.nodes[c].level \in {Equality, Comparison} => l.nodes[c].level \in 0 + 1 .. 10
      BY DEF Equality, Comparison
    <3>3. QED
      BY <3>1, <3>2 DEF Closed
  <2>2. ReadingOf(l)[From(Conditional, l.nodes[c].first)] = w
    BY <1>1, <1>7, <2>1 DEF ReadsNode, AllReads
  <2>3. /\ y.st = "ok" => y.at = l.nodes[a].behind
        /\ z.st = "ok" => z.at = l.nodes[b].behind
    BY <1>2 DEF FitsNode
  <2>4. ReadingOf(l)[From(Conditional, i)] = parse_if_conditional(ReadingOf(l), l.tokens, i)
    BY <1>4, ReadsConditional
  <2>5. parse_if_conditional(ReadingOf(l), l.tokens, i) = x
    <3>1. CASE y.st # "ok"
      BY <1>5, <3>1 DEF parse_if_conditional
    <3>2. CASE y.st = "ok"
      <4>1. l.tokens[y.at] = "?" /\ ReadingOf(l)[From(Conditional, y.at + 1)] = z
        BY <1>1, <1>6, <2>3, <3>2
      <4>2. z.st = "ok" => l.tokens[z.at] = ":" /\ ReadingOf(l)[From(Conditional, z.at + 1)] = w
        BY <1>1, <2>2, <2>3
      <4> HIDE DEF i
      <4>3. QED
        BY <1>5, <3>2, <4>1, <4>2 DEF parse_if_conditional
    <3>3. QED
      BY <3>1, <3>2
  <2>6. QED
    BY <2>4, <2>5
<1>8. OperandReads(l, n, x) /\ LevelReads(l, n, x)
  <2> HIDE DEF x
  <2>1. l.nodes[n].level = 0
    BY <1>1
  <2>2. OperandReads(l, n, x)
    <3>1. ~(l.nodes[n].level >= UnaryOps)
      BY <2>1 DEF UnaryOps
    <3>2. QED
      BY <3>1 DEF OperandReads
  <2>3. LevelReads(l, n, x)
    BY <2>1 DEF LevelReads
  <2>4. QED
    BY <2>2, <2>3
<1>9. ReadsNode(l, n, x)
  BY <1>3, <1>7, <1>8 DEF ReadsNode, AllReads
<1>10. QED
  BY <1>9

\* Every node of a derivation is read as it is derived.
LEMMA NodesAreRead ==
  ASSUME NEW l, IsLine(l), IsDerivation(l), NoRows(l), NEW n \in DOMAIN l.nodes
  PROVE  \E x : ReadsNode(l, n, x)
<1> DEFINE Bad == {m \in DOMAIN l.nodes : ~ \E x : ReadsNode(l, m, x)}
<1>1. SUFFICES ASSUME Bad # {} PROVE FALSE
  OBVIOUS
<1>2. Bad \subseteq Nat
  BY DEF IsDerivation
<1>3. PICK m \in Bad : \A k \in Bad : m <= k
  BY <1>1, <1>2, LeastOf
<1>4. m \in DOMAIN l.nodes /\ m \in Nat /\ ~ \E x : ReadsNode(l, m, x)
  BY <1>2, <1>3
<1>5. ASSUME NEW i, Below(l, m, i)
      PROVE  l.nodes[m].kids[i] \in DOMAIN l.nodes /\ \E x : ReadsNode(l, l.nodes[m].kids[i], x)
  <2> DEFINE k == l.nodes[m].kids[i]
  <2>1. k \in DOMAIN l.nodes /\ k < m
    BY <1>5 DEF Below
  <2>2. k \in Nat
    BY <2>1 DEF IsDerivation
  <2>3. k \notin Bad
    <3> HIDE DEF k
    <3>1. QED
      BY <1>2, <1>3, <1>4, <2>1, <2>2
  <2>4. QED
    BY <2>1, <2>3
<1> HIDE DEF Bad
<1>6. CASE IsOperand(l, m)
  BY <1>4, <1>6, OperandIsRead
<1>7. CASE IsParenthesized(l, m)
  <2>1. Below(l, m, 1)
    BY <1>7 DEF IsParenthesized
  <2>2. QED
    BY <1>4, <1>5, <1>7, <2>1, ParenthesizedIsRead
<1>8. CASE IsUnary(l, m)
  <2>1. Below(l, m, 1)
    BY <1>8 DEF IsUnary
  <2>2. QED
    BY <1>4, <1>5, <1>8, <2>1, UnaryIsRead
<1>9. CASE IsBinary(l, m)
  <2>1. Below(l, m, 1) /\ Below(l, m, 2)
    BY <1>9 DEF IsBinary
  <2>2. QED
    <3>1. PICK y : ReadsNode(l, l.nodes[m].kids[1], y)
      BY <1>5, <2>1
    <3>2. PICK z : ReadsNode(l, l.nodes[m].kids[2], z)
      BY <1>5, <2>1
    <3>3. l.nodes[m].kids[1] \in DOMAIN l.nodes /\ l.nodes[m].kids[2] \in DOMAIN l.nodes
      BY <1>5, <2>1
    <3>4. \E x : ReadsNode(l, m, x)
      BY <1>4, <1>9, <3>1, <3>2, <3>3, BinaryIsRead
    <3>5. QED
      BY <1>4, <3>4
<1>10. CASE IsConditional(l, m)
  <2>1. Below(l, m, 1) /\ Below(l, m, 2) /\ Below(l, m, 3)
    BY <1>10 DEF IsConditional
  <2>2. QED
    <3>1. PICK y : ReadsNode(l, l.nodes[m].kids[1], y)
      BY <1>5, <2>1
    <3>2. PICK z : ReadsNode(l, l.nodes[m].kids[2], z)
      BY <1>5, <2>1
    <3>3. PICK w : ReadsNode(l, l.nodes[m].kids[3], w)
      BY <1>5, <2>1
    <3>4. /\ l.nodes[m].kids[1] \in DOMAIN l.nodes /\ l.nodes[m].kids[2] \in DOMAIN l.nodes
          /\ l.nodes[m].kids[3] \in DOMAIN l.nodes
      BY <1>5, <2>1
    <3>5. ASSUME NEW a \in DOMAIN l.nodes, a = l.nodes[m].kids[1],
                 NEW b \in DOMAIN l.nodes, b = l.nodes[m].kids[2],
                 NEW c \in DOMAIN l.nodes, c = l.nodes[m].kids[3],
                 ReadsNode(l, a, y), ReadsNode(l, b, z), ReadsNode(l, c, w)
          PROVE  \E x : ReadsNode(l, m, x)
      BY <1>4, <1>10, <3>5, ConditionalIsRead, SMTT(40)
    <3>6. \E x : ReadsNode(l, m, x)
      BY <3>1, <3>2, <3>3, <3>4, <3>5
    <3>7. QED
      BY <1>4, <3>6
<1>11. QED
  BY <1>4, <1>6, <1>7, <1>8, <1>9, <1>10 DEF IsDerivation

-----------------------------------------------------------------------------
(* A line is read as C derives it.                                         *)

LEMMA LineIsRead ==
  ASSUME NEW l, IsLine(l), IsReadAsC(l)
  PROVE  FitsNode(l, l.root, ReadAs(Conditional, l.tokens, l.operands))
<1> DEFINE read == ReadAs(Conditional, l.tokens, l.operands)
<1>1. IsDerivation(l) /\ NoRows(l)
  BY DEF IsReadAsC
<1>2. l.root \in DOMAIN l.nodes /\ l.nodes[l.root].first = 1 /\ l.nodes[l.root].behind = LineEnd(l)
  BY <1>1 DEF IsDerivation
<1>3. PICK x : ReadsNode(l, l.root, x)
  BY <1>1, <1>2, NodesAreRead
<1>4. l.tokens[l.nodes[l.root].behind] = EndOfLine
  BY <1>2, LineEndIs
<1>5. ReadingOf(l)[From(Conditional, l.nodes[l.root].first)] = x
  BY <1>1, <1>2, <1>3, <1>4, ReadToToken
<1>6. read = x
  BY <1>2, <1>5 DEF ReadAs, ReadingOf
<1>7. QED
  BY <1>3, <1>6 DEF ReadsNode

\* However long the line, however deep its expression and whatever the operands read as: an #if's
\* expression that C derives, with no equalities and no comparisons in a row, is read to its end and
\* has the value that C gives it, where C gives one to every part of it (parse_if_conditional and the
\* parse functions under it).
THEOREM ReadsWhatIsDerived == Spec => []ReadsAsDerived
<1>1. line \in Lines /\ ReadResult => ReadsAsDerived
  <2> SUFFICES ASSUME line \in Lines, ReadResult, IsReadAsC(line),
                      \A n \in DOMAIN line.nodes : line.nodes[n].means # {}, NEW x \in result
               PROVE  x.st = "ok" /\ {x.value} = line.nodes[line.root].means
    BY DEF ReadsAsDerived
  <2>1. x = ReadAs(Conditional, line.tokens, line.operands) /\ IsLine(line) /\ line.root \in DOMAIN line.nodes
    BY LinesAssumption DEF ReadResult, IsReadAsC, IsDerivation
  <2>2. FitsNode(line, line.root, x)
    BY <2>1, LineIsRead
  <2>3. QED
    BY <2>1, <2>2 DEF FitsNode
<1>2. QED
  BY <1>1, LineStays, ResultIsRead, PTL

\* Whatever C leaves out - an operand behind && that cannot be calculated, a division by zero where it
\* is not evaluated -, an #if's expression that is read at all is read to the end of its line, and
\* has no other value than that of C.
THEOREM ReadsNoOtherValue == Spec => []NoOtherValue
<1>1. line \in Lines /\ ReadResult => NoOtherValue
  <2> SUFFICES ASSUME line \in Lines, ReadResult, IsReadAsC(line), NEW x \in result, x.st = "ok"
               PROVE  x.at = LineEnd(line) /\ line.nodes[line.root].means \subseteq {x.value}
    BY DEF NoOtherValue
  <2>1. x = ReadAs(Conditional, line.tokens, line.operands) /\ IsLine(line)
    BY LinesAssumption DEF ReadResult
  <2>2. FitsNode(line, line.root, x) /\ line.nodes[line.root].behind = LineEnd(line)
    BY <2>1, LineIsRead DEF IsReadAsC, IsDerivation
  <2>3. QED
    BY <2>2 DEF FitsNode
<1>2. QED
  BY <1>1, LineStays, ResultIsRead, PTL
=============================================================================
