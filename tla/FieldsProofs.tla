---------------------------- MODULE FieldsProofs ----------------------------
(***************************************************************************)
(* What Block, Parse and Get return for every text, although they are      *)
(* recursive.  A recursive function is the choice of one that solves its   *)
(* equation; that there is one, and what it returns, is shown from the end *)
(* of the text down to its beginning (Downwards).  In place of an          *)
(* induction theorem over predicates this uses a smallest counterexample,  *)
(* which exists because < is well-founded on Nat.                          *)
(***************************************************************************)
EXTENDS Fields, TLAPS, WellFoundedInduction

\* A set of natural numbers has a smallest element.
LEMMA Smallest ==
    ASSUME NEW T, T \subseteq Nat, T # {}
    PROVE  \E x \in T : \A y \in T : x <= y
<1> DEFINE R == OpToRel(<, Nat)
<1>1. IsWellFoundedOn(R, Nat)
  BY NatLessThanWellFounded
<1>2. \A x, y \in Nat : <<y, x>> \in R <=> y < x
  BY DEF OpToRel
<1> HIDE DEF R
<1>3. PICK x \in T : \A y \in T : ~ (<<y, x>> \in R)
  BY <1>1, WFMin
<1>4. x \in Nat /\ \A y \in T : y \in Nat /\ ~(y < x)
  BY <1>2, <1>3, Zenon
<1> QED
  BY <1>3, <1>4

\* What holds of a line when it holds of all later ones holds of every line.
LEMMA Downwards ==
    ASSUME NEW lo \in Nat, NEW hi \in Nat, NEW S,
           \A k \in lo..hi : (\A j \in (k + 1)..hi : j \in S) => k \in S
    PROVE  lo..hi \subseteq S
<1> DEFINE T == {n \in Nat : hi - n \in lo..hi /\ hi - n \notin S}
<1>1. CASE T = {}
  <2> SUFFICES ASSUME NEW k \in lo..hi, k \notin S PROVE FALSE
    OBVIOUS
  <2>1. hi - k \in Nat /\ hi - (hi - k) = k
    OBVIOUS
  <2> QED
    BY <1>1, <2>1
<1>2. CASE T # {}
  <2>1. PICK n \in T : \A m \in T : n <= m
    <3>1. T \subseteq Nat
      OBVIOUS
    <3> HIDE DEF T
    <3> QED
      BY <1>2, <3>1, Smallest
  <2>2. hi - n \in lo..hi /\ hi - n \notin S /\ n \in Nat
    OBVIOUS
  <2>3. PICK j \in (hi - n + 1)..hi : j \notin S
    BY <2>2
  <2>4. hi - j \in Nat /\ hi - (hi - j) = j /\ hi - j < n
    BY <2>2
  <2>5. hi - j \in T
    BY <2>2, <2>3, <2>4
  <2> QED
    BY <2>1, <2>2, <2>4, <2>5
<1> QED
  BY <1>1, <1>2

----------------------------------------------------------------------------
\* Blocks.

EndsBlock(line) == line = Blank \/ IsField(line)

\* The equation that from solves in Block, at line j.
BlockLine(text, j, from) ==
    IF j > Len(text) THEN <<>>
    ELSE IF text[j] = Blank \/ IsField(text[j]) THEN <<>>
    ELSE <<text[j].value>> \o from[j + 1]

\* That equation has a solution: one for the lines after k extends to line k.
LEMMA BlockExists ==
    ASSUME NEW text \in Seq(Lines), NEW i \in 1..(Len(text) + 1)
    PROVE  \E f : /\ f = [j \in i..(Len(text) + 1) |-> BlockLine(text, j, f)]
                  /\ Block(text, i) = f[i]
<1> DEFINE hi == Len(text) + 1
           Solves(f, k) == f = [j \in k..hi |-> BlockLine(text, j, f)]
           S == {k \in Nat : \E f : Solves(f, k)}
<1>1. hi \in Nat /\ i \in Nat /\ i <= hi
  OBVIOUS
<1>2. Block(text, i) = (CHOOSE f : Solves(f, i))[i]
  BY Zenon DEF Block, BlockLine
<1> HIDE DEF hi
<1>3. ASSUME NEW k \in i..hi, \A j \in (k + 1)..hi : j \in S
      PROVE  k \in S
  <2>1. PICK f : Solves(f, k + 1)
    <3>1. CASE k = hi
      <4>1. (k + 1)..hi = {}
        BY <1>1, <3>1
      <4> QED
        BY <4>1
    <3>2. CASE k # hi
      BY <1>1, <1>3, <3>2
    <3> QED
      BY <3>1, <3>2
  <2> DEFINE g == [j \in k..hi |-> IF j = k THEN BlockLine(text, k, f) ELSE f[j]]
  <2>2. \A j \in k..hi : BlockLine(text, j, g) = BlockLine(text, j, f)
    <3>1. \A j \in k..hi : j <= Len(text) => g[j + 1] = f[j + 1]
      BY <1>1 DEF hi
    <3> HIDE DEF g
    <3> QED
      BY <3>1, <1>1 DEF BlockLine
  <2>3. \A j \in k..hi : g[j] = BlockLine(text, j, g)
    <3>1. \A j \in (k + 1)..hi : f[j] = BlockLine(text, j, f)
      BY <2>1
    <3>2. \A j \in k..hi : j # k => j \in (k + 1)..hi
      BY <1>1
    <3> QED
      BY <2>2, <3>1, <3>2
  <2>4. g = [j \in k..hi |-> BlockLine(text, j, g)]
    BY <2>3
  <2>5. k \in Nat /\ \E h : Solves(h, k)
    <3>1. k \in Nat
      BY <1>1
    <3> QED
      BY <2>4, <3>1
  <2> QED
    BY <2>5
<1>4. i \in S
  <2> HIDE DEF S
  <2>1. i..hi \subseteq S
    BY <1>1, <1>3, Downwards
  <2> QED
    BY <1>1, <2>1
<1>5. Solves((CHOOSE f : Solves(f, i)), i)
  BY <1>4
<1> QED
  BY <1>2, <1>5, Zenon DEF hi

\* A block is the lines from i to the next one that ends it, or to the end.
LEMMA BlockSpec ==
    ASSUME NEW text \in Seq(Lines), NEW i \in 1..(Len(text) + 1),
           NEW b, b = Block(text, i)
    PROVE  /\ b \in Seq(STRING)
           /\ i + Len(b) <= Len(text) + 1
           /\ \A x \in 1..Len(b) :
                b[x] = text[i + x - 1].value /\ ~EndsBlock(text[i + x - 1])
           /\ i + Len(b) <= Len(text) => EndsBlock(text[i + Len(b)])
<1> DEFINE Good(c, k) ==
             /\ c \in Seq(STRING)
             /\ k + Len(c) <= Len(text) + 1
             /\ \A x \in 1..Len(c) :
                  c[x] = text[k + x - 1].value /\ ~EndsBlock(text[k + x - 1])
             /\ k + Len(c) <= Len(text) => EndsBlock(text[k + Len(c)])
           hi == Len(text) + 1
<1>1. PICK f : f = [j \in i..hi |-> BlockLine(text, j, f)] /\ Block(text, i) = f[i]
  BY BlockExists
<1> DEFINE S == {k \in i..hi : Good(f[k], k)}
<1>2. hi \in Nat /\ i \in Nat /\ i \in i..hi
  OBVIOUS
<1>3. ASSUME NEW k \in i..hi, \A j \in (k + 1)..hi : j \in S
      PROVE  k \in S
  <2>1. f[k] = BlockLine(text, k, f)
    BY <1>1
  <2>2. CASE k > Len(text)
    <3>1. f[k] = <<>> /\ k = hi
      BY <2>1, <2>2, <1>2 DEF BlockLine
    <3>2. Good(<<>>, k)
      BY <2>2, <3>1
    <3> QED
      BY <3>1, <3>2
  <2>3. CASE k <= Len(text) /\ EndsBlock(text[k])
    <3>1. f[k] = <<>>
      BY <2>1, <2>3, <1>2 DEF BlockLine, EndsBlock
    <3>2. Good(<<>>, k)
      BY <2>3, <1>2
    <3> QED
      BY <3>1, <3>2
  <2>4. CASE k <= Len(text) /\ ~EndsBlock(text[k])
    <3> DEFINE v == text[k].value
               c == f[k + 1]
    <3>1. f[k] = <<v>> \o c
      BY <2>1, <2>4, <1>2 DEF BlockLine, EndsBlock
    <3>2. k + 1 \in (k + 1)..hi /\ k \in 1..Len(text)
      BY <2>4, <1>2
    <3>3. Good(c, k + 1)
      BY <3>2, <1>3
    <3>4. v \in STRING
      <4>1. text[k] \in Lines
        BY <3>2
      <4> QED
        BY <4>1 DEF Lines
    <3> HIDE DEF v, c
    <3>5. /\ f[k] \in Seq(STRING)
          /\ Len(f[k]) = 1 + Len(c)
          /\ \A x \in 1..(1 + Len(c)) : f[k][x] = IF x = 1 THEN v ELSE c[x - 1]
      BY <3>1, <3>3, <3>4
    <3>6. \A x \in 1..Len(f[k]) :
             f[k][x] = text[k + x - 1].value /\ ~EndsBlock(text[k + x - 1])
      <4> SUFFICES ASSUME NEW x \in 1..Len(f[k])
                   PROVE  f[k][x] = text[k + x - 1].value /\ ~EndsBlock(text[k + x - 1])
        OBVIOUS
      <4>1. CASE x = 1
        BY <4>1, <3>5, <3>2, <2>4 DEF v
      <4>2. CASE x # 1
        <5>1. x - 1 \in 1..Len(c) /\ (k + 1) + (x - 1) - 1 = k + x - 1
          BY <4>2, <3>2, <3>3, <3>5
        <5> QED
          BY <5>1, <4>2, <3>3, <3>5
      <4> QED
        BY <4>1, <4>2
    <3>7. k + Len(f[k]) = (k + 1) + Len(c)
      BY <3>2, <3>3, <3>5
    <3> QED
      BY <3>3, <3>5, <3>6, <3>7
  <2> QED
    BY <2>2, <2>3, <2>4, <1>2
<1>4. i \in S
  <2> HIDE DEF S
  <2>1. i..hi \subseteq S
    BY <1>2, <1>3, Downwards
  <2> QED
    BY <1>2, <2>1
<1> QED
  BY <1>1, <1>4, Zenon

\* The last line of a block is the only one that the format allows.
LEMMA BlockIsDocumented ==
    ASSUME NEW text \in Seq(Lines), NEW i \in 1..Len(text), text[i].value = "|"
    PROVE  DocumentedValue(text, i) = Block(text, i + 1)
<1> DEFINE b == Block(text, i + 1)
           Last(n) == /\ Continues(text, i, n)
                      /\ n < Len(text) => ~Continues(text, i, n + 1)
<1>1. i + 1 \in 1..(Len(text) + 1)
  OBVIOUS
<1>2. /\ b \in Seq(STRING)
      /\ i + 1 + Len(b) <= Len(text) + 1
      /\ \A x \in 1..Len(b) :
           b[x] = text[i + 1 + x - 1].value /\ ~EndsBlock(text[i + 1 + x - 1])
      /\ i + 1 + Len(b) <= Len(text) => EndsBlock(text[i + 1 + Len(b)])
  BY <1>1, BlockSpec
<1> HIDE DEF b
<1>3. \A j \in (i + 1)..(i + Len(b)) : ~EndsBlock(text[j])
  <2>1. \A j \in (i + 1)..(i + Len(b)) : j - i \in 1..Len(b) /\ i + 1 + (j - i) - 1 = j
    BY <1>2
  <2> QED
    BY <2>1, <1>2
<1>4. i + Len(b) \in i..Len(text)
  BY <1>2
<1>5. \A n \in i..Len(text) : Last(n) <=> n = i + Len(b)
  <2> SUFFICES ASSUME NEW n \in i..Len(text) PROVE Last(n) <=> n = i + Len(b)
    OBVIOUS
  <2>1. CASE n < i + Len(b)
    <3>1. Continues(text, i, n + 1)
      BY <2>1, <1>2, <1>3 DEF Continues, EndsBlock
    <3> QED
      BY <3>1, <2>1, <1>4
  <2>2. CASE n = i + Len(b)
    <3>1. Continues(text, i, n)
      BY <2>2, <1>3 DEF Continues, EndsBlock
    <3>2. n < Len(text) => ~Continues(text, i, n + 1)
      BY <2>2, <1>2 DEF Continues, EndsBlock
    <3> QED
      BY <2>2, <3>1, <3>2
  <2>3. CASE n > i + Len(b)
    <3>1. i + 1 + Len(b) \in (i + 1)..n /\ EndsBlock(text[i + 1 + Len(b)])
      BY <2>3, <1>2
    <3> QED
      BY <2>3, <3>1 DEF Continues, EndsBlock
  <2>4. n < i + Len(b) \/ n = i + Len(b) \/ n > i + Len(b)
    BY <1>4
  <2> QED
    BY <2>1, <2>2, <2>3, <2>4, Zenon
<1>6. (CHOOSE n \in i..Len(text) : Last(n)) = i + Len(b)
  <2> HIDE DEF Last
  <2> QED
    BY <1>4, <1>5
<1>7. [j \in 1..Len(b) |-> text[i + j].value] = b
  <2>1. \A x \in 1..Len(b) : b[x] = text[i + x].value
    <3>1. \A x \in 1..Len(b) : i + 1 + x - 1 = i + x
      BY <1>2
    <3> QED
      BY <3>1, <1>2
  <2>2. b = [j \in 1..Len(b) |-> b[j]]
    BY <1>2
  <2> QED
    BY <2>1, <2>2
<1>8. DocumentedValue(text, i) =
        [j \in 1..((CHOOSE n \in i..Len(text) : Last(n)) - i) |-> text[i + j].value]
  BY Zenon DEF DocumentedValue
<1>9. (i + Len(b)) - i = Len(b)
  BY <1>2
<1> HIDE DEF Last
<1>10. DocumentedValue(text, i) = b
  BY <1>6, <1>7, <1>8, <1>9
<1> QED
  BY <1>10 DEF b

----------------------------------------------------------------------------
\* Parse.

Pairs == [key : Keys, value : Seq(STRING)]

\* The equation that fields solves in Parse, at line i.
ParseLine(text, i, fields) ==
    IF i > Len(text) THEN <<>>
    ELSE IF ~IsField(text[i]) THEN fields[i + 1]
    ELSE IF text[i].value # "|"
    THEN <<[key |-> text[i].key, value |-> <<text[i].value>>]>> \o fields[i + 1]
    ELSE LET block == Block(text, i + 1)
         IN <<[key |-> text[i].key, value |-> block]>>
              \o fields[AfterBlock(text, i + 1 + Len(block))]

\* Parse goes on after the head of a block, and at most two lines after the text.
LEMMA AfterBlockIn ==
    ASSUME NEW text \in Seq(Lines), NEW i \in 1..Len(text)
    PROVE  AfterBlock(text, i + 1 + Len(Block(text, i + 1))) \in (i + 1)..(Len(text) + 2)
<1>1. i + 1 \in 1..(Len(text) + 1)
  OBVIOUS
<1> DEFINE b == Block(text, i + 1)
<1>2. Len(b) \in Nat /\ i + 1 + Len(b) <= Len(text) + 1
  BY <1>1, BlockSpec
<1> HIDE DEF b
<1> QED
  <2>1. AfterBlock(text, i + 1 + Len(b)) \in (i + 1)..(Len(text) + 2)
    BY <1>2 DEF AfterBlock
  <2> QED
    BY <2>1 DEF b

\* The equation of Parse has a solution, as that of Block has.
LEMMA ParseExists ==
    ASSUME NEW text \in Seq(Lines)
    PROVE  \E f : /\ f = [i \in 2..(Len(text) + 2) |-> ParseLine(text, i, f)]
                  /\ Parse(text) = f[2]
<1> DEFINE hi == Len(text) + 2
           Solves(f, k) == f = [j \in k..hi |-> ParseLine(text, j, f)]
           S == {k \in Nat : \E f : Solves(f, k)}
<1>1. hi \in Nat /\ 2 <= hi
  OBVIOUS
<1>2. Parse(text) = (CHOOSE f : Solves(f, 2))[2]
  BY Zenon DEF Parse, ParseLine
<1> HIDE DEF hi
<1>3. ASSUME NEW k \in 2..hi, \A j \in (k + 1)..hi : j \in S
      PROVE  k \in S
  <2>1. PICK f : Solves(f, k + 1)
    <3>1. CASE k = hi
      <4>1. (k + 1)..hi = {}
        BY <1>1, <3>1
      <4> QED
        BY <4>1
    <3>2. CASE k # hi
      BY <1>1, <1>3, <3>2
    <3> QED
      BY <3>1, <3>2
  <2> DEFINE g == [j \in k..hi |-> IF j = k THEN ParseLine(text, k, f) ELSE f[j]]
  <2>2. ASSUME NEW j \in k..hi
        PROVE  ParseLine(text, j, g) = ParseLine(text, j, f)
    <3>1. \A m \in (j + 1)..hi : g[m] = f[m]
      BY <1>1
    <3>2. j <= Len(text) =>
            /\ j + 1 \in (j + 1)..hi
            /\ AfterBlock(text, j + 1 + Len(Block(text, j + 1))) \in (j + 1)..hi
      BY <1>1, AfterBlockIn DEF hi
    <3> HIDE DEF g
    <3> QED
      BY <3>1, <3>2, <1>1 DEF ParseLine
  <2>3. \A j \in k..hi : g[j] = ParseLine(text, j, g)
    <3>1. \A j \in (k + 1)..hi : f[j] = ParseLine(text, j, f)
      BY <2>1
    <3>2. \A j \in k..hi : j # k => j \in (k + 1)..hi
      BY <1>1
    <3> QED
      BY <2>2, <3>1, <3>2
  <2>4. g = [j \in k..hi |-> ParseLine(text, j, g)]
    BY <2>3
  <2>5. k \in Nat /\ \E h : Solves(h, k)
    <3>1. k \in Nat
      BY <1>1
    <3> QED
      BY <2>4, <3>1
  <2> QED
    BY <2>5
<1>4. 2 \in S
  <2> HIDE DEF S
  <2>1. 2..hi \subseteq S
    BY <1>1, <1>3, Downwards
  <2> QED
    BY <1>1, <2>1
<1>5. Solves((CHOOSE f : Solves(f, 2)), 2)
  BY <1>4
<1> QED
  BY <1>2, <1>5, Zenon DEF hi

----------------------------------------------------------------------------
\* The first field with a key, in what Parse returns and in the text.

Least(T) == {x \in T : \A y \in T : x <= y}

Found(pairs, key) == {x \in DOMAIN pairs : Lower[pairs[x].key] = Lower[key]}
FirstValue(pairs, key) == {pairs[x].value : x \in Least(Found(pairs, key))}

LinesFrom(text, i, key) ==
    {n \in i..Len(text) : IsField(text[n]) /\ Lower[text[n].key] = Lower[key]}
FirstFrom(text, i, key) ==
    {DocumentedValue(text, n) : n \in Least(LinesFrom(text, i, key))}

\* Get chooses the smallest place with the key.
LEMMA GetIsFirst ==
    ASSUME NEW text, NEW key, Parse(text) \in Seq(Pairs)
    PROVE  Get(text, key) = FirstValue(Parse(text), key)
<1> DEFINE fields == Parse(text)
           found == Found(fields, key)
<1>1. Get(text, key) =
        IF found = {} THEN {}
        ELSE {fields[CHOOSE i \in found : \A j \in found : i <= j].value}
  BY Zenon DEF Get, Found
<1>2. found \subseteq Nat
  BY DEF Found
<1> HIDE DEF fields, found
<1>3. CASE found = {}
  BY <1>1, <1>3 DEF FirstValue, Least, found, fields
<1>4. CASE found # {}
  <2>1. PICK x \in found : \A y \in found : x <= y
    BY <1>2, <1>4, Smallest
  <2>2. \A y \in found : y \in Nat
    BY <1>2
  <2>3. \A y \in found : (\A z \in found : y <= z) => y = x
    BY <2>1, <2>2
  <2>4. Least(found) = {x}
    BY <2>1, <2>3 DEF Least
  <2>5. (CHOOSE i \in found : \A j \in found : i <= j) = x
    BY <2>1, <2>3
  <2> QED
    BY <1>1, <1>4, <2>4, <2>5 DEF FirstValue, found, fields
<1> QED
  BY <1>3, <1>4

\* A field in front of the others is found before them, or does not matter.
LEMMA FirstOfMore ==
    ASSUME NEW p \in Pairs, NEW rest \in Seq(Pairs), NEW key
    PROVE  FirstValue(<<p>> \o rest, key) =
             IF Lower[p.key] = Lower[key] THEN {p.value} ELSE FirstValue(rest, key)
<1> DEFINE s == <<p>> \o rest
<1>1. /\ DOMAIN s = 1..(1 + Len(rest)) /\ DOMAIN rest = 1..Len(rest)
      /\ s[1] = p
      /\ \A x \in 1..Len(rest) : s[x + 1] = rest[x]
      /\ Len(rest) \in Nat
  OBVIOUS
<1> HIDE DEF s
<1>2. CASE Lower[p.key] = Lower[key]
  <2>1. 1 \in Found(s, key) /\ \A x \in Found(s, key) : 1 <= x
    BY <1>1, <1>2 DEF Found
  <2>2. Least(Found(s, key)) = {1}
    BY <2>1, <1>1 DEF Least, Found
  <2> QED
    BY <1>1, <1>2, <2>2 DEF FirstValue, s
<1>3. CASE Lower[p.key] # Lower[key]
  <2>1. \A x \in Nat : x + 1 \in Found(s, key) <=> x \in Found(rest, key)
    BY <1>1, <1>3 DEF Found
  <2>2. Found(s, key) \subseteq Nat \ {0} /\ Found(rest, key) \subseteq Nat
    BY <1>1 DEF Found
  <2>3. \A x \in Nat : x + 1 \in Least(Found(s, key)) <=> x \in Least(Found(rest, key))
    <3> SUFFICES ASSUME NEW x \in Nat
                 PROVE  x + 1 \in Least(Found(s, key)) <=> x \in Least(Found(rest, key))
      OBVIOUS
    <3>1. ASSUME \A y \in Found(s, key) : x + 1 <= y
          PROVE  \A y \in Found(rest, key) : x <= y
      BY <3>1, <2>1, <2>2
    <3>2. ASSUME \A y \in Found(rest, key) : x <= y, NEW y \in Found(s, key)
          PROVE  x + 1 <= y
      <4>1. y - 1 \in Nat /\ (y - 1) + 1 = y
        BY <2>2
      <4> QED
        BY <3>2, <4>1, <2>1
    <3> QED
      BY <3>1, <3>2, <2>1 DEF Least
  <2>4. \A x \in Least(Found(rest, key)) : x \in Nat /\ s[x + 1].value = rest[x].value
    BY <1>1 DEF Least, Found
  <2>5. \A y \in Least(Found(s, key)) : y - 1 \in Nat /\ (y - 1) + 1 = y
    BY <2>2 DEF Least
  <2>6. FirstValue(s, key) = FirstValue(rest, key)
    <3>1. ASSUME NEW v \in FirstValue(s, key) PROVE v \in FirstValue(rest, key)
      <4>1. PICK y \in Least(Found(s, key)) : v = s[y].value
        BY <3>1 DEF FirstValue
      <4>2. y - 1 \in Least(Found(rest, key)) /\ (y - 1) + 1 = y
        BY <2>3, <2>5
      <4> QED
        BY <4>1, <4>2, <2>4 DEF FirstValue
    <3>2. ASSUME NEW v \in FirstValue(rest, key) PROVE v \in FirstValue(s, key)
      <4>1. PICK x \in Least(Found(rest, key)) : v = rest[x].value
        BY <3>2 DEF FirstValue
      <4>2. x + 1 \in Least(Found(s, key))
        BY <2>3, <2>4
      <4> QED
        BY <4>1, <4>2, <2>4 DEF FirstValue
    <3> QED
      BY <3>1, <3>2
  <2> QED
    BY <1>3, <2>6 DEF s
<1> QED
  BY <1>2, <1>3

\* The same for the lines of a text: a field with the key comes first ...
LEMMA FirstFromField ==
    ASSUME NEW text \in Seq(Lines), NEW i \in 1..Len(text), NEW key, IsField(text[i]),
           Lower[text[i].key] = Lower[key]
    PROVE  FirstFrom(text, i, key) = {DocumentedValue(text, i)}
<1>1. i \in LinesFrom(text, i, key) /\ \A n \in LinesFrom(text, i, key) : i <= n
  BY DEF LinesFrom
<1>2. \A n \in LinesFrom(text, i, key) : n \in Nat
  BY DEF LinesFrom
<1>3. Least(LinesFrom(text, i, key)) = {i}
  BY <1>1, <1>2 DEF Least
<1> QED
  BY <1>3 DEF FirstFrom

\* ... and lines that are no field with the key do not matter.
LEMMA FirstFromLater ==
    ASSUME NEW text \in Seq(Lines), NEW i \in Nat, NEW j \in Nat, NEW key, i <= j,
           \A n \in i..(j - 1) : n <= Len(text) =>
              ~(IsField(text[n]) /\ Lower[text[n].key] = Lower[key])
    PROVE  FirstFrom(text, i, key) = FirstFrom(text, j, key)
<1>1. LinesFrom(text, i, key) = LinesFrom(text, j, key)
  BY DEF LinesFrom
<1> QED
  BY <1>1 DEF FirstFrom

\* Parse returns, for each key, what the text has first.  At a block this needs that
\* no line of it is a field, and that the line behind it, if skipped, is none.
LEMMA ParseSpec ==
    ASSUME NEW text \in Seq(Lines)
    PROVE  /\ Parse(text) \in Seq(Pairs)
           /\ \A key \in Keys : FirstValue(Parse(text), key) = FirstFrom(text, 2, key)
<1> DEFINE hi == Len(text) + 2
           Good(fields, i) ==
             /\ fields \in Seq(Pairs)
             /\ \A key \in Keys : FirstValue(fields, key) = FirstFrom(text, i, key)
<1>1. PICK f : f = [i \in 2..hi |-> ParseLine(text, i, f)] /\ Parse(text) = f[2]
  BY ParseExists
<1> DEFINE S == {i \in 2..hi : Good(f[i], i)}
<1>2. hi \in Nat /\ 2 \in 2..hi
  OBVIOUS
<1>3. ASSUME NEW i \in 2..hi, \A j \in (i + 1)..hi : j \in S
      PROVE  i \in S
  <2>1. f[i] = ParseLine(text, i, f)
    BY <1>1
  <2>2. CASE i > Len(text)
    <3>1. f[i] = <<>>
      BY <2>1, <2>2 DEF ParseLine
    <3>2. \A key : FirstValue(<<>>, key) = {} /\ FirstFrom(text, i, key) = {}
      BY <2>2 DEF FirstValue, Found, FirstFrom, LinesFrom, Least
    <3>3. Good(<<>>, i)
      <4>1. <<>> \in Seq(Pairs)
        OBVIOUS
      <4> QED
        BY <3>2, <4>1
    <3> QED
      BY <3>1, <3>3
  <2>3. CASE i <= Len(text) /\ ~IsField(text[i])
    <3>1. f[i] = f[i + 1]
      BY <2>1, <2>3, <1>2 DEF ParseLine
    <3>2. Good(f[i + 1], i + 1)
      BY <1>3, <2>3, <1>2
    <3>3. \A n \in i..((i + 1) - 1) : n = i
      BY <1>2
    <3>4. \A key : FirstFrom(text, i, key) = FirstFrom(text, i + 1, key)
      BY <2>3, <3>3, <1>2, FirstFromLater
    <3> QED
      BY <3>1, <3>2, <3>4
  <2>4. CASE i <= Len(text) /\ IsField(text[i])
    <3> DEFINE value == IF text[i].value # "|" THEN <<text[i].value>>
                        ELSE Block(text, i + 1)
               next == IF text[i].value # "|" THEN i + 1
                       ELSE AfterBlock(text, i + 1 + Len(Block(text, i + 1)))
               pair == [key |-> text[i].key, value |-> value]
    <3>1. i \in 1..Len(text) /\ text[i] \in Lines /\ i + 1 \in 1..(Len(text) + 1)
      BY <2>4, <1>2
    <3>2. f[i] = <<pair>> \o f[next]
      BY <2>1, <2>4 DEF ParseLine
    <3>3. next \in (i + 1)..hi
      BY <3>1, <1>2, AfterBlockIn
    <3>4. value = DocumentedValue(text, i)
      BY <3>1, BlockIsDocumented DEF DocumentedValue
    <3>5. pair \in Pairs /\ pair.key = text[i].key
      <4>1. value \in Seq(STRING)
        <5>1. text[i].value \in STRING
          BY <3>1 DEF Lines
        <5>2. Block(text, i + 1) \in Seq(STRING)
          BY <3>1, BlockSpec
        <5>3. <<text[i].value>> \in Seq(STRING)
          BY <5>1
        <5> QED
          BY <5>2, <5>3, Zenon
      <4> HIDE DEF value
      <4> QED
        BY <4>1, <2>4 DEF IsField, Pairs
    <3>6. ASSUME NEW n \in (i + 1)..(next - 1), n <= Len(text) PROVE ~IsField(text[n])
      <4>1. CASE text[i].value # "|"
        BY <4>1, <3>1
      <4>2. CASE text[i].value = "|"
        <5> DEFINE b == Block(text, i + 1)
        <5>1. /\ Len(b) \in Nat /\ i + 1 + Len(b) <= Len(text) + 1
              /\ \A x \in 1..Len(b) : ~EndsBlock(text[i + 1 + x - 1])
          BY <3>1, BlockSpec
        <5>2. next = AfterBlock(text, i + 1 + Len(b))
          BY <4>2
        <5> HIDE DEF b, next
        <5>3. CASE n < i + 1 + Len(b)
          <6>1. n - i \in 1..Len(b) /\ i + 1 + (n - i) - 1 = n
            BY <5>3, <5>1, <3>1
          <6> QED
            BY <6>1, <5>1 DEF EndsBlock
        <5>4. CASE n >= i + 1 + Len(b)
          <6>1. n = i + 1 + Len(b) /\ ~IsField(text[i + 1 + Len(b)])
            BY <5>4, <5>1, <5>2, <3>1, <3>6 DEF AfterBlock
          <6> QED
            BY <6>1
        <5> QED
          BY <5>3, <5>4, <5>1, <3>1
      <4> QED
        BY <4>1, <4>2
    <3> HIDE DEF value, next, pair
    <3>7. Good(f[next], next)
      BY <3>3, <1>3
    <3>8. f[i] \in Seq(Pairs)
      BY <3>2, <3>5, <3>7
    <3>9. ASSUME NEW key \in Keys
          PROVE  FirstValue(f[i], key) = FirstFrom(text, i, key)
      <4>1. FirstValue(f[i], key) =
              IF Lower[pair.key] = Lower[key] THEN {pair.value}
              ELSE FirstValue(f[next], key)
        <5>1. f[next] \in Seq(Pairs)
          BY <3>7
        <5>2. pair \in Pairs
          BY <3>5
        <5>3. FirstValue(<<pair>> \o f[next], key) =
                IF Lower[pair.key] = Lower[key] THEN {pair.value}
                ELSE FirstValue(f[next], key)
          BY <5>1, <5>2, FirstOfMore, Zenon
        <5> QED
          BY <5>3, <3>2, Zenon
      <4>2. CASE Lower[pair.key] = Lower[key]
        <5>1. FirstFrom(text, i, key) = {DocumentedValue(text, i)}
          BY <4>2, <3>1, <3>5, <2>4, FirstFromField
        <5> QED
          BY <4>1, <4>2, <5>1, <3>4 DEF pair
      <4>3. CASE Lower[pair.key] # Lower[key]
        <5>1. \A n \in i..(next - 1) : n <= Len(text) =>
                ~(IsField(text[n]) /\ Lower[text[n].key] = Lower[key])
          BY <3>1, <3>3, <3>5, <3>6, <4>3
        <5>2. FirstFrom(text, i, key) = FirstFrom(text, next, key)
          <6>1. i \in Nat /\ next \in Nat /\ i <= next
            BY <3>1, <3>3, <1>2
          <6> QED
            BY <5>1, <6>1, FirstFromLater
        <5> QED
          BY <4>1, <4>3, <5>2, <3>7
      <4> QED
        BY <4>2, <4>3
    <3> QED
      BY <3>8, <3>9
  <2> QED
    BY <2>2, <2>3, <2>4, <1>2
<1>4. 2 \in S
  <2> HIDE DEF S, hi
  <2>1. 2..hi \subseteq S
    BY <1>2, <1>3, Downwards
  <2> QED
    BY <1>2, <2>1
<1> QED
  BY <1>1, <1>4, Zenon

\* "show -f" and "totp" get what README.md says of the format, for every text and
\* key (fields/fields.go, Parse and Get).
THEOREM GetIsDocumented ==
    ASSUME NEW text \in Seq(Lines), NEW key \in Keys
    PROVE  Get(text, key) = Documented(text, key)
<1>1. LinesFrom(text, 2, key) = FieldLines(text, key)
  BY DEF LinesFrom, FieldLines
<1>2. FirstFrom(text, 2, key) = Documented(text, key)
  BY <1>1 DEF FirstFrom, Documented, Least
<1> QED
  BY <1>2, ParseSpec, GetIsFirst
=============================================================================
