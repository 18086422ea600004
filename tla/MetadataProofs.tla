--------------------------- MODULE MetadataProofs ---------------------------
(***************************************************************************)
(* Proofs about Metadata: that the regex a LIKE pattern is made into       *)
(* matches what the pattern means, for all patterns and names, and that a  *)
(* listing that ends is true of the account, for any readers and changes.  *)
(***************************************************************************)
EXTENDS Metadata, Numbers

(* The two functions that are defined from the left to the right. *)
LEMMA EscapedFrom ==
  ASSUME NEW pattern \in Seq(STRING)
  PROVE  /\ Escaped(pattern) \in [0 .. Len(pattern) -> BOOLEAN]
         /\ \A i \in 0 .. Len(pattern) :
              Escaped(pattern)[i] <=>
                i > 1 /\ pattern[i - 1] = "\\" /\ ~Escaped(pattern)[i - 1]
<1> DEFINE n == Len(pattern)
           F == [i \in 1 .. n |-> [b \in BOOLEAN |-> i > 1 /\ pattern[i - 1] = "\\" /\ ~b]]
           e == Escaped(pattern)
<1>1. n \in Nat /\ F \in [1 .. n -> [BOOLEAN -> BOOLEAN]]
  OBVIOUS
<1>2. \E g : Iterates(g, n, BOOLEAN, FALSE, F)
  <2> DEFINE B == BOOLEAN
             no == FALSE
  <2>1. n \in Nat /\ no \in B /\ F \in [1 .. n -> [B -> B]]
    BY <1>1
  <2> HIDE DEF F, n, B, no
  <2>2. \E g : Iterates(g, n, B, no, F)
    BY <2>1, Recursion
  <2> QED
    BY <2>2 DEF B, no
<1> PICK g : Iterates(g, n, BOOLEAN, FALSE, F)
  BY <1>2
<1> USE DEF Iterates
<1>3. \A i \in 0 .. n : g[i] = (i > 1 /\ pattern[i - 1] = "\\" /\ ~g[i - 1])
  <2> SUFFICES ASSUME NEW i \in 0 .. n
               PROVE  g[i] = (i > 1 /\ pattern[i - 1] = "\\" /\ ~g[i - 1])
    OBVIOUS
  <2>1. CASE i = 0
    BY <1>2, <2>1
  <2>2. CASE i # 0
    <3>1. i \in 1 .. n /\ g[i - 1] \in BOOLEAN
      BY <2>2
    <3>2. g[i] = F[i][g[i - 1]]
      BY <1>2, <2>2
    <3> QED
      BY <3>1, <3>2
  <2> QED
    BY <2>1, <2>2
<1>4. g = [i \in 0 .. n |-> i > 1 /\ pattern[i - 1] = "\\" /\ ~g[i - 1]]
  BY <1>3
<1>5. \E f : f = [i \in 0 .. n |-> i > 1 /\ pattern[i - 1] = "\\" /\ ~f[i - 1]]
  BY <1>4
<1>6. e = [i \in 0 .. n |-> i > 1 /\ pattern[i - 1] = "\\" /\ ~e[i - 1]]
  BY <1>5, Zenon DEF Escaped
<1> HIDE DEF e
<1> QED
  BY <1>6 DEF e

LEMMA EndsFrom ==
  ASSUME NEW regex, Len(regex) \in Nat, NEW name \in Seq(STRING),
         \A i \in 1 .. Len(regex) : regex[i][1] \in {"run", "one", "char", "nothing"}
  PROVE  /\ Ends(regex, name) \in [0 .. Len(regex) -> SUBSET (0 .. Len(name))]
         /\ Ends(regex, name)[0] = {0}
         /\ \A i \in 1 .. Len(regex) :
              Ends(regex, name)[i] = After(name, Ends(regex, name)[i - 1], regex[i])
<1> DEFINE n == Len(regex)
           T == SUBSET (0 .. Len(name))
           F == [i \in 1 .. n |-> [at \in T |-> After(name, at, regex[i])]]
           e == Ends(regex, name)
<1>1. ASSUME NEW i \in 1 .. n, NEW at \in T
      PROVE  After(name, at, regex[i]) \in T
  BY DEF After
<1>2. {0} \in T /\ F \in [1 .. n -> [T -> T]]
  <2>1. {0} \in T
    OBVIOUS
  <2>2. F \in [1 .. n -> [T -> T]]
    <3> HIDE DEF T
    <3> QED
      BY <1>1
  <2> QED
    BY <2>1, <2>2
<1>3. \E g : Iterates(g, n, T, {0}, F)
  <2>1. n \in Nat
    OBVIOUS
  <2> HIDE DEF F, T, n
  <2> QED
    BY <1>2, <2>1, Recursion
<1> PICK g : Iterates(g, n, T, {0}, F)
  BY <1>3
<1> USE DEF Iterates
<1> HIDE DEF T
<1>4. \A i \in 0 .. n : i # 0 => g[i] = After(name, g[i - 1], regex[i])
  <2> SUFFICES ASSUME NEW i \in 0 .. n, i # 0
               PROVE  g[i] = After(name, g[i - 1], regex[i])
    OBVIOUS
  <2>1. i \in 1 .. n /\ g[i - 1] \in T
    OBVIOUS
  <2>2. g[i] = F[i][g[i - 1]]
    BY <1>3, <2>1
  <2> QED
    BY <2>1, <2>2
<1>5. g = [i \in 0 .. n |-> IF i = 0 THEN {0} ELSE After(name, g[i - 1], regex[i])]
  BY <1>3, <1>4
<1>6. \E f : f = [i \in 0 .. n |-> IF i = 0 THEN {0} ELSE After(name, f[i - 1], regex[i])]
  BY <1>5
<1> HIDE DEF F
<1>7. e = [i \in 0 .. n |-> IF i = 0 THEN {0} ELSE After(name, e[i - 1], regex[i])]
  BY <1>6, Zenon DEF Ends
<1> HIDE DEF e
<1>8. e[0] = {0} /\ \A i \in 1 .. n : e[i] = After(name, e[i - 1], regex[i])
  <2>1. 0 \in 0 .. n /\ \A i \in 1 .. n : i \in 0 .. n /\ i # 0
    OBVIOUS
  <2> HIDE DEF n
  <2> QED
    BY <1>7, <2>1
<1>9. \A i \in 0 .. n : e[i] \in T
  <2> DEFINE S == {i \in Nat : i <= n => e[i] \in T}
  <2>1. 0 \in S
    BY <1>2, <1>8
  <2>2. ASSUME NEW i \in Nat, i \in S PROVE i + 1 \in S
    BY <1>1, <1>8, <2>2
  <2> HIDE DEF S
  <2>3. Nat \subseteq S
    BY <2>1, <2>2, Induction
  <2> QED
    BY <2>3 DEF S
<1> QED
  BY <1>7, <1>8, <1>9 DEF e, T
----------------------------------------------------------------------------
(* Of a run of backslashes every other one is escaped, and the character   *)
(* after it when their number is odd.                                      *)
LEMMA LiterallyNext ==
  ASSUME NEW pattern \in Seq(STRING), NEW i \in 1 .. Len(pattern), i + 1 \in 1 .. Len(pattern)
  PROVE  TakenLiterally(pattern, i + 1) <=> pattern[i] = "\\" /\ ~TakenLiterally(pattern, i)
<1> DEFINE Run(j) == \A m \in j .. i - 1 : pattern[m] = "\\"
           Begins(j) == j > 1 => pattern[j - 1] # "\\"
<1>1. ASSUME TakenLiterally(pattern, i + 1), TakenLiterally(pattern, i)
      PROVE  FALSE
  <2>1. PICK j \in 1 .. i : /\ (i + 1 - j) % 2 = 1
                            /\ \A m \in j .. i : pattern[m] = "\\"
                            /\ Begins(j)
    BY <1>1 DEF TakenLiterally
  <2>2. PICK l \in 1 .. i - 1 : (i - l) % 2 = 1 /\ Run(l) /\ Begins(l)
    BY <1>1 DEF TakenLiterally
  <2>3. j <= l
    <3>1. SUFFICES ASSUME l < j PROVE FALSE
      OBVIOUS
    <3>2. j - 1 \in l .. i - 1 /\ j > 1
      BY <3>1
    <3> QED
      BY <2>1, <2>2, <3>2
  <2>4. l <= j
    <3>1. SUFFICES ASSUME j < l PROVE FALSE
      OBVIOUS
    <3>2. l - 1 \in j .. i /\ l > 1
      BY <3>1
    <3> QED
      BY <2>1, <2>2, <3>2
  <2>5. j = l
    BY <2>3, <2>4
  <2> QED
    BY <2>1, <2>2, <2>5
<1>2. ASSUME TakenLiterally(pattern, i + 1)
      PROVE  pattern[i] = "\\"
  BY <1>2 DEF TakenLiterally
<1>3. ASSUME pattern[i] = "\\", ~TakenLiterally(pattern, i)
      PROVE  TakenLiterally(pattern, i + 1)
  <2>1. CASE i = 1 \/ pattern[i - 1] # "\\"
    <3>1. (i + 1 - i) % 2 = 1 /\ i \in 1 .. i + 1 - 1
      OBVIOUS
    <3>2. \A m \in i .. i + 1 - 1 : pattern[m] = "\\"
      BY <1>3
    <3> QED
      BY <2>1, <3>1, <3>2 DEF TakenLiterally
  <2>2. CASE i > 1 /\ pattern[i - 1] = "\\"
    <3> DEFINE T == {j \in 1 .. i - 1 : Run(j)}
    <3>1. i - 1 \in T /\ T \subseteq Nat
      BY <2>2
    <3> HIDE DEF T
    <3>2. PICK j \in T : \A l \in T : j <= l
      BY <3>1, LeastNumber
    <3>3. j \in 1 .. i - 1 /\ Run(j)
      BY <3>2 DEF T
    <3>4. Begins(j)
      <4>1. SUFFICES ASSUME j > 1, pattern[j - 1] = "\\" PROVE FALSE
        OBVIOUS
      <4>2. j - 1 \in 1 .. i - 1 /\ Run(j - 1)
        BY <3>3, <4>1
      <4> QED
        BY <3>2, <3>3, <4>2 DEF T
    <3>5. (i - j) % 2 # 1
      BY <1>3, <3>3, <3>4 DEF TakenLiterally
    <3>6. (i + 1 - j) % 2 = 1 /\ j \in 1 .. i + 1 - 1
      BY <3>3, <3>5
    <3>7. \A m \in j .. i + 1 - 1 : pattern[m] = "\\"
      BY <1>3, <3>3
    <3> QED
      BY <3>4, <3>6, <3>7 DEF TakenLiterally
  <2> QED
    BY <2>1, <2>2
<1> QED
  BY <1>1, <1>2, <1>3

LEMMA EscapedIsLiteral ==
  ASSUME NEW pattern \in Seq(STRING), NEW i \in 1 .. Len(pattern)
  PROVE  Escaped(pattern)[i] <=> TakenLiterally(pattern, i)
<1> DEFINE Same(j) == Escaped(pattern)[j] <=> TakenLiterally(pattern, j)
           S == {j \in Nat : j + 1 \in 1 .. Len(pattern) => Same(j + 1)}
<1>1. 0 \in S
  <2>1. ~TakenLiterally(pattern, 1)
    BY DEF TakenLiterally
  <2>2. 1 \in 1 .. Len(pattern) => ~Escaped(pattern)[1]
    BY EscapedFrom
  <2> QED
    BY <2>1, <2>2
<1>2. ASSUME NEW j \in Nat, j \in S PROVE j + 1 \in S
  <2> SUFFICES ASSUME j + 2 \in 1 .. Len(pattern) PROVE Same(j + 2)
    OBVIOUS
  <2>1. j + 1 \in 1 .. Len(pattern) /\ Same(j + 1)
    BY <1>2
  <2>2. Escaped(pattern)[j + 2] <=> pattern[j + 1] = "\\" /\ ~Escaped(pattern)[j + 1]
    <3>1. j + 2 \in 0 .. Len(pattern) /\ j + 2 > 1 /\ j + 2 - 1 = j + 1
      BY <2>1
    <3> QED
      BY <3>1, EscapedFrom
  <2>3. TakenLiterally(pattern, j + 2) <=> pattern[j + 1] = "\\" /\ ~TakenLiterally(pattern, j + 1)
    <3>1. j + 1 + 1 = j + 2
      OBVIOUS
    <3> QED
      BY <2>1, <3>1, LiterallyNext
  <2> QED
    BY <2>1, <2>2, <2>3
<1> HIDE DEF S
<1>3. i - 1 \in S
  BY <1>1, <1>2, Induction
<1> QED
  BY <1>3 DEF S

(* One character of the pattern: what its part of the regex takes of a     *)
(* name is what it stands for.                                             *)
LEMMA TokensStand ==
  ASSUME NEW pattern, WellFormed(pattern), NEW name, OneLine(name),
         NEW i \in 1 .. Len(pattern), NEW at \in SUBSET (0 .. Len(name)),
         NEW q \in 0 .. Len(name)
  PROVE  q \in After(name, at, Regex(pattern)[i]) <=>
           \E p \in at : StandsFor(pattern, i, name, p, q)
<1> DEFINE c == pattern[i]
           token == Regex(pattern)[i]
<1>1. pattern \in Seq(STRING) /\ name \in Seq(STRING)
  BY DEF WellFormed, OneLine
<1>2. Escaped(pattern)[i] <=> TakenLiterally(pattern, i)
  BY <1>1, EscapedIsLiteral
<1>3. token = IF Escaped(pattern)[i] THEN <<"char", c>> ELSE Token(c)
  BY <1>1 DEF Regex
<1>4. \A x, y \in 0 .. Len(name) : Plain(name, x, y)
  BY <1>1 DEF OneLine, Plain
<1>5. ASSUME token = <<"char", c>>
      PROVE  q \in After(name, at, token) <=> \E p \in at : q = p + 1 /\ name[q] = c
  <2>1. token[1] = "char" /\ token[2] = c
    BY <1>5
  <2> HIDE DEF token, c
  <2>2. After(name, at, token) = {x \in 1 .. Len(name) : x - 1 \in at /\ name[x] = c}
    BY <2>1 DEF After
  <2> QED
    BY <1>1, <2>2
<1>6. CASE TakenLiterally(pattern, i)
  BY <1>2, <1>3, <1>5, <1>6 DEF StandsFor
<1>7. CASE ~TakenLiterally(pattern, i) /\ c = "%"
  <2>1. token[1] = "run"
    BY <1>2, <1>3, <1>7 DEF Token
  <2>2. After(name, at, token) = {x \in 0 .. Len(name) : \E p \in at : p <= x /\ Plain(name, p, x)}
    BY <2>1 DEF After
  <2>3. \A p : StandsFor(pattern, i, name, p, q) <=> p <= q
    BY <1>7 DEF StandsFor
  <2> QED
    BY <1>4, <2>2, <2>3
<1>8. CASE ~TakenLiterally(pattern, i) /\ c = "_"
  <2>1. token[1] = "one"
    <3>1. Token("_") = <<"one">>
      BY DEF Token
    <3>2. ~Escaped(pattern)[i] /\ c = "_"
      BY <1>2, <1>8
    <3> HIDE DEF token, c
    <3>3. token = <<"one">>
      BY <1>3, <3>1, <3>2
    <3> QED
      BY <3>3
  <2>2. After(name, at, token) = {x \in 1 .. Len(name) : x - 1 \in at /\ name[x] # "\n"}
    BY <2>1 DEF After
  <2>3. \A p : StandsFor(pattern, i, name, p, q) <=> q = p + 1
    BY <1>8 DEF StandsFor
  <2>4. \A x \in 1 .. Len(name) : name[x] # "\n"
    BY DEF OneLine
  <2> QED
    BY <1>1, <2>2, <2>3, <2>4
<1>9. CASE ~TakenLiterally(pattern, i) /\ c = "\\"
  <2>1. token[1] = "nothing"
    BY <1>2, <1>3, <1>9 DEF Token
  <2>2. After(name, at, token) = at
    BY <2>1 DEF After
  <2>3. i < Len(pattern)
    BY <1>1, <1>9 DEF WellFormed
  <2>4. \A p : StandsFor(pattern, i, name, p, q) <=> p = q
    BY <1>9, <2>3 DEF StandsFor
  <2> QED
    BY <2>2, <2>4
<1>10. CASE ~TakenLiterally(pattern, i) /\ c \notin {"%", "_", "\\"}
  <2>1. token = <<"char", c>>
    BY <1>2, <1>3, <1>10 DEF Token
  <2>2. \A p : StandsFor(pattern, i, name, p, q) <=> q = p + 1 /\ name[q] = c
    BY <1>10 DEF StandsFor
  <2> QED
    BY <1>5, <2>1, <2>2
<1> QED
  BY <1>6, <1>7, <1>8, <1>9, <1>10

(* The first characters of a pattern fit the part of a name up to q when   *)
(* there is a cut of it.                                                   *)
CutsTo(pattern, name, i, q, cut) ==
  /\ cut \in [0 .. i -> 0 .. Len(name)]
  /\ cut[0] = 0 /\ cut[i] = q
  /\ \A j \in 1 .. i : StandsFor(pattern, j, name, cut[j - 1], cut[j])

LEMMA CutsExtend ==
  ASSUME NEW pattern, NEW name, NEW i \in Nat, NEW q \in 0 .. Len(name)
  PROVE  (\E cut : CutsTo(pattern, name, i + 1, q, cut)) <=>
           \E p \in 0 .. Len(name) : /\ \E cut : CutsTo(pattern, name, i, p, cut)
                                     /\ StandsFor(pattern, i + 1, name, p, q)
<1>1. ASSUME NEW cut, CutsTo(pattern, name, i + 1, q, cut)
      PROVE  \E p \in 0 .. Len(name) : /\ \E c : CutsTo(pattern, name, i, p, c)
                                       /\ StandsFor(pattern, i + 1, name, p, q)
  <2> DEFINE c == [j \in 0 .. i |-> cut[j]]
  <2>1. /\ cut \in [0 .. i + 1 -> 0 .. Len(name)]
        /\ cut[0] = 0 /\ cut[i + 1] = q
        /\ \A j \in 1 .. i + 1 : StandsFor(pattern, j, name, cut[j - 1], cut[j])
    BY <1>1 DEF CutsTo
  <2>2. c \in [0 .. i -> 0 .. Len(name)] /\ c[0] = 0 /\ c[i] = cut[i]
    BY <2>1
  <2>3. \A j \in 1 .. i : StandsFor(pattern, j, name, c[j - 1], c[j])
    BY <2>1
  <2>4. CutsTo(pattern, name, i, cut[i], c)
    BY <2>2, <2>3 DEF CutsTo
  <2>5. StandsFor(pattern, i + 1, name, cut[i], q)
    <3>1. i + 1 \in 1 .. i + 1 /\ i + 1 - 1 = i
      OBVIOUS
    <3> QED
      BY <2>1, <3>1
  <2> QED
    BY <2>1, <2>4, <2>5
<1>2. ASSUME NEW p \in 0 .. Len(name), NEW cut, CutsTo(pattern, name, i, p, cut),
             StandsFor(pattern, i + 1, name, p, q)
      PROVE  \E c : CutsTo(pattern, name, i + 1, q, c)
  <2> DEFINE c == [j \in 0 .. i + 1 |-> IF j = i + 1 THEN q ELSE cut[j]]
  <2>1. /\ cut \in [0 .. i -> 0 .. Len(name)]
        /\ cut[0] = 0 /\ cut[i] = p
        /\ \A j \in 1 .. i : StandsFor(pattern, j, name, cut[j - 1], cut[j])
    BY <1>2 DEF CutsTo
  <2>2. c \in [0 .. i + 1 -> 0 .. Len(name)] /\ c[0] = 0 /\ c[i + 1] = q
    BY <2>1
  <2>3. ASSUME NEW j \in 1 .. i + 1
        PROVE  StandsFor(pattern, j, name, c[j - 1], c[j])
    <3>1. CASE j = i + 1
      <4>1. c[j] = q /\ c[j - 1] = p
        BY <2>1, <3>1
      <4> QED
        BY <1>2, <3>1, <4>1
    <3>2. CASE j # i + 1
      <4>1. j \in 1 .. i /\ c[j] = cut[j] /\ c[j - 1] = cut[j - 1]
        BY <3>2
      <4> QED
        BY <2>1, <4>1
    <3> QED
      BY <3>1, <3>2
  <2> HIDE DEF c
  <2>4. CutsTo(pattern, name, i + 1, q, c)
    BY <2>2, <2>3 DEF CutsTo
  <2> QED
    BY <2>4
<1> QED
  BY <1>1, <1>2

(* The regex of a pattern matches the names that metadata.rs:190 says fit, *)
(* for every pattern and name it says that of (metadata.rs:191-212).       *)
THEOREM LikeIsMatch ==
  ASSUME NEW pattern, WellFormed(pattern), NEW name, OneLine(name)
  PROVE  IsMatch(Regex(pattern), name) <=> Like(pattern, name)
<1> DEFINE regex == Regex(pattern)
           n == Len(pattern)
           ends == Ends(regex, name)
           Same(i, q) == q \in ends[i] <=> \E cut : CutsTo(pattern, name, i, q, cut)
           S == {i \in Nat : i <= n => \A q \in 0 .. Len(name) : Same(i, q)}
<1>1. pattern \in Seq(STRING) /\ name \in Seq(STRING) /\ n \in Nat /\ Len(name) \in Nat
  BY DEF WellFormed, OneLine
<1>2. Len(regex) = n
  BY <1>1 DEF Regex
<1>3. \A i \in 1 .. Len(regex) : regex[i][1] \in {"run", "one", "char", "nothing"}
  <2> SUFFICES ASSUME NEW i \in 1 .. n PROVE regex[i][1] \in {"run", "one", "char", "nothing"}
    BY <1>2
  <2>1. regex[i] = <<"char", pattern[i]>> \/ regex[i] = Token(pattern[i])
    BY <1>1 DEF Regex
  <2>2. Token(pattern[i])[1] \in {"run", "one", "char", "nothing"}
    BY DEF Token
  <2> QED
    BY <2>1, <2>2
<1>4. /\ ends \in [0 .. n -> SUBSET (0 .. Len(name))]
      /\ ends[0] = {0}
      /\ \A i \in 1 .. n : ends[i] = After(name, ends[i - 1], regex[i])
  BY <1>1, <1>2, <1>3, EndsFrom
<1> HIDE DEF ends, regex, n
<1>5. 0 \in S
  <2> SUFFICES ASSUME NEW q \in 0 .. Len(name) PROVE Same(0, q)
    OBVIOUS
  <2>1. q \in ends[0] <=> q = 0
    BY <1>4
  <2>2. ASSUME q = 0 PROVE CutsTo(pattern, name, 0, q, [j \in 0 .. 0 |-> 0])
    BY <1>1, <2>2 DEF CutsTo
  <2>3. ASSUME NEW cut, CutsTo(pattern, name, 0, q, cut) PROVE q = 0
    BY <2>3 DEF CutsTo
  <2> QED
    BY <2>1, <2>2, <2>3
<1>6. ASSUME NEW i \in Nat, i \in S PROVE i + 1 \in S
  <2> SUFFICES ASSUME i + 1 <= n, NEW q \in 0 .. Len(name) PROVE Same(i + 1, q)
    OBVIOUS
  <2>1. i + 1 \in 1 .. n /\ i \in 0 .. n /\ i + 1 - 1 = i
    BY <1>1
  <2>2. ends[i] \in SUBSET (0 .. Len(name)) /\ ends[i + 1] = After(name, ends[i], regex[i + 1])
    BY <1>4, <2>1
  <2>3. q \in ends[i + 1] <=> \E p \in ends[i] : StandsFor(pattern, i + 1, name, p, q)
    BY <2>1, <2>2, TokensStand DEF regex, n
  <2>4. \A p \in 0 .. Len(name) : Same(i, p)
    BY <1>1, <1>6, <2>1
  <2> QED
    BY <2>2, <2>3, <2>4, CutsExtend
<1> HIDE DEF S
<1>7. n \in S
  BY <1>1, <1>5, <1>6, Induction
<1>8. IsMatch(regex, name) <=> \E cut : CutsTo(pattern, name, n, Len(name), cut)
  <2>1. IsMatch(regex, name) <=> Len(name) \in ends[n]
    BY <1>2 DEF IsMatch, ends
  <2> QED
    BY <1>1, <1>7, <2>1 DEF S
<1>9. Like(pattern, name) <=> \E cut : CutsTo(pattern, name, n, Len(name), cut)
  BY DEF Like, CutsTo, n
<1> QED
  BY <1>8, <1>9 DEF regex

LEMMA FitsIsMatch ==
  ASSUME NEW names, \A name \in names : OneLine(name),
         NEW filter, filter # None => WellFormed(filter)
  PROVE  Retain(names, filter) = {name \in names : Fits(filter, name)}
<1>1. CASE filter = None
  BY <1>1 DEF Retain, Fits
<1>2. CASE filter # None
  <2>1. \A name \in names : IsMatch(Regex(filter), name) <=> Fits(filter, name)
    BY <1>2, LikeIsMatch DEF Fits
  <2> QED
    BY <1>2, <2>1 DEF Retain
<1> QED
  BY <1>1, <1>2

(* There is a first of the names of databases, and of containers. *)
LEMMA FirstIsOne ==
  ASSUME NEW names, names \subseteq Databases \/ names \subseteq Containers, names # {}
  PROVE  First(names) \in names
<1> DEFINE T == {i \in 1 .. Len(NameOrder) : NameOrder[i] \in names}
<1>1. Len(NameOrder) \in Nat
  BY NamesAssumption
<1>2. T # {} /\ T \subseteq Nat
  <2>1. PICK name \in names : name \in Databases \cup Containers
    OBVIOUS
  <2>2. PICK i \in 1 .. Len(NameOrder) : NameOrder[i] = name
    BY <2>1, NamesAssumption
  <2> QED
    BY <1>1, <2>2
<1> HIDE DEF T
<1>3. PICK i \in T : \A j \in T : i <= j
  BY <1>2, LeastNumber
<1>4. i \in 1 .. Len(NameOrder) /\ NameOrder[i] \in names
  BY DEF T
<1>5. \A j \in 1 .. i - 1 : NameOrder[j] \notin names
  BY <1>1, <1>3, <1>4 DEF T
<1>6. \E x \in 1 .. Len(NameOrder) :
        NameOrder[x] \in names /\ \A j \in 1 .. x - 1 : NameOrder[j] \notin names
  BY <1>4, <1>5
<1> QED
  BY <1>6, Zenon DEF First
----------------------------------------------------------------------------
(* The account, what was ever in it, and what the cache kept of it. *)
AccountOK ==
  /\ live \in [Keys -> FieldSets \cup {Absent}]
  /\ held = [k \in Keys |-> held[k]]
  /\ \A k \in Keys : live[k] \in held[k] /\ held[k] \subseteq FieldSets \cup {Absent}

CacheOK ==
  /\ DOMAIN cache \subseteq Keys
  /\ \A k \in DOMAIN cache : cache[k] \in held[k] \ {{}, Absent}

(* During a call: what stayed is there, and what is there was seen. *)
SeenOK ==
  /\ seen = [r \in Readers |-> seen[r]]
  /\ stayed = [r \in Readers |-> stayed[r]]
  /\ \A r \in Readers : Busy(r) => stayed[r] \subseteq Existing /\ Existing \subseteq seen[r]

(* The containers a call asks for. *)
Below(call) == call.depth \in {"tables", "columns"} /\ Retain({<<>>}, call.schema) # {}

Wanted(call) ==
  {k \in Keys : /\ Below(call) /\ WantsTables(call)
                /\ k[1] \in Retain(Databases, call.catalog)
                /\ k[2] \in Retain(Containers, call.table)}

(* What may be listed, when so much was seen. *)
Entry(call, s, p) ==
  \/ \E d \in Retain(Databases, call.catalog) : p = <<d>>
  \/ \E k \in s \cap Wanted(call) : p = <<k[1], k[2]>>
  \/ \E k \in s \cap Wanted(call) : \E fields \in held[k] \ {Absent} :
       p = <<k[1], k[2], Retain(fields, call.column)>>

(* A container is listed, or the walk has yet to come to it. *)
Named(listed, k) ==
  <<k[1], k[2]>> \in listed \/ \E columns : <<k[1], k[2], columns>> \in listed

InTables == {"columns", "sampling", "inserting"}
Working == {"schemas", "tables", "done"} \cup InTables

Ahead(w, k) ==
  \/ w.step \in {"schemas", "tables"} /\ k[1] \in w.catalogs
  \/ w.step \in InTables /\ k[1] \in w.catalogs \ {First(w.catalogs)}
  \/ w.step \in InTables /\ k[1] = First(w.catalogs) /\ k[2] \in w.tables

WalkOK(w, s, st) ==
  /\ w.catalogs \subseteq Retain(Databases, w.call.catalog)
  /\ w.step = "done" => w.catalogs = {}
  /\ w.step \in {"tables"} \cup InTables => w.catalogs # {} /\ Below(w.call)
  /\ w.step \in InTables => w.call.depth = "columns"
  /\ w.step \in {"sampling", "inserting"} => w.tables # {}
  /\ w.step \notin InTables => w.tables = {}
  /\ w.tables \subseteq Containers
  /\ \A t \in w.tables : <<First(w.catalogs), t>> \in s \cap Wanted(w.call)
  /\ w.step = "inserting" =>
       w.fields \in held[<<First(w.catalogs), First(w.tables)>>] \ {{}, Absent}
  /\ \A d \in Retain(Databases, w.call.catalog) : <<d>> \in w.listed
  /\ \A p \in w.listed : Entry(w.call, s, p)
  /\ \A k \in st \cap Wanted(w.call) : Named(w.listed, k) \/ Ahead(w, k)

ReaderFields == {"step", "call", "catalogs", "tables", "fields", "listed"}

ReaderOK(r, w, s, st) ==
  /\ DOMAIN w = ReaderFields
  /\ w.step \in {"idle", "failed", "catalogs"} \cup Working
  /\ w.step \notin {"idle", "failed"} => w.call \in Calls[r]
  /\ w.step \in {"idle", "failed", "catalogs"} => w.tables = {} /\ w.listed = {}
  /\ w.step \in Working => WalkOK(w, s, st)

ReadersOK ==
  /\ reader = [r \in Readers |-> reader[r]]
  /\ \A r \in Readers : ReaderOK(r, reader[r], seen[r], stayed[r])

IInv == AccountOK /\ CacheOK /\ SeenOK /\ ReadersOK

LEMMA BegunOK ==
  ASSUME NEW r \in Readers, NEW step \in {"idle", "failed", "catalogs"}, NEW call,
         step = "catalogs" => call \in Calls[r], NEW s, NEW st
  PROVE  ReaderOK(r, Begun(step, call), s, st)
<1> DEFINE w == Begun(step, call)
<1>1. /\ w.step = step /\ w.call = call /\ w.tables = {} /\ w.listed = {}
      /\ DOMAIN w = ReaderFields
  BY DEF Begun, ReaderFields
<1> HIDE DEF w
<1>2. ReaderOK(r, w, s, st)
  BY <1>1 DEF ReaderOK, Working, InTables
<1> QED
  BY <1>2 DEF w

LEMMA InitInv == Init => IInv
<1> SUFFICES ASSUME Init PROVE IInv
  OBVIOUS
<1>1. AccountOK
  BY StartAssumption DEF Init, AccountOK
<1>2. CacheOK
  BY DEF Init, CacheOK
<1>3. \A r \in Readers : reader[r] = Begun("idle", NoCall)
  BY DEF Init
<1>4. SeenOK
  BY <1>3 DEF Init, SeenOK, Busy, Begun
<1>5. ReadersOK
  BY <1>3, BegunOK DEF Init, ReadersOK
<1> QED
  BY <1>1, <1>2, <1>4, <1>5 DEF IInv

(* One step of a reader that is busy, to a state that is in order.         *)
LEMMA ReaderStep ==
  ASSUME IInv, NEW r \in Readers, Busy(r), NEW w, ReaderOK(r, w, seen[r], stayed[r]),
         reader' = [reader EXCEPT ![r] = w], UNCHANGED Unseen
  PROVE  AccountOK' /\ SeenOK' /\ ReadersOK'
<1>1. UNCHANGED <<live, seen, stayed, held>>
  BY DEF Unseen
<1>2. AccountOK'
  BY <1>1 DEF IInv, AccountOK
<1>3. SeenOK'
  <2>1. \A q \in Readers : Busy(q)' => Busy(q)
    BY DEF IInv, ReadersOK, Busy
  <2> QED
    BY <1>1, <2>1 DEF IInv, SeenOK, Existing
<1>4. ReadersOK'
  <2> SUFFICES ASSUME NEW q \in Readers PROVE ReaderOK(q, reader[q], seen[q], stayed[q])'
    BY DEF IInv, ReadersOK
  <2>1. ReaderOK(q, reader'[q], seen[q], stayed[q])
    BY DEF IInv, ReadersOK
  <2>2. \A call, t, p : Entry(call, t, p)' <=> Entry(call, t, p)
    BY <1>1 DEF Entry
  <2> QED
    BY <1>1, <2>1, <2>2 DEF ReaderOK, WalkOK
<1> QED
  BY <1>2, <1>3, <1>4

LEMMA CacheStays ==
  ASSUME CacheOK, UNCHANGED <<cache, held>>
  PROVE  CacheOK'
BY DEF CacheOK

(* What a reader that walks knows of itself. *)
LEMMA Walks ==
  ASSUME IInv, NEW r \in Readers, reader[r].step \in Working
  PROVE  /\ WalkOK(reader[r], seen[r], stayed[r])
         /\ reader[r].call \in Calls[r]
         /\ DOMAIN reader[r] = ReaderFields
BY DEF IInv, ReadersOK, ReaderOK, Working, InTables

LEMMA CatalogIsOne ==
  ASSUME NEW w, NEW s, NEW st, WalkOK(w, s, st), w.catalogs # {}
  PROVE  First(w.catalogs) \in w.catalogs /\ First(w.catalogs) \in Databases
BY FirstIsOne DEF WalkOK, Retain

LEMMA TableIsOne ==
  ASSUME NEW w, NEW s, NEW st, WalkOK(w, s, st), w.tables # {}
  PROVE  First(w.tables) \in w.tables /\ First(w.tables) \in Containers
BY FirstIsOne DEF WalkOK

LEMMA GetCatalogsStep ==
  ASSUME IInv, NEW r \in Readers, GetCatalogs(r)
  PROVE  IInv'
<1> DEFINE u == reader[r]
           names == Retain(Databases, u.call.catalog)
           w == [u EXCEPT !.step = "schemas", !.catalogs = names,
                          !.listed = {<<n>> : n \in names}]
<1>1. ReaderOK(r, u, seen[r], stayed[r]) /\ u.step = "catalogs"
  BY DEF GetCatalogs, IInv, ReadersOK
<1>2. reader' = [reader EXCEPT ![r] = w] /\ UNCHANGED <<Unseen, cache>>
  BY DEF GetCatalogs
<1>3. DOMAIN u = ReaderFields /\ u.tables = {} /\ u.call \in Calls[r]
  BY <1>1 DEF ReaderOK
<1> HIDE DEF u
<1>4. /\ DOMAIN w = ReaderFields /\ w.step = "schemas" /\ w.call = u.call /\ w.catalogs = names
      /\ w.tables = {} /\ w.listed = {<<n>> : n \in names}
  BY <1>3 DEF ReaderFields
<1> HIDE DEF w
<1>5. WalkOK(w, seen[r], stayed[r])
  <2>1. \A p \in w.listed : Entry(w.call, seen[r], p)
    BY <1>4 DEF Entry
  <2>2. \A k \in stayed[r] \cap Wanted(w.call) : Ahead(w, k)
    BY <1>4 DEF Ahead, Wanted
  <2> QED
    BY <1>4, <2>1, <2>2 DEF WalkOK, InTables
<1>6. ReaderOK(r, w, seen[r], stayed[r])
  BY <1>3, <1>4, <1>5 DEF ReaderOK, Working, InTables
<1>7. Busy(r)
  BY <1>1 DEF Busy, u
<1> QED
  BY <1>2, <1>6, <1>7, ReaderStep, CacheStays DEF IInv, Unseen, u

(* One step of a walk. *)
LEMMA WalkStep ==
  ASSUME IInv, NEW r \in Readers, reader[r].step \in Working \ {"done"},
         NEW w, DOMAIN w = ReaderFields, w.call = reader[r].call, w.step \in Working,
         WalkOK(w, seen[r], stayed[r]),
         reader' = [reader EXCEPT ![r] = w], UNCHANGED Unseen
  PROVE  AccountOK' /\ SeenOK' /\ ReadersOK'
<1>1. reader[r].call \in Calls[r]
  BY Walks
<1>2. ReaderOK(r, w, seen[r], stayed[r])
  BY <1>1 DEF ReaderOK, Working, InTables
<1>3. Busy(r)
  BY DEF Busy, Working, InTables
<1> QED
  BY <1>2, <1>3, ReaderStep

(* On to the next catalog, when all that is asked for of this one is named. *)
LEMMA NextCatalog ==
  ASSUME NEW u, NEW w, NEW s, NEW st, WalkOK(u, s, st), u.catalogs # {},
         w.step = "schemas", w.call = u.call, w.tables = {},
         w.catalogs = u.catalogs \ {First(u.catalogs)},
         u.listed \subseteq w.listed, \A p \in w.listed : Entry(w.call, s, p),
         u.step \in {"schemas", "tables"} \cup InTables,
         \A k \in st \cap Wanted(u.call) :
           k[1] = First(u.catalogs) => Named(w.listed, k)
  PROVE  WalkOK(w, s, st)
<1>1. ASSUME NEW k \in st \cap Wanted(w.call)
      PROVE  Named(w.listed, k) \/ Ahead(w, k)
  <2>1. CASE k[1] = First(u.catalogs)
    BY <2>1
  <2>2. CASE k[1] # First(u.catalogs) /\ Named(u.listed, k)
    BY <2>2 DEF Named
  <2>3. CASE k[1] # First(u.catalogs) /\ Ahead(u, k)
    BY <2>3 DEF Ahead, InTables
  <2> QED
    BY <2>1, <2>2, <2>3 DEF WalkOK
<1> QED
  BY <1>1 DEF WalkOK, InTables

LEMMA GetDbSchemasStep ==
  ASSUME IInv, NEW r \in Readers, GetDbSchemas(r)
  PROVE  IInv'
<1> DEFINE u == reader[r]
<1>1. /\ u.step = "schemas" /\ u.catalogs # {}
      /\ UNCHANGED <<Unseen, cache>>
  BY DEF GetDbSchemas
<1>2. WalkOK(u, seen[r], stayed[r]) /\ DOMAIN u = ReaderFields
  BY <1>1, Walks DEF Working
<1>3. CASE Below(u.call)
  <2> DEFINE w == [u EXCEPT !.step = "tables"]
  <2>1. reader' = [reader EXCEPT ![r] = w]
    BY <1>3 DEF GetDbSchemas, Below
  <2> HIDE DEF u
  <2>2. /\ DOMAIN w = ReaderFields /\ w.step = "tables" /\ w.call = u.call
        /\ w.catalogs = u.catalogs /\ w.tables = u.tables /\ w.listed = u.listed
    BY <1>2 DEF ReaderFields
  <2> HIDE DEF w
  <2>3. \A k : Ahead(u, k) => Ahead(w, k)
    BY <1>1, <2>2 DEF Ahead, InTables
  <2>4. WalkOK(w, seen[r], stayed[r])
    BY <1>1, <1>2, <1>3, <2>2, <2>3 DEF WalkOK, InTables
  <2> QED
    BY <1>1, <2>1, <2>2, <2>4, WalkStep, CacheStays DEF u, IInv, Unseen, Working
<1>4. CASE ~Below(u.call)
  <2> DEFINE w == [u EXCEPT !.catalogs = u.catalogs \ {First(u.catalogs)}]
  <2>1. reader' = [reader EXCEPT ![r] = w]
    BY <1>4 DEF GetDbSchemas, Below, Catalog
  <2> HIDE DEF u
  <2>2. /\ DOMAIN w = ReaderFields /\ w.step = "schemas" /\ w.call = u.call
        /\ w.catalogs = u.catalogs \ {First(u.catalogs)}
        /\ w.tables = u.tables /\ w.listed = u.listed
    BY <1>1, <1>2 DEF ReaderFields
  <2> HIDE DEF w
  <2>3. Wanted(u.call) = {}
    BY <1>4 DEF Wanted
  <2>4. u.tables = {} /\ \A p \in u.listed : Entry(u.call, seen[r], p)
    BY <1>1, <1>2 DEF WalkOK, InTables
  <2>5. WalkOK(w, seen[r], stayed[r])
    BY <1>1, <1>2, <2>2, <2>3, <2>4, NextCatalog
  <2> QED
    BY <1>1, <2>1, <2>2, <2>5, WalkStep, CacheStays DEF u, IInv, Unseen, Working
<1> QED
  BY <1>3, <1>4

LEMMA FinishStep ==
  ASSUME IInv, NEW r \in Readers, Finish(r)
  PROVE  IInv'
<1> DEFINE u == reader[r]
           w == [u EXCEPT !.step = "done"]
<1>1. /\ u.step = "schemas" /\ u.catalogs = {}
      /\ reader' = [reader EXCEPT ![r] = w]
      /\ UNCHANGED <<Unseen, cache>>
  BY DEF Finish
<1>2. WalkOK(u, seen[r], stayed[r]) /\ DOMAIN u = ReaderFields
  BY <1>1, Walks DEF Working
<1> HIDE DEF u
<1>3. /\ DOMAIN w = ReaderFields /\ w.step = "done" /\ w.call = u.call
      /\ w.catalogs = {} /\ w.tables = u.tables /\ w.listed = u.listed
  BY <1>1, <1>2 DEF ReaderFields
<1> HIDE DEF w
<1>4. \A k : ~Ahead(u, k)
  BY <1>1 DEF Ahead, InTables
<1>5. WalkOK(w, seen[r], stayed[r])
  BY <1>1, <1>2, <1>3, <1>4 DEF WalkOK, InTables
<1> QED
  BY <1>1, <1>3, <1>5, WalkStep, CacheStays DEF u, IInv, Unseen, Working

LEMMA TablesEndStep ==
  ASSUME IInv, NEW r \in Readers, TablesEnd(r)
  PROVE  IInv'
<1> DEFINE u == reader[r]
           w == [u EXCEPT !.step = "schemas", !.catalogs = u.catalogs \ {First(u.catalogs)}]
<1>1. /\ u.step = "columns" /\ u.tables = {}
      /\ reader' = [reader EXCEPT ![r] = w]
      /\ UNCHANGED <<Unseen, cache>>
  BY DEF TablesEnd, Catalog
<1>2. WalkOK(u, seen[r], stayed[r]) /\ DOMAIN u = ReaderFields
  BY <1>1, Walks DEF Working, InTables
<1> HIDE DEF u
<1>3. /\ DOMAIN w = ReaderFields /\ w.step = "schemas" /\ w.call = u.call
      /\ w.catalogs = u.catalogs \ {First(u.catalogs)}
      /\ w.tables = u.tables /\ w.listed = u.listed
  BY <1>1, <1>2 DEF ReaderFields
<1> HIDE DEF w
<1>4. u.catalogs # {} /\ \A p \in u.listed : Entry(u.call, seen[r], p)
  BY <1>1, <1>2 DEF WalkOK, InTables
<1>5. \A k \in stayed[r] \cap Wanted(u.call) :
        k[1] = First(u.catalogs) => Named(u.listed, k)
  BY <1>1, <1>2 DEF WalkOK, Ahead, InTables
<1>6. WalkOK(w, seen[r], stayed[r])
  BY <1>1, <1>2, <1>3, <1>4, <1>5, NextCatalog DEF InTables
<1> QED
  BY <1>1, <1>3, <1>6, WalkStep, CacheStays DEF u, IInv, Unseen, Working, InTables

LEMMA GetTablesStep ==
  ASSUME IInv, NEW r \in Readers, GetTables(r)
  PROVE  IInv'
<1> DEFINE u == reader[r]
           c == First(u.catalogs)
           there == {t \in Containers : live[<<c, t>>] # Absent}
           names == IF WantsTables(u.call) THEN Retain(there, u.call.table) ELSE {}
<1>1. u.step = "tables" /\ UNCHANGED <<Unseen, cache>>
  BY DEF GetTables
<1>2. WalkOK(u, seen[r], stayed[r]) /\ DOMAIN u = ReaderFields
  BY <1>1, Walks DEF Working
<1>3. /\ u.catalogs # {} /\ Below(u.call) /\ u.tables = {}
      /\ c \in u.catalogs /\ c \in Retain(Databases, u.call.catalog) /\ c \in Databases
  BY <1>1, <1>2, CatalogIsOne DEF WalkOK, InTables
<1>4. stayed[r] \subseteq Existing /\ Existing \subseteq seen[r]
  BY <1>1 DEF IInv, SeenOK, Busy
<1>5. \A t \in names : <<c, t>> \in seen[r] \cap Wanted(u.call) /\ t \in Containers
  <2> SUFFICES ASSUME NEW t \in names
               PROVE  <<c, t>> \in seen[r] \cap Wanted(u.call) /\ t \in Containers
    OBVIOUS
  <2>1. WantsTables(u.call) /\ t \in Containers /\ live[<<c, t>>] # Absent
    BY DEF Retain
  <2>2. t \in Retain(Containers, u.call.table)
    BY <2>1 DEF Retain
  <2>3. <<c, t>> \in Keys
    BY <1>3, <2>1 DEF Keys
  <2>4. <<c, t>> \in seen[r]
    BY <1>4, <2>1, <2>3 DEF Existing
  <2>5. <<c, t>> \in Wanted(u.call)
    BY <1>3, <2>1, <2>2, <2>3 DEF Wanted
  <2> QED
    BY <2>1, <2>4, <2>5
<1>6. \A k \in stayed[r] \cap Wanted(u.call) : k[1] = c => k[2] \in names /\ k = <<k[1], k[2]>>
  <2> SUFFICES ASSUME NEW k \in stayed[r] \cap Wanted(u.call), k[1] = c
               PROVE  k[2] \in names /\ k = <<k[1], k[2]>>
    OBVIOUS
  <2>1. k = <<c, k[2]>> /\ k[2] \in Containers /\ WantsTables(u.call)
        /\ k[2] \in Retain(Containers, u.call.table)
    BY DEF Wanted, Keys
  <2>2. k[2] \in there
    BY <1>4, <2>1 DEF Existing
  <2> QED
    BY <2>1, <2>2 DEF Retain
<1> HIDE DEF names
<1>7. CASE u.call.depth = "columns"
  <2> DEFINE w == [u EXCEPT !.step = "columns", !.tables = names]
  <2>1. reader' = [reader EXCEPT ![r] = w]
    BY <1>7 DEF GetTables, Catalog, names
  <2> HIDE DEF u
  <2>2. /\ DOMAIN w = ReaderFields /\ w.step = "columns" /\ w.call = u.call
        /\ w.catalogs = u.catalogs /\ w.tables = names /\ w.listed = u.listed
    BY <1>2 DEF ReaderFields
  <2> HIDE DEF w
  <2>3. ASSUME NEW k \in stayed[r] \cap Wanted(u.call), Ahead(u, k)
        PROVE  Ahead(w, k)
    <3>1. k[1] \in u.catalogs
      BY <1>1, <2>3 DEF Ahead, InTables
    <3> QED
      BY <1>6, <2>2, <2>3, <3>1 DEF Ahead, InTables
  <2>4. WalkOK(w, seen[r], stayed[r])
    BY <1>2, <1>3, <1>5, <1>7, <2>2, <2>3 DEF WalkOK, InTables
  <2> QED
    BY <1>1, <2>1, <2>2, <2>4, WalkStep, CacheStays DEF u, IInv, Unseen, Working, InTables
<1>8. CASE u.call.depth # "columns"
  <2> DEFINE w == [u EXCEPT !.step = "schemas", !.catalogs = u.catalogs \ {c},
                            !.listed = u.listed \cup {<<c, t>> : t \in names}]
  <2>1. reader' = [reader EXCEPT ![r] = w]
    BY <1>8 DEF GetTables, Catalog, names
  <2> HIDE DEF u
  <2>2. /\ DOMAIN w = ReaderFields /\ w.step = "schemas" /\ w.call = u.call
        /\ w.catalogs = u.catalogs \ {First(u.catalogs)} /\ w.tables = {}
        /\ w.listed = u.listed \cup {<<c, t>> : t \in names}
    BY <1>2, <1>3 DEF ReaderFields
  <2> HIDE DEF w
  <2>3. \A p \in w.listed : Entry(w.call, seen[r], p)
    <3>1. \A p \in u.listed : Entry(u.call, seen[r], p)
      BY <1>2 DEF WalkOK
    <3>2. ASSUME NEW t \in names PROVE Entry(u.call, seen[r], <<c, t>>)
      BY <1>5 DEF Entry
    <3> QED
      BY <2>2, <3>1, <3>2
  <2>4. \A k \in stayed[r] \cap Wanted(u.call) : k[1] = c => Named(w.listed, k)
    BY <1>6, <2>2 DEF Named
  <2>5. WalkOK(w, seen[r], stayed[r])
    BY <1>1, <1>2, <1>3, <2>2, <2>3, <2>4, NextCatalog
  <2> QED
    BY <1>1, <2>1, <2>2, <2>5, WalkStep, CacheStays DEF u, IInv, Unseen, Working, InTables
<1> QED
  BY <1>7, <1>8

(* The columns of one container are listed: of fields it had at some time. *)
LEMMA ListedStep ==
  ASSUME IInv, NEW r \in Readers, reader[r].step \in InTables, reader[r].tables # {},
         NEW fields \in held[KeyOf(r)] \ {Absent}, Listed(r, fields), UNCHANGED Unseen
  PROVE  AccountOK' /\ SeenOK' /\ ReadersOK'
<1> DEFINE u == reader[r]
           c == First(u.catalogs)
           t == First(u.tables)
           columns == Retain(fields, u.call.column)
           w == [u EXCEPT !.step = "columns", !.tables = u.tables \ {t}, !.fields = {},
                          !.listed = u.listed \cup {<<c, t, columns>>}]
<1>1. reader' = [reader EXCEPT ![r] = w] /\ fields \in held[<<c, t>>] \ {Absent}
  BY DEF Listed, Table, Catalog, KeyOf
<1>2. WalkOK(u, seen[r], stayed[r]) /\ DOMAIN u = ReaderFields
  BY Walks DEF Working
<1>3. t \in u.tables /\ <<c, t>> \in seen[r] \cap Wanted(u.call)
  BY <1>2, TableIsOne DEF WalkOK
<1> HIDE DEF u
<1>4. /\ DOMAIN w = ReaderFields /\ w.step = "columns" /\ w.call = u.call
      /\ w.catalogs = u.catalogs /\ w.tables = u.tables \ {t}
      /\ w.listed = u.listed \cup {<<c, t, columns>>}
  BY <1>2 DEF ReaderFields
<1> HIDE DEF w
<1>5. u.step \in InTables
  BY DEF u
<1>6. \A p \in w.listed : Entry(w.call, seen[r], p)
  <2>1. \A p \in u.listed : Entry(u.call, seen[r], p)
    BY <1>2 DEF WalkOK
  <2>2. Entry(u.call, seen[r], <<c, t, columns>>)
    <3> DEFINE k == <<c, t>>
    <3>1. k \in seen[r] \cap Wanted(u.call) /\ k[1] = c /\ k[2] = t /\ fields \in held[k] \ {Absent}
      BY <1>1, <1>3
    <3> HIDE DEF k
    <3> QED
      BY <3>1 DEF Entry
  <2> QED
    BY <1>4, <2>1, <2>2
<1>7. ASSUME NEW k \in stayed[r] \cap Wanted(u.call)
      PROVE  Named(w.listed, k) \/ Ahead(w, k)
  <2>1. Named(u.listed, k) \/ Ahead(u, k)
    BY <1>2 DEF WalkOK
  <2>2. CASE k[1] = c /\ k[2] = t
    BY <1>4, <2>2 DEF Named
  <2>3. CASE ~(k[1] = c /\ k[2] = t)
    BY <1>4, <1>5, <2>1, <2>3 DEF Named, Ahead, InTables
  <2> QED
    BY <2>2, <2>3
<1>8. WalkOK(w, seen[r], stayed[r])
  BY <1>2, <1>4, <1>5, <1>6, <1>7 DEF WalkOK, InTables
<1> QED
  BY <1>1, <1>4, <1>5, <1>8, WalkStep DEF u, Working, InTables

LEMMA KeyIsOne ==
  ASSUME IInv, NEW r \in Readers, reader[r].step \in InTables, reader[r].tables # {}
  PROVE  KeyOf(r) \in Keys
<1>1. WalkOK(reader[r], seen[r], stayed[r])
  BY Walks DEF Working
<1> QED
  BY <1>1, TableIsOne DEF WalkOK, KeyOf, Catalog, Table, Wanted

LEMMA LookUpStep ==
  ASSUME IInv, NEW r \in Readers, LookUp(r)
  PROVE  IInv'
<1>1. /\ reader[r].step = "columns" /\ reader[r].tables # {}
      /\ UNCHANGED <<Unseen, cache>>
  BY DEF LookUp
<1>2. CASE KeyOf(r) \in DOMAIN cache
  <2>1. cache[KeyOf(r)] \in held[KeyOf(r)] \ {Absent} /\ Listed(r, cache[KeyOf(r)])
    BY <1>2 DEF LookUp, IInv, CacheOK
  <2> QED
    BY <1>1, <2>1, ListedStep, CacheStays DEF IInv, Unseen, InTables
<1>3. CASE KeyOf(r) \notin DOMAIN cache
  <2> DEFINE u == reader[r]
             w == [u EXCEPT !.step = "sampling"]
  <2>1. reader' = [reader EXCEPT ![r] = w]
    BY <1>3 DEF LookUp
  <2>2. WalkOK(u, seen[r], stayed[r]) /\ DOMAIN u = ReaderFields
    BY <1>1, Walks DEF Working, InTables
  <2> HIDE DEF u
  <2>3. /\ DOMAIN w = ReaderFields /\ w.step = "sampling" /\ w.call = u.call
        /\ w.catalogs = u.catalogs /\ w.tables = u.tables /\ w.listed = u.listed
    BY <2>2 DEF ReaderFields
  <2> HIDE DEF w
  <2>4. u.step = "columns" /\ u.tables # {}
    BY <1>1 DEF u
  <2>5. \A k : Ahead(u, k) => Ahead(w, k)
    BY <2>3, <2>4 DEF Ahead, InTables
  <2>6. WalkOK(w, seen[r], stayed[r])
    BY <2>2, <2>3, <2>4, <2>5 DEF WalkOK, InTables
  <2> QED
    BY <1>1, <2>1, <2>3, <2>4, <2>6, WalkStep, CacheStays DEF u, IInv, Unseen, Working, InTables
<1> QED
  BY <1>2, <1>3

LEMMA SampleDocsStep ==
  ASSUME IInv, NEW r \in Readers, SampleDocs(r)
  PROVE  IInv'
<1> DEFINE u == reader[r]
           w == [u EXCEPT !.step = "inserting", !.fields = live[KeyOf(r)]]
<1>1. /\ u.step = "sampling" /\ live[KeyOf(r)] \notin {{}, Absent}
      /\ reader' = [reader EXCEPT ![r] = w]
      /\ UNCHANGED <<Unseen, cache>>
  BY DEF SampleDocs
<1>2. WalkOK(u, seen[r], stayed[r]) /\ DOMAIN u = ReaderFields
  BY <1>1, Walks DEF Working, InTables
<1>3. u.tables # {}
  BY <1>1, <1>2 DEF WalkOK
<1>4. live[KeyOf(r)] \in held[KeyOf(r)] /\ KeyOf(r) = <<First(u.catalogs), First(u.tables)>>
  BY <1>1, <1>3, KeyIsOne DEF IInv, AccountOK, InTables, KeyOf, Catalog, Table
<1> DEFINE fields == live[KeyOf(r)]
<1> HIDE DEF u, fields
<1>5. /\ DOMAIN w = ReaderFields /\ w.step = "inserting" /\ w.call = u.call
      /\ w.catalogs = u.catalogs /\ w.tables = u.tables /\ w.listed = u.listed
      /\ w.fields = fields
  BY <1>2 DEF ReaderFields, fields
<1> HIDE DEF w
<1>6. fields \in held[<<First(w.catalogs), First(w.tables)>>] \ {{}, Absent}
  BY <1>1, <1>4, <1>5 DEF fields
<1>7. \A k : Ahead(u, k) => Ahead(w, k)
  BY <1>1, <1>5 DEF Ahead, InTables
<1>8. WalkOK(w, seen[r], stayed[r])
  BY <1>1, <1>2, <1>3, <1>5, <1>6, <1>7 DEF WalkOK, InTables
<1> QED
  BY <1>1, <1>5, <1>8, WalkStep, CacheStays DEF u, IInv, Unseen, Working, InTables

LEMMA SampleEmptyStep ==
  ASSUME IInv, NEW r \in Readers, SampleEmpty(r)
  PROVE  IInv'
<1>1. /\ reader[r].step = "sampling" /\ live[KeyOf(r)] = {} /\ Listed(r, {})
      /\ UNCHANGED <<Unseen, cache>>
  BY DEF SampleEmpty
<1>2. reader[r].tables # {}
  BY <1>1, Walks DEF WalkOK, Working, InTables
<1>3. {} \in held[KeyOf(r)] \ {Absent}
  BY <1>1, <1>2, KeyIsOne, StartAssumption DEF IInv, AccountOK, InTables
<1> QED
  BY <1>1, <1>2, <1>3, ListedStep, CacheStays DEF IInv, Unseen, InTables

LEMMA InsertStep ==
  ASSUME IInv, NEW r \in Readers, Insert(r)
  PROVE  IInv'
<1> DEFINE u == reader[r]
           key == KeyOf(r)
<1>1. /\ u.step = "inserting" /\ Listed(r, u.fields) /\ UNCHANGED Unseen
      /\ cache' = [k \in DOMAIN cache \cup {key} |-> IF k = key THEN u.fields ELSE cache[k]]
  BY DEF Insert
<1>2. WalkOK(u, seen[r], stayed[r])
  BY <1>1, Walks DEF Working, InTables
<1>3. u.tables # {} /\ u.fields \in held[key] \ {{}, Absent}
  BY <1>1, <1>2 DEF WalkOK, KeyOf, Catalog, Table
<1>4. key \in Keys
  BY <1>1, <1>3, KeyIsOne DEF InTables
<1>5. CacheOK'
  <2>1. UNCHANGED held
    BY <1>1 DEF Unseen
  <2> HIDE DEF u, key
  <2> QED
    BY <1>1, <1>3, <1>4, <2>1 DEF IInv, CacheOK
<1> QED
  BY <1>1, <1>3, <1>5, ListedStep DEF IInv, InTables

(* A call that fails, and one that begins. *)
LEMMA RefusedStep ==
  ASSUME IInv, NEW r \in Readers, Refused(r)
  PROVE  IInv'
<1>1. /\ reader' = [reader EXCEPT ![r] = Begun("failed", NoCall)]
      /\ seen' = [seen EXCEPT ![r] = {}]
      /\ stayed' = [stayed EXCEPT ![r] = {}]
      /\ UNCHANGED <<live, changes, cache, held>>
  BY DEF Refused
<1>2. AccountOK' /\ CacheOK'
  BY <1>1 DEF IInv, AccountOK, CacheOK
<1>3. \A q \in Readers : q # r =>
        reader'[q] = reader[q] /\ seen'[q] = seen[q] /\ stayed'[q] = stayed[q]
  BY <1>1 DEF IInv, ReadersOK, SeenOK
<1>4. reader'[r] = Begun("failed", NoCall)
  BY <1>1 DEF IInv, ReadersOK
<1>5. SeenOK'
  <2>1. ~Busy(r)'
    BY <1>4 DEF Busy, Begun
  <2> QED
    BY <1>1, <1>3, <2>1 DEF IInv, SeenOK, Existing, Busy
<1>6. ASSUME NEW q \in Readers PROVE ReaderOK(q, reader[q], seen[q], stayed[q])'
  <2>1. \A call, s, p : Entry(call, s, p)' <=> Entry(call, s, p)
    BY <1>1 DEF Entry
  <2>2. CASE q # r
    <3>1. ReaderOK(q, reader'[q], seen'[q], stayed'[q])
      BY <1>3, <2>2 DEF IInv, ReadersOK
    <3> QED
      BY <1>1, <2>1, <3>1 DEF ReaderOK, WalkOK
  <2>3. CASE q = r
    <3>1. ReaderOK(r, reader'[r], seen'[r], stayed'[r])
      BY <1>4, BegunOK
    <3> QED
      BY <1>1, <2>1, <2>3, <3>1 DEF ReaderOK, WalkOK
  <2> QED
    BY <2>2, <2>3
<1>7. ReadersOK'
  BY <1>1, <1>6 DEF IInv, ReadersOK
<1> QED
  BY <1>2, <1>5, <1>7 DEF IInv

LEMMA GetObjectsStep ==
  ASSUME IInv, NEW r \in Readers, NEW call \in Calls[r], GetObjects(r, call)
  PROVE  IInv'
<1>1. /\ reader' = [reader EXCEPT ![r] = Begun("catalogs", call)]
      /\ seen' = [seen EXCEPT ![r] = Existing]
      /\ stayed' = [stayed EXCEPT ![r] = Existing]
      /\ UNCHANGED <<live, changes, cache, held>>
  BY DEF GetObjects
<1>2. AccountOK' /\ CacheOK'
  BY <1>1 DEF IInv, AccountOK, CacheOK
<1>3. \A q \in Readers : q # r =>
        reader'[q] = reader[q] /\ seen'[q] = seen[q] /\ stayed'[q] = stayed[q]
  BY <1>1 DEF IInv, ReadersOK, SeenOK
<1>4. reader'[r] = Begun("catalogs", call) /\ seen'[r] = Existing /\ stayed'[r] = Existing
  BY <1>1 DEF IInv, ReadersOK, SeenOK
<1>5. SeenOK'
  <2>1. Existing' = Existing
    BY <1>1 DEF Existing
  <2>2. \A q \in Readers : q # r => (Busy(q)' <=> Busy(q))
    BY <1>3 DEF Busy
  <2> QED
    BY <1>1, <1>3, <1>4, <2>1, <2>2 DEF IInv, SeenOK
<1>6. ASSUME NEW q \in Readers PROVE ReaderOK(q, reader[q], seen[q], stayed[q])'
  <2>1. \A c, s, p : Entry(c, s, p)' <=> Entry(c, s, p)
    BY <1>1 DEF Entry
  <2>2. CASE q # r
    <3>1. ReaderOK(q, reader'[q], seen'[q], stayed'[q])
      BY <1>3, <2>2 DEF IInv, ReadersOK
    <3> QED
      BY <1>1, <2>1, <3>1 DEF ReaderOK, WalkOK
  <2>3. CASE q = r
    <3>1. ReaderOK(r, reader'[r], seen'[r], stayed'[r])
      BY <1>4, BegunOK
    <3> QED
      BY <1>1, <2>1, <2>3, <3>1 DEF ReaderOK, WalkOK
  <2> QED
    BY <2>2, <2>3
<1>7. ReadersOK'
  BY <1>1, <1>6 DEF IInv, ReadersOK
<1> QED
  BY <1>2, <1>5, <1>7 DEF IInv

(* Another client changes the account: more was seen, less stayed, and     *)
(* what was held before is still among what was ever held.                 *)
LEMMA ChangeStep ==
  ASSUME IInv, NEW k \in Keys, NEW what \in FieldSets \cup {Absent}, Change(k, what)
  PROVE  IInv'
<1>1. /\ live' = [live EXCEPT ![k] = what]
      /\ held' = [held EXCEPT ![k] = @ \cup {what}]
      /\ seen' = [r \in Readers |->
                    IF Busy(r) /\ what # Absent THEN seen[r] \cup {k} ELSE seen[r]]
      /\ stayed' = [r \in Readers |->
                      IF Busy(r) /\ what = Absent THEN stayed[r] \ {k} ELSE stayed[r]]
      /\ UNCHANGED <<cache, reader>>
  BY DEF Change
<1>2. \A key \in Keys : held[key] \subseteq held'[key]
  BY <1>1 DEF IInv, AccountOK
<1>3. \A key \in Keys : live'[key] = (IF key = k THEN what ELSE live[key])
  BY <1>1 DEF IInv, AccountOK
<1>4. AccountOK'
  <2>1. live' \in [Keys -> FieldSets \cup {Absent}]
    BY <1>1 DEF IInv, AccountOK
  <2>2. \A key \in Keys : held'[key] = IF key = k THEN held[key] \cup {what} ELSE held[key]
    BY <1>1 DEF IInv, AccountOK
  <2>3. held' = [key \in Keys |-> held'[key]]
    BY <1>1 DEF IInv, AccountOK
  <2> QED
    BY <1>3, <2>1, <2>2, <2>3 DEF IInv, AccountOK
<1>5. CacheOK'
  BY <1>1, <1>2 DEF IInv, CacheOK
<1>6. \A r \in Readers : seen[r] \subseteq seen'[r] /\ stayed'[r] \subseteq stayed[r]
  BY <1>1
<1>7. SeenOK'
  <2>1. seen' = [r \in Readers |-> seen'[r]] /\ stayed' = [r \in Readers |-> stayed'[r]]
    BY <1>1
  <2>2. ASSUME NEW r \in Readers, Busy(r)'
        PROVE  stayed'[r] \subseteq Existing' /\ Existing' \subseteq seen'[r]
    <3>1. Busy(r)
      BY <1>1, <2>2 DEF Busy
    <3>2. stayed[r] \subseteq Existing /\ Existing \subseteq seen[r]
      BY <3>1 DEF IInv, SeenOK
    <3>3. CASE what = Absent
      <4>1. Existing' = Existing \ {k}
        BY <1>3, <3>3 DEF Existing
      <4>2. seen'[r] = seen[r] /\ stayed'[r] = stayed[r] \ {k}
        BY <1>1, <3>1, <3>3
      <4> QED
        BY <3>2, <4>1, <4>2
    <3>4. CASE what # Absent
      <4>1. Existing' = Existing \cup {k}
        BY <1>3, <3>4 DEF Existing
      <4>2. seen'[r] = seen[r] \cup {k} /\ stayed'[r] = stayed[r]
        BY <1>1, <3>1, <3>4
      <4> QED
        BY <3>2, <4>1, <4>2
    <3> QED
      BY <3>3, <3>4
  <2> QED
    BY <2>1, <2>2 DEF SeenOK
<1>8. ASSUME NEW r \in Readers PROVE ReaderOK(r, reader[r], seen[r], stayed[r])'
  <2> DEFINE w == reader[r]
  <2>1. ReaderOK(r, w, seen[r], stayed[r]) /\ w' = w
    BY <1>1 DEF IInv, ReadersOK
  <2>2. \A call, p : Entry(call, seen[r], p) => Entry(call, seen[r], p)'
    <3> SUFFICES ASSUME NEW call, NEW p, Entry(call, seen[r], p)
                 PROVE  Entry(call, seen[r], p)'
      OBVIOUS
    <3>1. CASE \E d \in Retain(Databases, call.catalog) : p = <<d>>
      BY <3>1 DEF Entry
    <3>2. CASE \E key \in seen[r] \cap Wanted(call) : p = <<key[1], key[2]>>
      BY <1>6, <3>2 DEF Entry
    <3>3. CASE \E key \in seen[r] \cap Wanted(call) : \E fields \in held[key] \ {Absent} :
                 p = <<key[1], key[2], Retain(fields, call.column)>>
      <4>1. PICK key \in seen[r] \cap Wanted(call) : \E fields \in held[key] \ {Absent} :
                   p = <<key[1], key[2], Retain(fields, call.column)>>
        BY <3>3
      <4>2. key \in Keys
        BY DEF Wanted
      <4> QED
        BY <1>2, <1>6, <4>1, <4>2 DEF Entry
    <3> QED
      BY <3>1, <3>2, <3>3 DEF Entry
  <2> HIDE DEF w
  <2>3. ASSUME w.step \in Working, WalkOK(w, seen[r], stayed[r])
        PROVE  WalkOK(w, seen[r], stayed[r])'
    <3>1. w.step = "inserting" =>
            w.fields \in held'[<<First(w.catalogs), First(w.tables)>>] \ {{}, Absent}
      <4> SUFFICES ASSUME w.step = "inserting"
                   PROVE  w.fields \in held'[<<First(w.catalogs), First(w.tables)>>] \ {{}, Absent}
        OBVIOUS
      <4>1. w.tables # {}
        BY <2>3 DEF WalkOK
      <4>2. First(w.tables) \in w.tables
        BY <2>3, <4>1, TableIsOne
      <4>3. <<First(w.catalogs), First(w.tables)>> \in Keys
        BY <2>3, <4>2 DEF WalkOK, Wanted
      <4> QED
        BY <1>2, <2>3, <4>3 DEF WalkOK
    <3>2. \A t \in w.tables : <<First(w.catalogs), t>> \in seen'[r] \cap Wanted(w.call)
      BY <1>6, <2>3 DEF WalkOK
    <3>3. \A p \in w.listed : Entry(w.call, seen[r], p)'
      BY <2>1, <2>2, <2>3 DEF WalkOK
    <3>4. \A key \in stayed'[r] \cap Wanted(w.call) : Named(w.listed, key) \/ Ahead(w, key)
      BY <1>6, <2>3 DEF WalkOK
    <3> QED
      BY <2>1, <2>3, <3>1, <3>2, <3>3, <3>4 DEF WalkOK
  <2>4. ReaderOK(r, w, seen[r], stayed[r])'
    BY <2>1, <2>3 DEF ReaderOK
  <2> QED
    BY <2>4 DEF w
<1>9. ReadersOK'
  BY <1>1, <1>8 DEF IInv, ReadersOK
<1> QED
  BY <1>4, <1>5, <1>7, <1>9 DEF IInv

LEMMA NextInv == IInv /\ [Next]_vars => IInv'
<1> SUFFICES ASSUME IInv, [Next]_vars PROVE IInv'
  OBVIOUS
<1>1. ASSUME NEW r \in Readers, NEW call \in Calls[r], GetObjects(r, call)
      PROVE  IInv'
  BY <1>1, GetObjectsStep
<1>2. ASSUME NEW r \in Readers, OwnStep(r)
      PROVE  IInv'
  BY <1>2, GetDbSchemasStep, FinishStep, LookUpStep, InsertStep, TablesEndStep DEF OwnStep
<1>3. ASSUME NEW r \in Readers, Answered(r)
      PROVE  IInv'
  BY <1>3, GetCatalogsStep, GetTablesStep, SampleDocsStep, SampleEmptyStep DEF Answered, Heard
<1>4. ASSUME NEW r \in Readers, Refused(r)
      PROVE  IInv'
  BY <1>4, RefusedStep
<1>5. ASSUME NEW k \in Keys, NEW what \in FieldSets \cup {Absent}, Change(k, what)
      PROVE  IInv'
  BY <1>5, ChangeStep
<1>6. ASSUME UNCHANGED vars
      PROVE  IInv'
  <2>1. UNCHANGED <<live, cache, reader, seen, stayed, held>>
    BY <1>6 DEF vars
  <2>2. AccountOK' /\ CacheOK'
    BY <2>1 DEF IInv, AccountOK, CacheOK
  <2>3. SeenOK'
    BY <2>1 DEF IInv, SeenOK, Existing, Busy
  <2>4. ReadersOK'
    BY <2>1 DEF IInv, ReadersOK, ReaderOK, WalkOK, Entry
  <2> QED
    BY <2>2, <2>3, <2>4 DEF IInv
<1> QED
  BY <1>1, <1>2, <1>3, <1>4, <1>5, <1>6 DEF Next

(* Of every listing it is known what may be in it, what must be, and what  *)
(* is still ahead, whatever the other readers and the account do meanwhile. *)
THEOREM Invariance == Spec => []IInv
<1>1. Init => IInv
  BY InitInv
<1>2. IInv /\ [Next]_vars => IInv'
  BY NextInv
<1> QED
  BY <1>1, <1>2, PTL DEF Spec

(* The cache only holds what a container once held, and a call that failed *)
(* lists nothing.                                                          *)
THEOREM TypeCorrect == Spec => []TypeOK
<1>1. ASSUME IInv PROVE TypeOK
  <2>1. ASSUME NEW r \in Readers
        PROVE  /\ reader[r].step \in InTables => reader[r].call.depth = "columns"
               /\ reader[r].step \in {"sampling", "inserting"} => reader[r].tables # {}
               /\ reader[r].step = "failed" => reader[r].listed = {}
    <3>1. ReaderOK(r, reader[r], seen[r], stayed[r])
      BY <1>1 DEF IInv, ReadersOK
    <3> QED
      BY <3>1 DEF ReaderOK, WalkOK, Working, InTables
  <2>2. ASSUME NEW r \in Readers, reader[r].step \in {"sampling", "inserting"}
        PROVE  KeyOf(r) \in Keys
    BY <1>1, <2>1, <2>2, KeyIsOne DEF InTables
  <2> QED
    BY <1>1, <2>1, <2>2 DEF TypeOK, IInv, AccountOK, CacheOK, InTables
<1> QED
  BY <1>1, Invariance, PTL

(* What a listing that has ended names is what ListsWhatIsThere says.      *)
LEMMA DoneIsTrue ==
  ASSUME IInv
  PROVE  ListsWhatIsThere
<1> SUFFICES ASSUME NEW r \in Readers, reader[r].step = "done"
             PROVE  LET call == reader[r].call
                        listed == reader[r].listed
                        deep == /\ call.depth \in {"tables", "columns"}
                                /\ Fits(call.schema, <<>>) /\ WantsTables(call)
                        fitting == {k \in Keys : /\ deep
                                                 /\ Fits(call.catalog, k[1])
                                                 /\ Fits(call.table, k[2])}
                        tables == {<<p[1], p[2]>> : p \in {q \in listed : Len(q) > 1}}
                    IN  /\ {p[1] : p \in listed} = {d \in Databases : Fits(call.catalog, d)}
                        /\ stayed[r] \cap fitting \subseteq tables
                        /\ tables \subseteq seen[r] \cap fitting
                        /\ \A p \in listed : Len(p) = 3 =>
                             \E fields \in held[<<p[1], p[2]>>] \ {Absent} :
                               p[3] = {f \in fields : Fits(call.column, f)}
  BY DEF ListsWhatIsThere
<1> DEFINE u == reader[r]
           call == u.call
           deep == /\ call.depth \in {"tables", "columns"}
                   /\ Fits(call.schema, <<>>) /\ WantsTables(call)
           fitting == {k \in Keys : deep /\ Fits(call.catalog, k[1]) /\ Fits(call.table, k[2])}
           tables == {<<p[1], p[2]>> : p \in {q \in u.listed : Len(q) > 1}}
<1>1. WalkOK(u, seen[r], stayed[r]) /\ call \in Calls[r]
  BY Walks DEF Working
<1>2. \A f \in {call.catalog, call.schema, call.table, call.column} : f # None => WellFormed(f)
  BY <1>1, FiltersAssumption DEF Filters
<1>3. Retain(Databases, call.catalog) = {d \in Databases : Fits(call.catalog, d)}
  BY <1>2, NamesAssumption, FitsIsMatch
<1>4. Retain(Containers, call.table) = {t \in Containers : Fits(call.table, t)}
  BY <1>2, NamesAssumption, FitsIsMatch
<1>5. Retain({<<>>}, call.schema) # {} <=> Fits(call.schema, <<>>)
  <2>1. \A name \in {<<>>} : OneLine(name)
    BY DEF OneLine
  <2>2. Retain({<<>>}, call.schema) = {name \in {<<>>} : Fits(call.schema, name)}
    BY <1>2, <2>1, FitsIsMatch
  <2> QED
    BY <2>2
<1>6. ASSUME NEW fields \in FieldSets
      PROVE  Retain(fields, call.column) = {f \in fields : Fits(call.column, f)}
  <2>1. \A f \in fields : OneLine(f)
    BY NamesAssumption
  <2> QED
    BY <1>2, <2>1, FitsIsMatch
<1>7. Wanted(call) = fitting
  BY <1>3, <1>4, <1>5 DEF Wanted, Below, Keys
<1> HIDE DEF fitting, deep
<1>8. \A k : ~Ahead(u, k)
  BY <1>1 DEF Ahead, InTables
<1>9. \A p \in u.listed : Entry(call, seen[r], p)
  BY <1>1 DEF WalkOK
<1>10. ASSUME NEW p \in u.listed
       PROVE  /\ p[1] \in Retain(Databases, call.catalog)
              /\ Len(p) > 1 => <<p[1], p[2]>> \in seen[r] \cap fitting
              /\ Len(p) = 3 => \E fields \in held[<<p[1], p[2]>>] \ {Absent} :
                                 p[3] = {f \in fields : Fits(call.column, f)}
  <2>0. Entry(call, seen[r], p)
    BY <1>9
  <2>1. CASE \E d \in Retain(Databases, call.catalog) : p = <<d>>
    BY <2>1
  <2>2. ASSUME NEW k \in seen[r] \cap Wanted(call)
        PROVE  /\ k[1] \in Retain(Databases, call.catalog)
               /\ k = <<k[1], k[2]>> /\ k \in Keys
    BY DEF Wanted, Keys
  <2>3. CASE \E k \in seen[r] \cap Wanted(call) : p = <<k[1], k[2]>>
    BY <1>7, <2>2, <2>3
  <2>4. CASE \E k \in seen[r] \cap Wanted(call) : \E fields \in held[k] \ {Absent} :
               p = <<k[1], k[2], Retain(fields, call.column)>>
    <3>1. PICK k \in seen[r] \cap Wanted(call) : \E fields \in held[k] \ {Absent} :
               p = <<k[1], k[2], Retain(fields, call.column)>>
      BY <2>4
    <3>2. PICK fields \in held[k] \ {Absent} : p = <<k[1], k[2], Retain(fields, call.column)>>
      BY <3>1
    <3>3. k[1] \in Retain(Databases, call.catalog) /\ k = <<k[1], k[2]>> /\ k \in Keys
      BY <2>2
    <3>4. fields \in FieldSets
      BY <3>3 DEF IInv, AccountOK
    <3>5. p[1] = k[1] /\ p[2] = k[2] /\ p[3] = {f \in fields : Fits(call.column, f)}
      BY <1>6, <3>2, <3>4
    <3>6. <<p[1], p[2]>> = k
      BY <3>3, <3>5
    <3> QED
      BY <1>7, <3>3, <3>5, <3>6
  <2> QED
    BY <2>0, <2>1, <2>3, <2>4 DEF Entry
<1>11. {p[1] : p \in u.listed} = {d \in Databases : Fits(call.catalog, d)}
  <2>1. \A d \in Retain(Databases, call.catalog) : <<d>> \in u.listed /\ <<d>>[1] = d
    BY <1>1 DEF WalkOK
  <2> DEFINE wanted == Retain(Databases, call.catalog)
             listed == u.listed
  <2>2. \A p \in listed : p[1] \in wanted
    BY <1>10
  <2>3. \A d \in wanted : \E p \in listed : p[1] = d
    BY <2>1
  <2> HIDE DEF wanted, listed
  <2>4. {p[1] : p \in listed} = wanted
    BY <2>2, <2>3
  <2> QED
    BY <1>3, <2>4 DEF wanted, listed
<1>12. stayed[r] \cap fitting \subseteq tables
  <2> SUFFICES ASSUME NEW k \in stayed[r] \cap fitting PROVE k \in tables
    OBVIOUS
  <2>1. Named(u.listed, k)
    BY <1>1, <1>7, <1>8 DEF WalkOK
  <2>2. k = <<k[1], k[2]>>
    BY <1>7 DEF Wanted, Keys
  <2>3. CASE <<k[1], k[2]>> \in u.listed
    <3>1. Len(<<k[1], k[2]>>) = 2 /\ <<k[1], k[2]>>[1] = k[1] /\ <<k[1], k[2]>>[2] = k[2]
      OBVIOUS
    <3> QED
      BY <2>2, <2>3, <3>1
  <2>4. CASE \E columns : <<k[1], k[2], columns>> \in u.listed
    <3>1. PICK columns : <<k[1], k[2], columns>> \in u.listed
      BY <2>4
    <3> DEFINE p == <<k[1], k[2], columns>>
    <3>2. Len(p) = 3 /\ p[1] = k[1] /\ p[2] = k[2] /\ p \in u.listed
      BY <3>1
    <3> QED
      BY <2>2, <3>2
  <2> QED
    BY <2>1, <2>3, <2>4 DEF Named
<1>13. tables \subseteq seen[r] \cap fitting
  BY <1>10
<1>14. \A p \in u.listed : Len(p) = 3 =>
         \E fields \in held[<<p[1], p[2]>>] \ {Absent} : p[3] = {f \in fields : Fits(call.column, f)}
  BY <1>10
<1> QED
  BY <1>11, <1>12, <1>13, <1>14 DEF fitting, deep

(* A listing that ends is true of the account, for any number of readers,  *)
(* names, filters of which metadata.rs:190 says what fits, and changes.    *)
THEOREM ListsTrue == Spec => []ListsWhatIsThere
<1>1. IInv => ListsWhatIsThere
  BY DoneIsTrue
<1> QED
  BY <1>1, Invariance, PTL
=============================================================================
