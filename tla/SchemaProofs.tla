---------------------------- MODULE SchemaProofs ----------------------------
(***************************************************************************)
(* Proofs about changes of a table's structure, from the draft on the      *)
(* screen to the table: a draft becomes the operations that make what is   *)
(* shown, the preview that can be saved is that of the draft, a token's    *)
(* DDL is run once, drift is noticed unless it comes after the request has *)
(* read the structure, and what Execute answers is what became of the      *)
(* table.  They hold for every table, every sequence of edits, every       *)
(* number of requests and every drift.                                     *)
(***************************************************************************)
EXTENDS SchemaService, MCPages, Ordering, FiniteSetTheorems, WellFoundedInduction, TLAPS

-----------------------------------------------------------------------------
(* Sequences, finite sets of numbers in their order, and counting by the   *)
(* least number principle.                                                 *)

\* A sequence, whatever its elements are.
IsSequence(s) == \E S : s \in Seq(S)

\* A larger number has a larger rank.
LEMMA RankIsStrict ==
  ASSUME NEW S, IsFiniteSet(S), S \subseteq Nat, NEW i \in S, NEW j \in S, i < j
  PROVE  /\ Rank(i, S) \in 1..Cardinality(S) /\ Rank(j, S) \in 1..Cardinality(S)
         /\ Rank(i, S) < Rank(j, S)
  <1> DEFINE A == {k \in S : k <= i}  B == {k \in S : k <= j}
  <1>0. i \in Nat /\ j \in Nat /\ i \in A /\ j \in B /\ j \notin A
    OBVIOUS
  <1>1. A \in SUBSET B /\ A # B /\ B \in SUBSET S /\ A \in SUBSET S
    <2>1. \A k \in S : k <= i => k <= j
      BY <1>0
    <2> QED BY <1>0, <2>1
  <1> HIDE DEF A, B
  <1>2. IsFiniteSet(A) /\ IsFiniteSet(B) /\ Cardinality(A) <= Cardinality(S) /\ Cardinality(B) <= Cardinality(S)
    BY <1>1, FS_Subset
  <1>3. Cardinality(A) <= Cardinality(B) /\ Cardinality(A) # Cardinality(B)
    BY <1>1, <1>2, FS_Subset
  <1>4. Cardinality(A) \in Nat /\ Cardinality(B) \in Nat /\ Cardinality(S) \in Nat
    BY <1>2, FS_CardinalityType
  <1>5. Cardinality(A) # 0 /\ Cardinality(B) # 0
    BY <1>0, <1>2, FS_EmptySet
  <1>6. Rank(i, S) = Cardinality(A) /\ Rank(j, S) = Cardinality(B)
    BY DEF Rank, A, B
  <1> QED BY <1>2, <1>3, <1>4, <1>5, <1>6

LEMMA RankInRange ==
  ASSUME NEW S, IsFiniteSet(S), S \subseteq Nat, NEW i \in S
  PROVE  Rank(i, S) \in 1..Cardinality(S)
  <1> DEFINE A == {k \in S : k <= i}
  <1>0. i \in A /\ A \in SUBSET S
    OBVIOUS
  <1> HIDE DEF A
  <1>1. IsFiniteSet(A) /\ Cardinality(A) <= Cardinality(S)
    BY <1>0, FS_Subset
  <1>2. Cardinality(A) \in Nat /\ Cardinality(S) \in Nat /\ Cardinality(A) # 0
    BY <1>0, <1>1, FS_CardinalityType, FS_EmptySet
  <1>3. Rank(i, S) = Cardinality(A)
    BY DEF Rank, A
  <1> QED BY <1>1, <1>2, <1>3

\* Every place up to the size of the set is the rank of one of its numbers.
LEMMA RankIsOnto ==
  ASSUME NEW S, IsFiniteSet(S), S \subseteq Nat, NEW n \in 1..Cardinality(S)
  PROVE  \E i \in S : Rank(i, S) = n
  <1> DEFINE T == 1..Cardinality(S)  f == [i \in S |-> Rank(i, S)]
  <1>0. Cardinality(S) \in Nat
    BY FS_CardinalityType
  <1>1. IsFiniteSet(T) /\ Cardinality(T) = Cardinality(S)
    BY <1>0, FS_Interval
  <1>2. f \in [S -> T]
    BY RankInRange
  <1>3. \A i, j \in S : f[i] = f[j] => i = j
    <2> SUFFICES ASSUME NEW i \in S, NEW j \in S, i # j PROVE f[i] # f[j]
      OBVIOUS
    <2>1. i < j \/ j < i
      OBVIOUS
    <2>2. Rank(i, S) < Rank(j, S) \/ Rank(j, S) < Rank(i, S)
      BY <2>1, RankIsStrict
    <2>3. Rank(i, S) \in 1..Cardinality(S) /\ Rank(j, S) \in 1..Cardinality(S)
      BY RankInRange
    <2>4. Rank(i, S) # Rank(j, S)
      BY <1>0, <2>2, <2>3
    <2> QED BY <2>4
  <1> HIDE DEF T
  <1>4. f \in Injection(S, T)
    <2> HIDE DEF f
    <2> QED BY <1>2, <1>3 DEF Injection, IsInjective
  <1>5. f \in Surjection(S, T)
    BY <1>1, <1>4, FS_Injection
  <1>6. n \in T
    BY DEF T
  <1>7. \E i \in S : f[i] = n
    <2> HIDE DEF f
    <2> QED BY <1>5, <1>6 DEF Surjection
  <1> QED BY <1>7

\* InOrder goes through the set, each number once and the smaller ones first.
LEMMA InOrderEnumerates ==
  ASSUME NEW S, IsFiniteSet(S), S \subseteq Nat
  PROVE  /\ Cardinality(S) \in Nat /\ InOrder(S) \in [1..Cardinality(S) -> S]
         /\ \A m, n \in 1..Cardinality(S) : m < n => InOrder(S)[m] < InOrder(S)[n]
         /\ \A i \in S : \E n \in 1..Cardinality(S) : InOrder(S)[n] = i
  <1>0. Cardinality(S) \in Nat
    BY FS_CardinalityType
  <1>1. \A n \in 1..Cardinality(S) : InOrder(S)[n] \in S /\ Rank(InOrder(S)[n], S) = n
    <2> SUFFICES ASSUME NEW n \in 1..Cardinality(S)
                 PROVE  InOrder(S)[n] \in S /\ Rank(InOrder(S)[n], S) = n
      OBVIOUS
    <2>1. \E i \in S : Rank(i, S) = n
      BY RankIsOnto
    <2>2. InOrder(S)[n] = CHOOSE i \in S : Rank(i, S) = n
      BY DEF InOrder
    <2> QED BY <2>1, <2>2, Zenon
  <1>2. DOMAIN InOrder(S) = 1..Cardinality(S) /\ InOrder(S) = [n \in 1..Cardinality(S) |-> InOrder(S)[n]]
    BY DEF InOrder
  <1>3. InOrder(S) \in [1..Cardinality(S) -> S]
    BY <1>1, <1>2
  <1>4. ASSUME NEW m \in 1..Cardinality(S), NEW n \in 1..Cardinality(S), m < n
        PROVE  InOrder(S)[m] < InOrder(S)[n]
    <2> DEFINE a == InOrder(S)[m]  b == InOrder(S)[n]
    <2>1. a \in S /\ b \in S /\ a \in Nat /\ b \in Nat /\ Rank(a, S) = m /\ Rank(b, S) = n
      BY <1>1
    <2> HIDE DEF a, b
    <2>2. a # b
      BY <1>4, <2>1
    <2>3. b < a => Rank(b, S) < Rank(a, S)
      BY <2>1, RankIsStrict
    <2>4. a < b
      BY <1>0, <1>4, <2>1, <2>2, <2>3
    <2> QED BY <2>4 DEF a, b
  <1>5. ASSUME NEW i \in S
        PROVE  \E n \in 1..Cardinality(S) : InOrder(S)[n] = i
    <2> DEFINE n == Rank(i, S)  a == InOrder(S)[n]
    <2>1. n \in 1..Cardinality(S) /\ n = Rank(i, S)
      BY RankInRange
    <2>2. a \in S /\ Rank(a, S) = n
      BY <1>1, <2>1
    <2> HIDE DEF a
    <2>3. a < i \/ i < a \/ a = i
      BY <2>2
    <2>4. a < i => Rank(a, S) < Rank(i, S)
      BY <2>2, RankIsStrict
    <2>5. i < a => Rank(i, S) < Rank(a, S)
      BY <2>2, RankIsStrict
    <2> HIDE DEF n
    <2>6. n \in Nat /\ ~(n < n)
      BY <1>0, <2>1
    <2>7. ~(a < i) /\ ~(i < a)
      BY <2>1, <2>2, <2>4, <2>5, <2>6
    <2> QED BY <2>1, <2>3, <2>7 DEF a
  <1> QED BY <1>0, <1>3, <1>4, <1>5

LEMMA OneIsSequence ==
  ASSUME NEW a
  PROVE  IsSequence(<<a>>) /\ Len(<<a>>) = 1 /\ <<a>>[1] = a
  <1>1. <<a>> \in Seq({a})
    OBVIOUS
  <1> QED BY <1>1 DEF IsSequence

LEMMA JoinIsSequence ==
  ASSUME NEW s, NEW t, IsSequence(s), IsSequence(t)
  PROVE  /\ IsSequence(s \o t) /\ Len(s) \in Nat /\ Len(t) \in Nat /\ Len(s \o t) = Len(s) + Len(t)
         /\ \A i \in 1..Len(s) : (s \o t)[i] = s[i]
         /\ \A i \in 1..Len(t) : (s \o t)[Len(s) + i] = t[i]
         /\ \A i \in 1..Len(s \o t) : \/ i \in 1..Len(s) /\ (s \o t)[i] = s[i]
                                     \/ \E k \in 1..Len(t) : i = Len(s) + k /\ (s \o t)[i] = t[k]
  <1>1. PICK S, T : s \in Seq(S) /\ t \in Seq(T)
    BY DEF IsSequence
  <1>2. s \in Seq(S \cup T) /\ t \in Seq(S \cup T)
    BY <1>1
  <1>3. s \o t \in Seq(S \cup T) /\ Len(s) \in Nat /\ Len(t) \in Nat /\ Len(s \o t) = Len(s) + Len(t)
    BY <1>2
  <1>4. \A i \in 1..Len(s \o t) : (s \o t)[i] = IF i <= Len(s) THEN s[i] ELSE t[i - Len(s)]
    BY <1>2
  <1>5. \A i \in 1..Len(s) : (s \o t)[i] = s[i]
    BY <1>3, <1>4
  <1>6. \A i \in 1..Len(t) : (s \o t)[Len(s) + i] = t[i]
    <2> SUFFICES ASSUME NEW i \in 1..Len(t) PROVE (s \o t)[Len(s) + i] = t[i]
      OBVIOUS
    <2>1. Len(s) + i \in 1..Len(s \o t) /\ ~(Len(s) + i <= Len(s)) /\ (Len(s) + i) - Len(s) = i
      BY <1>3
    <2> QED BY <1>4, <2>1
  <1>7. \A i \in 1..Len(s \o t) : i \in 1..Len(s) \/ (i - Len(s) \in 1..Len(t) /\ i = Len(s) + (i - Len(s)))
    BY <1>3
  <1> QED BY <1>3, <1>5, <1>6, <1>7 DEF IsSequence

LEMMA JoinElements ==
  ASSUME NEW s, NEW t, IsSequence(s), IsSequence(t), NEW E,
         \A i \in 1..Len(s) : s[i] \in E, \A i \in 1..Len(t) : t[i] \in E
  PROVE  /\ IsSequence(s \o t) /\ Len(s) \in Nat /\ Len(t) \in Nat /\ Len(s \o t) = Len(s) + Len(t)
         /\ \A i \in 1..Len(s \o t) : (s \o t)[i] \in E
  <1>1. /\ IsSequence(s \o t) /\ Len(s) \in Nat /\ Len(t) \in Nat /\ Len(s \o t) = Len(s) + Len(t)
        /\ \A i \in 1..Len(s \o t) : \/ i \in 1..Len(s) /\ (s \o t)[i] = s[i]
                                     \/ \E k \in 1..Len(t) : i = Len(s) + k /\ (s \o t)[i] = t[k]
    BY JoinIsSequence
  <1> QED BY <1>1, Zenon

LEMMA TailIsSequence ==
  ASSUME NEW s, IsSequence(s), Len(s) >= 1
  PROVE  /\ Len(s) \in Nat /\ Head(s) = s[1] /\ IsSequence(Tail(s)) /\ Len(Tail(s)) = Len(s) - 1
         /\ \A i \in 1..Len(Tail(s)) : i + 1 \in 1..Len(s) /\ Tail(s)[i] = s[i + 1]
  <1>1. PICK S : s \in Seq(S)
    BY DEF IsSequence
  <1>2. s # <<>> /\ Len(s) \in Nat
    BY <1>1
  <1>3. Tail(s) \in Seq(S) /\ Len(Tail(s)) = Len(s) - 1 /\ Head(s) = s[1]
    BY <1>1, <1>2
  <1>4. \A i \in 1..Len(Tail(s)) : i + 1 \in 1..Len(s) /\ Tail(s)[i] = s[i + 1]
    BY <1>1, <1>2, <1>3
  <1> QED BY <1>2, <1>3, <1>4 DEF IsSequence

\* A set of natural numbers that is not empty has a least one.
LEMMA LeastNumber ==
  ASSUME NEW T, T \subseteq Nat, T # {}
  PROVE  \E x \in T : \A y \in T : x <= y
  <1> DEFINE R == {ss \in Nat \X Nat : ss[1] < ss[2]}
  <1>1. IsWellFoundedOn(R, Nat)
    BY NatLessThanWellFounded DEF OpToRel
  <1>2. PICK x \in T : \A y \in T : ~ (<<y, x>> \in R)
    <2> HIDE DEF R
    <2> QED BY <1>1, WFMin
  <1>3. ASSUME NEW y \in T PROVE x <= y
    <2>1. x \in Nat /\ y \in Nat /\ <<y, x>> \notin R
      BY <1>2
    <2>2. ~ (y < x)
      BY <2>1
    <2> QED BY <2>1, <2>2
  <1> QED BY <1>3

\* What holds for 0, and with a number for the next one, holds up to m.
LEMMA CountUp ==
  ASSUME NEW m \in Nat, NEW S, 0 \in S, \A n \in 0..m : n < m /\ n \in S => n + 1 \in S
  PROVE  \A n \in 0..m : n \in S
  <1> SUFFICES ASSUME NEW T, T = {n \in 0..m : n \notin S}, T # {} PROVE FALSE
    OBVIOUS
  <1>1. T \subseteq Nat
    OBVIOUS
  <1>2. PICK x \in T : \A y \in T : x <= y
    BY <1>1, LeastNumber
  <1>3. x \in 0..m /\ x \notin S /\ x # 0 /\ x \in Nat
    OBVIOUS
  <1>4. x - 1 \in 0..m /\ x - 1 < m /\ ~(x <= x - 1) /\ (x - 1) + 1 = x
    BY <1>3
  <1>5. x - 1 \in S
    BY <1>2, <1>4
  <1>6. (x - 1) + 1 \in S
    BY <1>4, <1>5
  <1> QED BY <1>3, <1>4, <1>6

-----------------------------------------------------------------------------
(* SchemaService: the statements that Generate makes, and the inductive    *)
(* invariant.                                                              *)

\* A set that has 0 and is closed under successor has every natural number.
LEMMA NatSetInduction ==
  ASSUME NEW S, 0 \in S, \A n \in Nat : n \in S => n + 1 \in S
  PROVE  Nat \subseteq S
  <1> SUFFICES ASSUME NEW m \in Nat PROVE m \in S
    OBVIOUS
  <1>1. \A n \in 0..m : n < m /\ n \in S => n + 1 \in S
    OBVIOUS
  <1>2. \A n \in 0..m : n \in S
    BY <1>1, CountUp
  <1> QED BY <1>2

\* Every kind of operation has at least one statement, and they are statements.
LEMMA StatementsType ==
  ASSUME NEW d \in Dialects, NEW kind \in Kinds
  PROVE  Statements(d, kind) \in Seq(StatementType) /\ Len(Statements(d, kind)) > 0
  <1> DEFINE Good == {s \in Seq(StatementType) : Len(s) > 0}
  <1>1. \A need, del, add \in SUBSET Facts, des \in BOOLEAN :
          Statement(need, del, add, des) \in StatementType
    BY DEF Statement, StatementType
  <1>2. \A s \in StatementType : <<s>> \in Good
    OBVIOUS
  <1>3. \A s, t \in StatementType : <<s, t>> \in Good
    OBVIOUS
  <1>4. SUFFICES Statements(d, kind) \in Good
    OBVIOUS
  <1> HIDE DEF Good
  <1>5. CASE kind = "add_column"
    <2>1. Statements(d, kind) = <<Statement({}, {}, {"column"}, FALSE)>>
      BY <1>5 DEF Statements
    <2> QED BY <2>1, <1>1, <1>2 DEF Facts
  <1>6. CASE kind = "drop_column"
    <2>1. Statements(d, kind) = <<Statement({"column"}, Facts \ {"renamed"}, {}, TRUE)>>
      BY <1>6 DEF Statements
    <2> QED BY <2>1, <1>1, <1>2 DEF Facts
  <1>7. CASE kind = "rename_column"
    <2>1. Statements(d, kind) = <<Statement({"column"}, {"column"}, {"renamed"}, FALSE)>>
      BY <1>7 DEF Statements
    <2> QED BY <2>1, <1>1, <1>2 DEF Facts
  <1>8. CASE kind = "alter_column"
    <2>1. Statements(d, kind) = <<Statement({"column"}, IF d = "mysql" THEN {"altered", "comment"} ELSE {"altered"}, {"altered"}, FALSE)>>
      BY <1>8 DEF Statements
    <2> QED BY <2>1, <1>1, <1>2 DEF Facts
  <1>9. CASE kind = "set_column_comment"
    <2>1. Statements(d, kind) = <<Statement({"column"}, IF d = "mysql" THEN {"altered", "comment"} ELSE {"comment"}, {"comment"}, FALSE)>>
      BY <1>9 DEF Statements
    <2> QED BY <2>1, <1>1, <1>2 DEF Facts
  <1>10. CASE kind = "add_index"
    <2>1. Statements(d, kind) = <<Statement({"column"}, {}, {"index"}, FALSE)>>
      BY <1>10 DEF Statements
    <2> QED BY <2>1, <1>1, <1>2 DEF Facts
  <1>11. CASE kind = "drop_index"
    <2>1. Statements(d, kind) = <<Statement({"index"}, {"index"}, {}, TRUE)>>
      BY <1>11 DEF Statements
    <2> QED BY <2>1, <1>1, <1>2 DEF Facts
  <1>12. CASE kind = "add_foreign_key"
    <2>1. Statements(d, kind) = <<Statement({"column"}, {}, {"foreign"}, FALSE)>>
      BY <1>12 DEF Statements
    <2> QED BY <2>1, <1>1, <1>2 DEF Facts
  <1>13. CASE kind = "drop_foreign_key"
    <2>1. Statements(d, kind) = <<Statement({"foreign"}, {"foreign"}, {}, TRUE)>>
      BY <1>13 DEF Statements
    <2> QED BY <2>1, <1>1, <1>2 DEF Facts
  <1>14. CASE kind = "add_commented_column"
    <2>1. CASE d = "postgres"
      <3>1. Statements(d, kind) = <<Statement({}, {}, {"column"}, FALSE),
                                    Statement({"column"}, IF d = "mysql" THEN {"altered", "comment"} ELSE {"comment"}, {"comment"}, FALSE)>>
        BY <1>14, <2>1 DEF Statements
      <3> QED BY <3>1, <1>1, <1>2, <1>3 DEF Facts
    <2>2. CASE d # "postgres"
      <3>1. Statements(d, kind) = <<Statement({}, {}, {"column", "comment"}, FALSE)>>
        BY <1>14, <2>2 DEF Statements
      <3> QED BY <3>1, <1>1, <1>2 DEF Facts
    <2> QED BY <2>1, <2>2
  <1>15. CASE kind = "set_primary"
    <2>1. CASE d = "postgres"
      <3>1. Statements(d, kind) = <<Statement({}, {"primary"}, {}, TRUE),
                                    Statement({"column"}, {}, {"primary"}, FALSE)>>
        BY <1>15, <2>1 DEF Statements
      <3> QED BY <3>1, <1>1, <1>2, <1>3 DEF Facts
    <2>2. CASE d # "postgres"
      <3>1. Statements(d, kind) = <<Statement({"column", "primary"}, {"primary"}, {"primary"}, FALSE)>>
        BY <1>15, <2>2 DEF Statements
      <3> QED BY <3>1, <1>1, <1>2 DEF Facts
    <2> QED BY <2>1, <2>2
  <1>16. CASE kind = "drop_primary"
    <2>1. CASE d = "postgres"
      <3>1. Statements(d, kind) = <<Statement({}, {"primary"}, {}, TRUE)>>
        BY <1>16, <2>1 DEF Statements
      <3> QED BY <3>1, <1>1, <1>2, <1>3 DEF Facts
    <2>2. CASE d # "postgres"
      <3>1. Statements(d, kind) = <<Statement({"primary"}, {"primary"}, {}, TRUE)>>
        BY <1>16, <2>2 DEF Statements
      <3> QED BY <3>1, <1>1, <1>2 DEF Facts
    <2> QED BY <2>1, <2>2
  <1> QED
    BY <1>5, <1>6, <1>7, <1>8, <1>9, <1>10, <1>11, <1>12, <1>13, <1>14, <1>15, <1>16 DEF Kinds

\* The DDL of a list of operations is a list of statements, at least one for each
\* operation: generate.go appends to it in a loop.
LEMMA GenerateType ==
  ASSUME NEW d \in Dialects, NEW ops \in Seq(Kinds), ops # <<>>
  PROVE  Generate(d, ops) \in Seq(StatementType) /\ Len(Generate(d, ops)) > 0
  <1> DEFINE stmts(i) == Statements(d, ops[i])
             add(v, i) == v \o stmts(i)
             Rec(g, n) == g = [i \in 0 .. n |-> IF i = 0 THEN <<>> ELSE add(g[i - 1], i)]
             N == Len(ops)
             u == CHOOSE g : Rec(g, N)
  <1>1. N \in Nat /\ N > 0
    OBVIOUS
  <1>2. \E g : Rec(g, N)
    <2> DEFINE S == {n \in Nat : \E g : Rec(g, n)}
    <2> HIDE DEF add
    <2>1. 0 \in S
      <3> DEFINE g == [i \in 0 .. 0 |-> <<>>]
      <3>1. Rec(g, 0)
        OBVIOUS
      <3> QED BY <3>1
    <2>2. ASSUME NEW n \in Nat, n \in S PROVE n + 1 \in S
      <3>1. PICK g : Rec(g, n)
        BY <2>2
      <3> DEFINE h == [i \in 0 .. n + 1 |-> IF i = n + 1 THEN add(g[n], n + 1) ELSE g[i]]
      <3>2. \A i \in 0 .. n : h[i] = g[i]
        OBVIOUS
      <3>3. \A i \in 0 .. n + 1 : h[i] = IF i = 0 THEN <<>> ELSE add(h[i - 1], i)
        <4> SUFFICES ASSUME NEW i \in 0 .. n + 1
                     PROVE  h[i] = IF i = 0 THEN <<>> ELSE add(h[i - 1], i)
          OBVIOUS
        <4>1. CASE i = n + 1
          <5>1. h[i] = add(g[n], n + 1) /\ i - 1 = n /\ n \in 0 .. n
            BY <4>1
          <5> QED BY <3>2, <4>1, <5>1
        <4>2. CASE i \in 0 .. n
          <5>1. g[i] = IF i = 0 THEN <<>> ELSE add(g[i - 1], i)
            BY <3>1, <4>2
          <5>2. i # 0 => i - 1 \in 0 .. n
            BY <4>2
          <5> HIDE DEF h
          <5> QED BY <3>2, <4>2, <5>1, <5>2
        <4> QED BY <4>1, <4>2
      <3>4. Rec(h, n + 1)
        BY <3>3
      <3> HIDE DEF Rec, h
      <3> QED BY <3>4
    <2>3. Nat \subseteq S
      <3> HIDE DEF S
      <3> QED BY <2>1, <2>2, NatSetInduction
    <2> QED BY <1>1, <2>3
  <1>3. Rec(u, N)
    BY <1>2
  <1>4. Generate(d, ops) = u[N]
    BY DEF Generate
  <1>5. \A i \in 1 .. N : u[i] = add(u[i - 1], i)
    <2> HIDE DEF u, add
    <2> QED BY <1>1, <1>3
  <1>6. u[0] = <<>>
    <2> HIDE DEF u, add
    <2> QED BY <1>1, <1>3
  <1> DEFINE S == {n \in Nat : n <= N => u[n] \in Seq(StatementType) /\ Len(u[n]) >= n}
  <1>7. 0 \in S
    <2>1. <<>> \in Seq(StatementType) /\ Len(<<>>) = 0
      OBVIOUS
    <2> HIDE DEF u
    <2>2. u[0] \in Seq(StatementType) /\ Len(u[0]) = 0
      BY <1>6, <2>1, Zenon
    <2> QED BY <2>2
  <1>8. ASSUME NEW n \in Nat, n \in S PROVE n + 1 \in S
    <2> SUFFICES ASSUME n + 1 <= N
                 PROVE  u[n + 1] \in Seq(StatementType) /\ Len(u[n + 1]) >= n + 1
      OBVIOUS
    <2> DEFINE a == u[n]
               b == stmts(n + 1)
    <2>1. a \in Seq(StatementType) /\ Len(a) >= n
      BY <1>8, <1>1
    <2>2. b \in Seq(StatementType) /\ Len(b) > 0
      BY StatementsType, <1>1
    <2>3. u[n + 1] = a \o b
      <3>1. n + 1 \in 1 .. N /\ (n + 1) - 1 = n
        BY <1>1
      <3> HIDE DEF u
      <3> QED BY <1>5, <3>1
    <2> HIDE DEF a, b, u
    <2>4. a \o b \in Seq(StatementType) /\ Len(a \o b) = Len(a) + Len(b)
      BY <2>1, <2>2
    <2> QED BY <2>1, <2>2, <2>3, <2>4
  <1>9. Nat \subseteq S
    <2> HIDE DEF S
    <2> QED BY <1>7, <1>8, NatSetInduction
  <1> HIDE DEF u
  <1> QED BY <1>1, <1>4, <1>9

-----------------------------------------------------------------------------
(* The inductive invariant.                                                *)

Request == [pc: {"idle", "verify", "ok", "failed"} \cup Admitted, tok: issued \cup {None},
            current: SUBSET Facts, confirmed: BOOLEAN, i: Nat, work: SUBSET Facts,
            applied: Nat, moved: BOOLEAN]

ServiceTypes ==
  /\ dialect \in Dialects
  /\ table \in SUBSET Facts
  /\ lock \in Reqs \cup {None}
  /\ req \in [Reqs -> Request]

\* What a token says: there is DDL in it and, when no query of DescribeTable fails,
\* its fingerprint is that of the structure it was made from.
Tokens ==
  \A t \in issued : Signed(t) /\ Len(t.ddl) > 0 /\ (~Partial => t.fp = t.base)

\* Tokens are marked as they are admitted.
Marked == used \subseteq issued /\ ran = used /\ reran = {}

\* The transaction that has the table locked is that of a request in progress.
Locked == lock # None => dialect = "postgres" /\ req[lock].pc \in {"run", "commit"}

\* A request that has read the structure and not touched the table: the table is
\* as it was read, which is as it was previewed, or it has moved.
Fresh(r) ==
  /\ req[r].pc = "verify" /\ ~Partial => table = req[r].current \/ req[r].moved
  /\ req[r].pc \in {"begin", "run"} /\ req[r].i = 1 /\ ~Partial =>
       table = req[r].tok.base \/ req[r].moved

\* How far a request is, and how much of it took effect.
Progress(r) ==
  LET q == req[r]
      n == Len(q.tok.ddl)
  IN  /\ q.pc # "idle" => q.tok \in issued
      /\ q.pc \in {"idle", "verify", "begin"} => q.i = 1 /\ q.applied = 0
      /\ q.pc \in {"begin", "commit"} => dialect = "postgres" /\ q.applied = 0
      /\ q.pc = "run" => q.i \in 1 .. n
      /\ q.pc = "run" /\ dialect = "postgres" => q.applied = 0
      /\ q.pc = "run" /\ dialect = "mysql" => q.applied = q.i - 1
      /\ q.pc = "ok" => q.applied = n
      /\ q.pc = "failed" /\ dialect = "postgres" => q.applied \in {0, n}
      /\ q.pc = "failed" /\ dialect = "mysql" => q.applied \in {q.i - 1, q.i}

ServiceInv ==
  /\ ServiceTypes /\ Tokens /\ Marked /\ Locked
  /\ \A r \in Reqs : Fresh(r) /\ Progress(r)

\* The server starts with no token signed and no request in progress.
LEMMA ServiceInit == Init => ServiceInv
  BY NoneAssumption
     DEF Init, ServiceInv, ServiceTypes, Tokens, Marked, Locked, Fresh, Progress, Request, Idle, Facts

\* A request that goes on, on a table that stays as it is, leaves the others alone.
LEMMA BecomeKeeps ==
  ASSUME ServiceInv, NEW r \in Reqs, NEW q \in Request, Become(r, q),
         dialect' = dialect, table' = table, issued' = issued
  PROVE  /\ req' \in [Reqs -> Request]' /\ req'[r] = q
         /\ \A p \in Reqs : p # r => req'[p] = req[p]
         /\ \A p \in Reqs : p # r => Fresh(p)' /\ Progress(p)'
  <1>1. /\ req' \in [Reqs -> Request]' /\ req'[r] = q
        /\ \A p \in Reqs : p # r => req'[p] = req[p]
    BY DEF ServiceInv, ServiceTypes, Become, Request
  <1>2. ASSUME NEW p \in Reqs, p # r PROVE Fresh(p)' /\ Progress(p)'
    <2>1. Fresh(p) /\ Progress(p) /\ req'[p] = req[p]
      BY <1>1, <1>2 DEF ServiceInv
    <2> QED BY <2>1 DEF Fresh, Progress
  <1> QED BY <1>1, <1>2

\* A change of the table leaves the others where they are: it only tells those that
\* have read the structure that it has moved.
LEMMA StatementKeeps ==
  ASSUME ServiceInv, NEW st \in SUBSET Facts, NEW r \in Reqs \cup {None}, NEW q,
         r \in Reqs => q \in Request, Change(st, q, r),
         dialect' = dialect, issued' = issued
  PROVE  /\ req' \in [Reqs -> Request]' /\ (r \in Reqs => req'[r] = q)
         /\ \A p \in Reqs : p # r => req'[p].pc = req[p].pc
         /\ \A p \in Reqs : p # r => Fresh(p)' /\ Progress(p)'
  <1> DEFINE moves(p) == req[p].moved \/ (table # st /\ req[p].i = 1
                                          /\ req[p].pc \in {"verify", "begin", "run"})
  <1>1. \A p \in Reqs : req'[p] = IF p = r THEN q ELSE [req[p] EXCEPT !.moved = moves(p)]
    BY DEF Change
  <1>2. \A p \in Reqs : req[p] \in Request
    BY DEF ServiceInv, ServiceTypes
  <1>3. \A p \in Reqs : [req[p] EXCEPT !.moved = moves(p)] \in Request
    BY <1>2 DEF Request
  <1>4. req' \in [Reqs -> Request]
    <2>1. req' = [p \in Reqs |-> req'[p]]
      BY DEF Change
    <2>2. \A p \in Reqs : req'[p] \in Request
      BY <1>1, <1>3
    <2> QED BY <2>1, <2>2
  <1>5. ASSUME NEW p \in Reqs, p # r
        PROVE  /\ req'[p].pc = req[p].pc /\ req'[p].tok = req[p].tok
               /\ req'[p].current = req[p].current /\ req'[p].i = req[p].i
               /\ req'[p].applied = req[p].applied /\ req'[p].moved = moves(p)
    <2>1. req[p] \in Request
      BY <1>2
    <2> QED BY <1>1, <1>5, <2>1 DEF Request
  <1>6. ASSUME NEW p \in Reqs, p # r PROVE Fresh(p)' /\ Progress(p)'
    <2>1. Fresh(p) /\ Progress(p) /\ table' = st
      BY DEF ServiceInv, Change
    <2>2. Progress(p)'
      BY <1>5, <1>6, <2>1 DEF Progress
    <2>3. Fresh(p)'
      BY <1>5, <1>6, <2>1 DEF Fresh, Progress
    <2> QED BY <2>2, <2>3
  <1>7. [Reqs -> Request]' = [Reqs -> Request]
    BY DEF Request
  <1> QED BY <1>1, <1>4, <1>5, <1>6, <1>7

\* Reads and statements give structures.
LEMMA Structures ==
  ASSUME ServiceInv
  PROVE  /\ \A fp \in Reads : fp \in SUBSET Facts /\ (~Partial => fp = table)
         /\ \A r \in Reqs, st \in SUBSET Facts :
              req[r].pc = "run" => Apply(Current(r), st) \in SUBSET Facts
  <1>1. \A fp \in Reads : fp \in SUBSET Facts /\ (~Partial => fp = table)
    BY DEF ServiceInv, ServiceTypes, Reads
  <1>2. ASSUME NEW r \in Reqs, NEW st \in SUBSET Facts, req[r].pc = "run"
        PROVE  Apply(Current(r), st) \in SUBSET Facts
    <2>1. req[r].tok \in issued /\ req[r].i \in 1 .. Len(req[r].tok.ddl)
      BY <1>2 DEF ServiceInv, Progress
    <2>2. req[r].tok.ddl \in Seq(StatementType)
      BY <2>1 DEF ServiceInv, Tokens, Signed
    <2>3. Current(r) \in StatementType
      BY <2>1, <2>2 DEF Current
    <2> QED BY <2>3 DEF Apply, StatementType
  <1> QED BY <1>1, <1>2

\* Every step keeps the invariant.
LEMMA ServiceStep == ServiceInv /\ [Next]_vars => ServiceInv'
  <1> SUFFICES ASSUME ServiceInv, [Next]_vars PROVE ServiceInv'
    OBVIOUS
  <1> USE NoneAssumption DEF Admitted
  <1>t. /\ \A p \in Reqs : req[p] \in Request
        /\ table \in SUBSET Facts /\ dialect \in Dialects
    BY DEF ServiceInv, ServiceTypes
  <1>b. ASSUME NEW r \in Reqs, NEW q \in Request, Become(r, q),
               dialect' = dialect, table' = table, issued' = issued,
               lock' \in Reqs \cup {None}, Locked', Marked', Fresh(r)', Progress(r)'
        PROVE  ServiceInv'
    <2>1. ServiceTypes' /\ \A p \in Reqs : Fresh(p)' /\ Progress(p)'
      BY <1>b, <1>t, BecomeKeeps DEF ServiceTypes
    <2>2. Tokens'
      BY <1>b DEF ServiceInv, Tokens, Signed
    <2> QED BY <1>b, <2>1, <2>2 DEF ServiceInv
  <1>c. ASSUME NEW st \in SUBSET Facts, NEW r \in Reqs \cup {None}, NEW q,
               r \in Reqs => q \in Request, Change(st, q, r),
               UNCHANGED <<dialect, issued, used, ran, reran>>,
               lock' = None \/ (lock' = lock /\ lock # r),
               r \in Reqs => Fresh(r)' /\ Progress(r)'
        PROVE  ServiceInv'
    <2>1. /\ req' \in [Reqs -> Request]' /\ table' = st
          /\ \A p \in Reqs : p # r => req'[p].pc = req[p].pc
          /\ \A p \in Reqs : p # r => Fresh(p)' /\ Progress(p)'
      <3>1. table' = st
        BY <1>c DEF Change
      <3> QED BY <1>c, <3>1, StatementKeeps
    <2>2. ServiceTypes' /\ \A p \in Reqs : Fresh(p)' /\ Progress(p)'
      BY <1>c, <1>t, <2>1 DEF ServiceInv, ServiceTypes
    <2>3. Tokens' /\ Marked'
      BY <1>c DEF ServiceInv, Tokens, Signed, Marked
    <2>4. Locked'
      BY <1>c, <2>1 DEF ServiceInv, ServiceTypes, Locked
    <2> QED BY <2>2, <2>3, <2>4 DEF ServiceInv
  <1>1. ASSUME NEW ops \in Changes, NEW fp \in Reads, NEW exp \in Expiries, Preview(ops, fp, exp)
        PROVE  ServiceInv'
    <2> DEFINE ddl == Generate(dialect, ops)
               t == Token(fp, exp, ddl, table)
    <2>1. ddl \in Seq(StatementType) /\ Len(ddl) > 0
      <3>1. ops \in Seq(Kinds) /\ ops # <<>>
        BY ChangesAssumption
      <3> QED BY <1>t, <3>1, GenerateType
    <2>2. fp \in SUBSET Facts /\ (~Partial => fp = table)
      BY Structures
    <2>3. issued' = issued \cup {t} /\ UNCHANGED <<dialect, table, lock, used, ran, reran, req>>
      BY <1>1 DEF Preview
    <2> HIDE DEF ddl
    <2>4. Signed(t) /\ Len(t.ddl) > 0 /\ (~Partial => t.fp = t.base)
      BY <1>t, <2>1, <2>2 DEF Signed, Token
    <2> HIDE DEF t
    <2>5. Tokens'
      BY <2>3, <2>4 DEF ServiceInv, Tokens, Signed
    <2>6. ServiceTypes'
      BY <2>3 DEF ServiceInv, ServiceTypes, Request
    <2>7. Marked' /\ Locked'
      BY <2>3 DEF ServiceInv, Marked, Locked
    <2>8. \A r \in Reqs : Fresh(r)' /\ Progress(r)'
      BY <2>3 DEF ServiceInv, Fresh, Progress
    <2> QED BY <2>5, <2>6, <2>7, <2>8 DEF ServiceInv
  <1>2. ASSUME NEW r \in Reqs, NEW t \in issued, NEW c \in BOOLEAN, NEW fp \in Reads,
               Describe(r, t, c, fp)
        PROVE  ServiceInv'
    <2> DEFINE q == [Idle EXCEPT !.pc = "verify", !.tok = t, !.confirmed = c, !.current = fp]
    <2>1. fp \in SUBSET Facts /\ (~Partial => fp = table)
      BY Structures
    <2>2. q \in Request
      BY <2>1 DEF Idle, Request
    <2>3. Become(r, q) /\ UNCHANGED <<dialect, table, lock, issued, used, ran, reran>>
      BY <1>2 DEF Describe
    <2>4. req'[r] = q
      BY <2>2, <2>3, BecomeKeeps
    <2>5. Fresh(r)' /\ Progress(r)'
      BY <2>1, <2>3, <2>4 DEF Fresh, Progress, Idle
    <2>6. Marked' /\ lock' \in Reqs \cup {None}
      BY <2>3 DEF ServiceInv, Marked, ServiceTypes
    <2>7. Locked'
      <3>1. lock # r
        BY <1>2 DEF ServiceInv, Locked, Describe
      <3> QED BY <2>2, <2>3, <3>1, BecomeKeeps DEF ServiceInv, ServiceTypes, Locked
    <2> QED BY <1>b, <2>2, <2>3, <2>5, <2>6, <2>7
  <1>3. ASSUME NEW r \in Reqs, Admit(r) PROVE ServiceInv'
    <2> DEFINE q == [req[r] EXCEPT !.pc = IF dialect = "postgres" THEN "begin" ELSE "run",
                                   !.current = {}]
    <2>1. q \in Request
      BY <1>t DEF Request
    <2>2. Become(r, q) /\ UNCHANGED <<dialect, table, lock, issued>>
      BY <1>3 DEF Admit
    <2>3. req'[r] = q
      BY <2>1, <2>2, BecomeKeeps
    <2>4. /\ req[r] \in Request /\ req[r].pc = "verify" /\ Fresh(r) /\ Progress(r)
          /\ req[r].tok \in issued
      BY <1>3, <1>t DEF ServiceInv, Admit, Progress
    <2>5. Progress(r)'
      BY <1>t, <2>2, <2>3, <2>4 DEF ServiceInv, Tokens, Signed, Progress, Request, Dialects
    <2>6. Fresh(r)'
      BY <1>3, <2>2, <2>3, <2>4 DEF ServiceInv, Tokens, Fresh, Request, Admit, Verified
    <2>7. Marked' /\ lock' \in Reqs \cup {None}
      BY <1>3, <2>4 DEF ServiceInv, ServiceTypes, Marked, Admit, Count
    <2>8. Locked'
      <3>1. lock # r
        BY <2>4 DEF ServiceInv, Locked
      <3> QED BY <2>1, <2>2, <3>1, BecomeKeeps DEF ServiceInv, ServiceTypes, Locked
    <2> QED BY <1>b, <2>1, <2>2, <2>5, <2>6, <2>7, <2>8
  <1>4. ASSUME NEW r \in Reqs, Refuse(r) PROVE ServiceInv'
    <2>1. Idle \in Request
      BY DEF Idle, Request
    <2>2. Become(r, Idle) /\ UNCHANGED <<dialect, table, lock, issued, used, ran, reran>>
      BY <1>4 DEF Refuse
    <2>3. Fresh(r)' /\ Progress(r)'
      BY <2>1, <2>2, BecomeKeeps DEF Fresh, Progress, Idle
    <2>4. Marked' /\ lock' \in Reqs \cup {None}
      BY <2>2 DEF ServiceInv, ServiceTypes, Marked
    <2>5. Locked'
      <3>1. lock # r
        BY <1>4 DEF ServiceInv, Locked, Refuse
      <3> QED BY <2>1, <2>2, <3>1, BecomeKeeps DEF ServiceInv, ServiceTypes, Locked
    <2> QED BY <1>b, <2>1, <2>2, <2>3, <2>4, <2>5
  <1>5. ASSUME NEW r \in Reqs, Begin(r) PROVE ServiceInv'
    <2>1. PICK q \in {[req[r] EXCEPT !.pc = "run"], Over(req[r], "failed")} : Become(r, q)
      BY <1>5 DEF Begin, End
    <2>2. q \in Request
      BY <1>t, <2>1 DEF Request, Over
    <2>3. req'[r] = q /\ UNCHANGED <<dialect, table, lock, issued, used, ran, reran>>
      BY <1>5, <2>1, <2>2, BecomeKeeps DEF Begin
    <2>4. /\ req[r] \in Request /\ req[r].pc = "begin" /\ Fresh(r) /\ Progress(r)
          /\ req[r].tok \in issued /\ Signed(req[r].tok) /\ Len(req[r].tok.ddl) > 0
      BY <1>5, <1>t DEF ServiceInv, Begin, Progress, Tokens
    <2>5. Progress(r)'
      <3>1. /\ dialect' = "postgres" /\ issued' = issued
            /\ req[r].i = 1 /\ req[r].applied = 0 /\ Len(req[r].tok.ddl) \in Nat
        BY <2>3, <2>4 DEF Progress, Signed
      <3>2. CASE q = [req[r] EXCEPT !.pc = "run"]
        BY <2>3, <2>4, <3>1, <3>2 DEF Progress, Request
      <3>3. CASE q = Over(req[r], "failed")
        BY <2>3, <2>4, <3>1, <3>3 DEF Progress, Request, Over
      <3> QED BY <2>1, <3>2, <3>3
    <2>6. Fresh(r)'
      BY <2>1, <2>3, <2>4 DEF Fresh, Request, Over
    <2>7. Marked' /\ lock' \in Reqs \cup {None}
      BY <2>3 DEF ServiceInv, ServiceTypes, Marked
    <2>8. Locked'
      <3>1. lock # r
        BY <2>4 DEF ServiceInv, Locked
      <3> QED BY <2>1, <2>2, <2>3, <3>1, BecomeKeeps DEF ServiceInv, ServiceTypes, Locked
    <2> QED BY <1>b, <2>1, <2>2, <2>3, <2>5, <2>6, <2>7, <2>8
  <1>r. ASSUME NEW r \in Reqs, req[r].pc = "run"
        PROVE  /\ req[r] \in Request /\ Fresh(r) /\ Progress(r) /\ req[r].tok \in issued
               /\ req[r].tok.ddl \in Seq(StatementType) /\ Len(req[r].tok.ddl) \in Nat
               /\ req[r].i \in 1 .. Len(req[r].tok.ddl)
    BY <1>t, <1>r DEF ServiceInv, Progress, Tokens, Signed
  <1>6. ASSUME NEW r \in Reqs, ExecPostgres(r) PROVE ServiceInv'
    <2> DEFINE st == IF lock = r THEN req[r].work ELSE table
               q == [req[r] EXCEPT !.work = Apply(Current(r), st), !.i = @ + 1, !.moved = FALSE,
                                   !.pc = IF Last(r) THEN "commit" ELSE @]
    <2>1. req[r].pc = "run" /\ dialect = "postgres" /\ lock \in {r, None} /\ lock' = r
      BY <1>6 DEF ExecPostgres
    <2>2. st \in SUBSET Facts
      BY <1>t DEF Request
    <2>3. Apply(Current(r), st) \in SUBSET Facts
      BY <2>1, <2>2, Structures
    <2>4. Become(r, q) /\ UNCHANGED <<dialect, table, issued, used, ran, reran>>
      BY <1>6 DEF ExecPostgres
    <2> DEFINE w == Apply(Current(r), st)
    <2>5. q = [req[r] EXCEPT !.work = w, !.i = req[r].i + 1, !.moved = FALSE,
                             !.pc = IF Last(r) THEN "commit" ELSE "run"]
      BY <1>t, <2>1 DEF Request
    <2> HIDE DEF w, q
    <2>6. q \in Request
      <3>1. w \in SUBSET Facts /\ req[r] \in Request /\ req[r].i + 1 \in Nat
        BY <1>t, <2>3 DEF w, Request
      <3>2. CASE Last(r)
        BY <2>5, <3>1, <3>2 DEF Request
      <3>3. CASE ~Last(r)
        BY <2>5, <3>1, <3>3 DEF Request
      <3> QED BY <3>2, <3>3
    <2>7. req'[r] = q
      BY <2>4, <2>6, BecomeKeeps
    <2>8. Progress(r)' /\ Fresh(r)' /\ req'[r].pc \in {"run", "commit"}
      BY <1>r, <2>1, <2>4, <2>5, <2>7 DEF Progress, Fresh, Request, Last
    <2>9. Marked' /\ Locked' /\ lock' \in Reqs \cup {None}
      BY <2>1, <2>4, <2>8 DEF ServiceInv, ServiceTypes, Marked, Locked
    <2> QED BY <1>b, <2>4, <2>6, <2>8, <2>9
  <1>7. ASSUME NEW r \in Reqs, ExecMySQL(r) PROVE ServiceInv'
    <2> DEFINE st == Apply(Current(r), table)
    <2>1. req[r].pc = "run" /\ dialect = "mysql"
      BY <1>7 DEF ExecMySQL
    <2>2. st \in SUBSET Facts
      BY <1>t, <2>1, Structures
    <2>3. Change(st, Done(r), r) /\ UNCHANGED <<dialect, lock, issued, used, ran, reran>>
      BY <1>7 DEF ExecMySQL
    <2> HIDE DEF st
    <2>4. Done(r) \in Request
      <3>0. req[r] \in Request /\ req[r].i + 1 \in Nat /\ req[r].applied + 1 \in Nat
        BY <1>t DEF Request
      <3>1. [req[r] EXCEPT !.i = @ + 1, !.applied = @ + 1, !.moved = FALSE] \in Request
        BY <3>0 DEF Request
      <3>2. \A q \in Request : Over(q, "ok") \in Request
        BY DEF Over, Request
      <3> QED BY <3>1, <3>2 DEF Done
    <2>5. req'[r] = Done(r)
      BY <2>2, <2>3, <2>4, StatementKeeps
    <2>6. Progress(r)' /\ Fresh(r)'
      BY <1>r, <2>1, <2>3, <2>5 DEF Progress, Fresh, Request, Done, Over, Last
    <2> QED BY <1>c, <2>1, <2>2, <2>3, <2>4, <2>6 DEF ServiceInv, Locked
  <1>8. ASSUME NEW r \in Reqs, Fail(r) PROVE ServiceInv'
    <2>1. /\ req[r].pc = "run" /\ lock' = IF lock = r THEN None ELSE lock
          /\ UNCHANGED <<dialect, issued, used, ran, reran>>
      BY <1>8 DEF Fail
    <2>2. req[r] \in Request /\ req[r].applied + 1 \in Nat
      BY <1>r, <2>1 DEF Request
    <2>3. CASE End(r, "failed") /\ table' = table
      <3> DEFINE q == Over(req[r], "failed")
      <3>1. q \in Request /\ Become(r, q)
        BY <2>2, <2>3 DEF Request, Over, End
      <3>2. req'[r] = q /\ \A p \in Reqs : p # r => req'[p] = req[p]
        BY <2>1, <2>3, <3>1, BecomeKeeps
      <3>3. Fresh(r)' /\ Progress(r)'
        BY <1>r, <1>t, <2>1, <3>2 DEF Fresh, Progress, Request, Over, Dialects
      <3>4. Marked' /\ Locked' /\ lock' \in Reqs \cup {None}
        BY <2>1, <3>2 DEF ServiceInv, ServiceTypes, Marked, Locked
      <3> HIDE DEF q
      <3> QED BY <1>b, <2>1, <2>3, <3>1, <3>3, <3>4
    <2>4. CASE dialect = "mysql" /\ Change(Apply(Current(r), table),
                                           Over([req[r] EXCEPT !.applied = @ + 1], "failed"), r)
      <3> DEFINE q == Over([req[r] EXCEPT !.applied = @ + 1], "failed")
                 st == Apply(Current(r), table)
      <3>1. q \in Request
        BY <2>2 DEF Request, Over
      <3>2. st \in SUBSET Facts
        BY <1>t, <2>1, Structures
      <3> HIDE DEF st
      <3>3. Change(st, q, r)
        BY <2>4 DEF st
      <3>4. req'[r] = q
        <4> HIDE DEF q
        <4> QED BY <2>1, <3>1, <3>2, <3>3, StatementKeeps
      <3>5. Fresh(r)' /\ Progress(r)'
        BY <1>r, <2>1, <2>2, <2>4, <3>4 DEF Fresh, Progress, Request, Over
      <3> HIDE DEF q
      <3> QED BY <1>c, <2>1, <3>1, <3>2, <3>3, <3>5
    <2> QED BY <1>8, <2>3, <2>4 DEF Fail
  <1>9. ASSUME NEW r \in Reqs, Commit(r) PROVE ServiceInv'
    <2>1. /\ req[r].pc = "commit" /\ lock' = None
          /\ UNCHANGED <<dialect, issued, used, ran, reran>>
      BY <1>9 DEF Commit
    <2>2. /\ req[r] \in Request /\ req[r].tok \in issued /\ Len(req[r].tok.ddl) \in Nat
          /\ dialect = "postgres" /\ req[r].applied = 0
      BY <1>t, <2>1 DEF ServiceInv, Progress, Tokens, Signed
    <2>3. CASE End(r, "failed") /\ table' = table
      <3> DEFINE q == Over(req[r], "failed")
      <3>1. q \in Request /\ Become(r, q)
        BY <2>2, <2>3 DEF Request, Over, End
      <3>2. req'[r] = q
        BY <2>1, <2>3, <3>1, BecomeKeeps
      <3>3. Fresh(r)' /\ Progress(r)'
        BY <2>1, <2>2, <3>2 DEF Fresh, Progress, Request, Over
      <3>4. Marked' /\ Locked' /\ lock' \in Reqs \cup {None}
        BY <2>1 DEF ServiceInv, ServiceTypes, Marked, Locked
      <3> HIDE DEF q
      <3> QED BY <1>b, <2>1, <2>3, <3>1, <3>3, <3>4
    <2>4. ASSUME NEW pc \in {"ok", "failed"},
                 Change(req[r].work, Over([req[r] EXCEPT !.applied = Len(req[r].tok.ddl)], pc), r)
          PROVE  ServiceInv'
      <3> DEFINE q == Over([req[r] EXCEPT !.applied = Len(req[r].tok.ddl)], pc)
      <3>1. q \in Request /\ req[r].work \in SUBSET Facts
        BY <2>2 DEF Request, Over
      <3>2. req'[r] = q
        <4> HIDE DEF q
        <4> QED BY <2>1, <2>4, <3>1, StatementKeeps DEF q
      <3>3. Fresh(r)' /\ Progress(r)'
        BY <2>1, <2>2, <3>2 DEF Fresh, Progress, Request, Over
      <3> QED BY <1>c, <2>1, <2>4, <3>1, <3>3
    <2> QED BY <1>9, <2>3, <2>4 DEF Commit
  <1>10. ASSUME NEW st \in Drifts, Drift(st) PROVE ServiceInv'
    <2>1. /\ st \in SUBSET Facts /\ Change(st, None, None)
          /\ UNCHANGED <<dialect, lock, issued, used, ran, reran>> /\ lock = None
      BY <1>10, DriftsAssumption DEF Drift
    <2> QED BY <1>c, <2>1
  <1>11. CASE UNCHANGED vars
    <2>1. ServiceTypes' /\ Tokens' /\ Marked' /\ Locked'
      BY <1>11 DEF vars, ServiceInv, ServiceTypes, Request, Tokens, Signed, Marked, Locked
    <2>2. \A r \in Reqs : Fresh(r)' /\ Progress(r)'
      BY <1>11 DEF vars, ServiceInv, Fresh, Progress
    <2> QED BY <2>1, <2>2 DEF ServiceInv
  <1> QED
    BY <1>1, <1>2, <1>3, <1>4, <1>5, <1>6, <1>7, <1>8, <1>9, <1>10, <1>11 DEF Next

-----------------------------------------------------------------------------
\* The invariant of every execution.
LEMMA ServiceAlways == Spec => []ServiceInv
  BY ServiceInit, ServiceStep, PTL DEF Spec

\* Type correctness: the DDL of every token signed is a list of statements.
THEOREM TypeCorrect == Spec => []TypeOK
  <1>1. ServiceInv => TypeOK
    <2> SUFFICES ASSUME ServiceInv PROVE TypeOK
      OBVIOUS
    <2>1. \A r \in Reqs : req[r] \in Request
      BY DEF ServiceInv, ServiceTypes
    <2> QED BY <2>1 DEF ServiceInv, ServiceTypes, Tokens, Marked, Locked, TypeOK, Request
  <1> QED BY ServiceAlways, <1>1, PTL

\* Execute marks a token under the lock it checked it under: its DDL is admitted
\* once, however many requests send it.
THEOREM TokensAreSpent == Spec => []TokenRunsOnce
  <1>1. ServiceInv => TokenRunsOnce
    BY DEF ServiceInv, Marked, TokenRunsOnce
  <1> QED BY ServiceAlways, <1>1, PTL

\* While no query of DescribeTable fails, the only drift that Execute overlooks is
\* the one between its own reading of the structure and its first statement.
THEOREM DriftIsNoticed ==
  ASSUME ~Partial
  PROVE  Spec => []DriftOnlyInWindow
  <1>1. ServiceInv => DriftOnlyInWindow
    BY DEF ServiceInv, Fresh, DriftOnlyInWindow
  <1> QED BY ServiceAlways, <1>1, PTL

\* What Execute answers is what became of the table: all or nothing on PostgreSQL,
\* and on MySQL as many statements as it says, or the one reported as failed too.
THEOREM OutcomesAreReported == Spec => []OutcomeIsReported
  <1>1. ServiceInv => OutcomeIsReported
    <2> SUFFICES ASSUME ServiceInv PROVE AllOrNothing /\ ReportedIsApplied
      BY DEF OutcomeIsReported
    <2>1. \A r \in Reqs : req[r] \in Request /\ Progress(r)
      BY DEF ServiceInv, ServiceTypes
    <2>2. AllOrNothing
      BY <2>1 DEF AllOrNothing, Progress, Request, Admitted
    <2>3. ReportedIsApplied
      BY <2>1 DEF ReportedIsApplied, Progress
    <2> QED BY <2>2, <2>3
  <1> QED BY ServiceAlways, <1>1, PTL

-----------------------------------------------------------------------------
(* The pages share no state.                                               *)

\* A step is one of the page that is shown.
LEMMA OnePageMoves ==
  ASSUME [PagesNext]_<<pageVars, viewVars, page>>
  PROVE  /\ page' = page
         /\ page = "logs" => Logs!Next \/ UNCHANGED logsVars
         /\ page = "connections" => Connections!Next \/ UNCHANGED connectionVars
         /\ page = "settings" => Settings!Next \/ UNCHANGED settingsVars
         /\ page = "data" => Data!Next \/ UNCHANGED dataVars
         /\ page = "draft" => Draft!Next \/ UNCHANGED draftVars
         /\ page = "structure" => Structure!Next \/ UNCHANGED structureVars
         /\ page = "keys" => Browser!Next \/ UNCHANGED browserVars
  <1>1. CASE UNCHANGED <<pageVars, viewVars, page>>
    BY <1>1 DEF pageVars, viewVars
  <1>2. CASE PageStep
    BY <1>2, Zenon DEF PageStep
  <1>3. CASE ViewStep
    BY <1>3, Zenon DEF ViewStep
  <1> QED BY <1>1, <1>2, <1>3 DEF PagesNext

-----------------------------------------------------------------------------
(* The structure view. The last request of a preview is about the draft.   *)

StructureTypes ==
  /\ tables \in [Tables -> Versions] /\ structureTable \in Tables /\ shown \in Versions
  /\ detail \in [table : Tables, version : Versions] \cup {Absent}
  /\ preview \in Structure!Ask \cup {Absent} /\ timer \in Structure!Ask \cup {Absent}
  /\ previewBusy \in BOOLEAN /\ request \in 0..MaxWork
  /\ previews \subseteq [ask : Structure!Ask, st : Structure!Answer]
  /\ reads \subseteq [table : Tables, st : Structure!Answer, version : Versions, saved : BOOLEAN]
  /\ save \in [st : {"none"} \cup Structure!Answer, token : Structure!Ask \cup {Absent},
               table : Tables \cup {Absent}]
  /\ save.st = "none" \/ (save.table \in Tables /\ save.token \in Structure!Ask)

\* The operations an ask is about are those of the draft on the screen.
OfDraft(ask) == ask.from = detail.version /\ ask.to = shown /\ ask.table = structureTable

\* The timer holds the draft of the last render.
TimerIsCurrent == timer # Absent => Structure!Changed /\ OfDraft(timer)

\* Once the timer has ended, the last request is about the draft.
LastRequest ==
  /\ \A p \in previews : p.ask.id <= request
  /\ Structure!Changed /\ timer = Absent =>
       /\ \A p \in previews : p.ask.id = request => OfDraft(p.ask)
       /\ ~previewBusy /\ preview # Absent => OfDraft(preview)

\* What a click promised is what its token says.
PromiseInToken ==
  promise # Absent =>
    /\ save.token # Absent /\ save.token.table = promise.table /\ save.token.to = promise.version
    /\ save.st = "ok" => tables[promise.table] = promise.version

StructureInv == StructureTypes /\ TimerIsCurrent /\ LastRequest /\ PromiseInToken

-----------------------------------------------------------------------------

LEMMA StructureInit == ASSUME Structure!Init PROVE StructureInv
  <1> USE TablesAssumption, AbsentAssumption DEF Structure!Init
  <1>1. StructureTypes
    <2>1. structureTable \in Tables /\ tables \in [Tables -> Versions] /\ shown \in Versions
      OBVIOUS
    <2>2. reads \subseteq [table : Tables, st : Structure!Answer, version : Versions, saved : BOOLEAN]
      BY <2>1 DEF Structure!Read, Structure!Answer
    <2>3. save = [st |-> "none", token |-> Absent, table |-> Absent]
      BY DEF Structure!NoSave
    <2>4. request \in 0..MaxWork /\ previews = {} /\ previewBusy = FALSE
      OBVIOUS
    <2>5. detail = Absent /\ preview = Absent /\ timer = Absent
      OBVIOUS
    <2> QED BY ONLY <2>1, <2>2, <2>3, <2>4, <2>5 DEF StructureTypes
  <1>2. TimerIsCurrent /\ LastRequest /\ PromiseInToken
    BY DEF TimerIsCurrent, LastRequest, PromiseInToken, Structure!Changed
  <1> QED BY <1>1, <1>2 DEF StructureInv

\* A render: the timer is set for the draft that is on the screen, and the preview is
\* dropped or kept.
LEMMA Rendered ==
  ASSUME StructureInv, NEW value \in {preview, Absent}, detail' \in [table : Tables, version : Versions] \cup {Absent},
         shown' \in Versions, structureTable' \in Tables,
         Structure!Debounce(detail', shown', structureTable', value), UNCHANGED <<previews, request, previewBusy>>
  PROVE  /\ timer' \in Structure!Ask \cup {Absent} /\ preview' \in Structure!Ask \cup {Absent}
         /\ TimerIsCurrent' /\ LastRequest'
  <1> USE AbsentAssumption, TablesAssumption
  <1>0. /\ 0 \in 0..MaxWork /\ preview' \in Structure!Ask \cup {Absent}
        /\ \A p \in previews : p.ask.id <= request
    BY DEF Structure!Debounce, StructureInv, StructureTypes, LastRequest
  <1>1. CASE detail' # Absent /\ shown' # detail'.version
    <2>1. timer' = [id |-> 0, table |-> structureTable', from |-> detail'.version, to |-> shown']
      BY <1>1 DEF Structure!Debounce
    <2>2. detail'.version \in Versions
      BY <1>1
    <2>3. timer' \in Structure!Ask
      BY <1>0, <2>1, <2>2 DEF Structure!Ask
    <2> QED BY <1>0, <1>1, <2>1, <2>3 DEF TimerIsCurrent, LastRequest, OfDraft, Structure!Changed
  <1>2. CASE ~(detail' # Absent /\ shown' # detail'.version)
    <2>1. timer' = Absent
      BY <1>2 DEF Structure!Debounce
    <2> QED BY <1>0, <1>2, <2>1 DEF TimerIsCurrent, LastRequest, Structure!Changed
  <1> QED BY <1>1, <1>2

\* A step that does not change the draft, its timer or its preview.
LEMMA StructureDraftStays ==
  ASSUME StructureInv, UNCHANGED <<detail, shown, structureTable, timer, preview, previewBusy, request>>,
         \A p \in previews' : \E q \in previews : p.ask = q.ask
  PROVE  TimerIsCurrent' /\ LastRequest'
  BY DEF StructureInv, TimerIsCurrent, LastRequest, OfDraft, Structure!Changed

LEMMA PromiseStays ==
  ASSUME StructureInv, UNCHANGED <<promise, save, tables>>
  PROVE  PromiseInToken'
  BY DEF StructureInv, PromiseInToken

LEMMA UserSteps ==
  ASSUME StructureInv,
         \/ \E v \in Versions : Structure!Change(v)
         \/ Structure!StartEditing \/ Structure!Discard
         \/ \E t \in Tables : Structure!Move(t)
  PROVE  StructureInv'
  <1>p. PromiseInToken'
    BY PromiseStays DEF Structure!Change, Structure!StartEditing, Structure!Discard, Structure!Move
  <1>t. StructureTypes
    BY DEF StructureInv
  <1>1. ASSUME NEW v \in Versions, Structure!Change(v)
        PROVE  StructureInv'
    <2>1. /\ shown' = v /\ UNCHANGED <<tables, structureTable, detail, previewBusy, request, previews, reads, save>>
          /\ Structure!Debounce(detail, v, structureTable, preview)
      BY <1>1 DEF Structure!Change
    <2>2. Structure!Debounce(detail', shown', structureTable', preview)
      BY <2>1, Zenon
    <2>3. /\ timer' \in Structure!Ask \cup {Absent} /\ preview' \in Structure!Ask \cup {Absent}
          /\ TimerIsCurrent' /\ LastRequest'
      BY <1>t, <2>1, <2>2, Rendered DEF StructureTypes
    <2>4. StructureTypes'
      BY <1>t, <2>1, <2>3 DEF StructureTypes
    <2> QED BY <1>p, <2>3, <2>4 DEF StructureInv
  <1>2. CASE Structure!StartEditing
    <2>1. UNCHANGED <<tables, structureTable, detail, shown, preview, previewBusy, timer, request, previews, reads, save>>
      BY <1>2 DEF Structure!StartEditing
    <2>2. StructureTypes'
      BY <1>t, <2>1 DEF StructureTypes
    <2>3. TimerIsCurrent' /\ LastRequest'
      BY <2>1, StructureDraftStays
    <2> QED BY <1>p, <2>2, <2>3 DEF StructureInv
  <1>3. CASE Structure!Discard
    <2>1. /\ shown' = detail.version /\ UNCHANGED <<tables, structureTable, detail, previewBusy, request, previews, reads, save>>
          /\ Structure!Debounce(detail, detail.version, structureTable, Absent) /\ detail # Absent
      BY <1>3 DEF Structure!Discard, Structure!Changed
    <2>2. Structure!Debounce(detail', shown', structureTable', Absent)
      BY <2>1, Zenon
    <2>0. shown' \in Versions
      BY <1>t, <2>1 DEF StructureTypes
    <2>3. /\ timer' \in Structure!Ask \cup {Absent} /\ preview' \in Structure!Ask \cup {Absent}
          /\ TimerIsCurrent' /\ LastRequest'
      BY <1>t, <2>0, <2>1, <2>2, Rendered DEF StructureTypes
    <2>4. StructureTypes'
      BY <1>t, <2>0, <2>1, <2>3 DEF StructureTypes
    <2> QED BY <1>p, <2>3, <2>4 DEF StructureInv
  <1>4. ASSUME NEW t \in Tables, Structure!Move(t)
        PROVE  StructureInv'
    <2>1. /\ structureTable' = t /\ UNCHANGED <<tables, detail, shown, previewBusy, request, previews, save>>
          /\ Structure!Debounce(detail, shown, t, preview)
          /\ reads' = reads \cup {Structure!Read(t, FALSE)}
      BY <1>4 DEF Structure!Move
    <2>2. Structure!Debounce(detail', shown', structureTable', preview)
      BY <2>1, Zenon
    <2>3. /\ timer' \in Structure!Ask \cup {Absent} /\ preview' \in Structure!Ask \cup {Absent}
          /\ TimerIsCurrent' /\ LastRequest'
      BY <1>t, <2>1, <2>2, Rendered DEF StructureTypes
    <2>4. Structure!Read(t, FALSE) \in [table : Tables, st : Structure!Answer, version : Versions, saved : BOOLEAN]
      BY TablesAssumption DEF Structure!Read, Structure!Answer
    <2>5. StructureTypes'
      BY <1>t, <2>1, <2>3, <2>4 DEF StructureTypes
    <2> QED BY <1>p, <2>3, <2>5 DEF StructureInv
  <1> QED BY <1>1, <1>2, <1>3, <1>4

LEMMA SaveSteps ==
  ASSUME StructureInv, Structure!Save \/ Structure!Saved
  PROVE  StructureInv'
  <1>t. StructureTypes
    BY DEF StructureInv
  <1>1. CASE Structure!Save
    <2>1. /\ save' = [st |-> "sent", token |-> preview, table |-> structureTable]
          /\ promise' = IF timer = Absent /\ detail.table = structureTable /\ tables[structureTable] = detail.version
                        THEN [table |-> structureTable, version |-> shown] ELSE Absent
          /\ UNCHANGED <<tables, structureTable, detail, shown, preview, previewBusy, timer, request, previews, reads>>
          /\ Structure!Changed /\ preview # Absent /\ ~previewBusy
      BY <1>1 DEF Structure!Save, Structure!CanSave
    <2>2. save' \in [st : {"none"} \cup Structure!Answer, token : Structure!Ask \cup {Absent},
                     table : Tables \cup {Absent}]
      BY <1>t, <2>1 DEF StructureTypes, Structure!Answer
    <2>3. StructureTypes'
      BY <1>t, <2>1, <2>2 DEF StructureTypes
    <2>4. TimerIsCurrent' /\ LastRequest'
      BY <2>1, StructureDraftStays
    <2>5. PromiseInToken'
      <3>1. timer = Absent => OfDraft(preview)
        BY <2>1 DEF StructureInv, LastRequest
      <3>2. promise' # Absent => timer = Absent /\ promise'.table = structureTable /\ promise'.version = shown
        BY <2>1
      <3>3. save'.token = preview /\ save'.st = "sent"
        BY <2>1
      <3> QED BY <2>1, <3>1, <3>2, <3>3 DEF PromiseInToken, OfDraft
    <2> QED BY <2>3, <2>4, <2>5 DEF StructureInv
  <1>2. CASE Structure!Saved
    <2>1. /\ save' = Structure!NoSave /\ promise' = Absent
          /\ UNCHANGED <<tables, structureTable, detail, shown, preview, previewBusy, timer, request, previews>>
          /\ reads' = reads \/ (save.st = "ok" /\ reads' = reads \cup {Structure!Read(save.table, TRUE)})
      BY <1>2 DEF Structure!Saved
    <2>2. save.st = "ok" => Structure!Read(save.table, TRUE) \in
            [table : Tables, st : Structure!Answer, version : Versions, saved : BOOLEAN]
      BY <1>t, TablesAssumption DEF StructureTypes, Structure!Read, Structure!Answer
    <2>3. StructureTypes'
      BY <1>t, <2>1, <2>2 DEF StructureTypes, Structure!NoSave
    <2>4. TimerIsCurrent' /\ LastRequest'
      BY <2>1, StructureDraftStays
    <2>5. PromiseInToken'
      BY <2>1 DEF PromiseInToken
    <2> QED BY <2>3, <2>4, <2>5 DEF StructureInv
  <1> QED BY <1>1, <1>2

LEMMA PreviewSteps ==
  ASSUME StructureInv, Structure!AskPreview \/ \E p \in previews : Structure!Previewed(p)
  PROVE  StructureInv'
  <1>t. StructureTypes /\ TimerIsCurrent /\ LastRequest
    BY DEF StructureInv
  <1>p. PromiseInToken'
    BY PromiseStays DEF Structure!AskPreview, Structure!Previewed
  <1>1. CASE Structure!AskPreview
    <2> DEFINE ask == [timer EXCEPT !.id = request + 1]
    <2>1. /\ timer # Absent /\ request < MaxWork /\ request' = request + 1 /\ previewBusy' = TRUE
          /\ previews' = previews \cup {[ask |-> ask, st |-> "sent"]} /\ timer' = Absent
          /\ UNCHANGED <<tables, structureTable, detail, shown, preview, reads, save>>
      BY <1>1 DEF Structure!AskPreview
    <2>2. timer \in Structure!Ask /\ request + 1 \in 0..MaxWork /\ request \in Nat
      BY <1>t, <2>1, TablesAssumption DEF StructureTypes
    <2>3. /\ ask \in Structure!Ask /\ ask.id = request + 1
          /\ ask.table = timer.table /\ ask.from = timer.from /\ ask.to = timer.to
      BY <2>2 DEF Structure!Ask
    <2>4. OfDraft(ask)
      BY <1>t, <2>1, <2>3 DEF TimerIsCurrent, OfDraft
    <2> HIDE DEF ask
    <2>5. StructureTypes'
      BY <1>t, <2>1, <2>2, <2>3 DEF StructureTypes, Structure!Answer
    <2>6. TimerIsCurrent'
      BY <2>1 DEF TimerIsCurrent
    <2>7. LastRequest'
      <3>1. \A p \in previews : p.ask.id \in 0..MaxWork /\ p.ask.id <= request
        BY <1>t DEF LastRequest, StructureTypes, Structure!Ask
      <3>2. \A p \in previews' : (p \in previews /\ p.ask.id <= request) \/ p.ask = ask
        BY <2>1, <3>1
      <3>3. \A p \in previews' : p.ask.id <= request' /\ (p.ask.id = request' => p.ask = ask)
        BY <2>1, <2>2, <2>3, <3>1, <3>2
      <3> QED BY <2>1, <2>4, <3>3 DEF LastRequest, OfDraft
    <2> QED BY <1>p, <2>5, <2>6, <2>7 DEF StructureInv
  <1>2. ASSUME NEW p \in previews, Structure!Previewed(p)
        PROVE  StructureInv'
    <2>1. /\ previews' = previews \ {p}
          /\ \/ p.ask.id = request /\ preview' \in {p.ask, Absent} /\ previewBusy' = FALSE
             \/ UNCHANGED <<preview, previewBusy>>
          /\ UNCHANGED <<tables, structureTable, detail, shown, timer, request, reads, save>>
      BY <1>2 DEF Structure!Previewed
    <2>2. p.ask \in Structure!Ask
      BY <1>t DEF StructureTypes
    <2>3. StructureTypes'
      BY <1>t, <2>1, <2>2 DEF StructureTypes
    <2>4. TimerIsCurrent'
      BY <1>t, <2>1 DEF TimerIsCurrent, OfDraft, Structure!Changed
    <2>5. LastRequest'
      BY <1>t, <2>1 DEF LastRequest, OfDraft, Structure!Changed
    <2> QED BY <1>p, <2>3, <2>4, <2>5 DEF StructureInv
  <1> QED BY <1>1, <1>2

LEMMA LoadSteps ==
  ASSUME StructureInv, NEW r \in reads, Structure!LoadedDetail(r)
  PROVE  StructureInv'
  <1>t. StructureTypes
    BY DEF StructureInv
  <1>p. PromiseInToken'
    BY PromiseStays DEF Structure!LoadedDetail
  <1>1. /\ reads' = reads \ {r} /\ UNCHANGED <<tables, structureTable, previewBusy, request, previews, save>>
    BY DEF Structure!LoadedDetail
  <1>2. CASE r.st = "ok"
    <2> DEFINE d == [table |-> r.table, version |-> r.version]
    <2>1. detail' = d /\ shown' = r.version /\ Structure!Debounce(d, r.version, structureTable, Absent)
      BY <1>2 DEF Structure!LoadedDetail
    <2>2. d \in [table : Tables, version : Versions] /\ r.version \in Versions
      BY <1>t DEF StructureTypes
    <2> HIDE DEF d
    <2>3. Structure!Debounce(detail', shown', structureTable', Absent)
      BY <1>1, <2>1, Zenon
    <2>4. /\ timer' \in Structure!Ask \cup {Absent} /\ preview' \in Structure!Ask \cup {Absent}
          /\ TimerIsCurrent' /\ LastRequest'
      BY <1>t, <1>1, <2>1, <2>2, <2>3, Rendered DEF StructureTypes
    <2>5. StructureTypes'
      BY <1>t, <1>1, <2>1, <2>2, <2>4 DEF StructureTypes
    <2> QED BY <1>p, <2>4, <2>5 DEF StructureInv
  <1>3. CASE r.st # "ok"
    <2>1. UNCHANGED <<detail, shown, preview, timer>>
      BY <1>3 DEF Structure!LoadedDetail
    <2>2. StructureTypes'
      BY <1>t, <1>1, <2>1 DEF StructureTypes
    <2>3. TimerIsCurrent' /\ LastRequest'
      BY <1>1, <2>1, StructureDraftStays
    <2> QED BY <1>p, <2>2, <2>3 DEF StructureInv
  <1> QED BY <1>2, <1>3

\* The answer of a call, by the server or the network.
LEMMA AnswerSteps ==
  ASSUME StructureInv, Structure!Serve \/ Structure!Fail
  PROVE  StructureInv'
  <1>t. StructureTypes /\ PromiseInToken
    BY DEF StructureInv
  <1>0. UNCHANGED <<structureTable, detail, shown, preview, previewBusy, timer, request, promise>>
    BY DEF Structure!Serve, Structure!Fail
  <1>1. ASSUME NEW p \in previews, NEW st \in {"ok", "error"},
               previews' = (previews \ {p}) \cup {[p EXCEPT !.st = st]}, UNCHANGED <<tables, reads, save>>
        PROVE  StructureInv'
    <2> DEFINE q == [p EXCEPT !.st = st]
    <2>1. q \in [ask : Structure!Ask, st : Structure!Answer] /\ q.ask = p.ask
      BY <1>t DEF StructureTypes, Structure!Answer
    <2>2. previews' = (previews \ {p}) \cup {q}
      BY <1>1
    <2> HIDE DEF q
    <2>3. StructureTypes'
      BY <1>0, <1>1, <1>t, <2>1, <2>2 DEF StructureTypes
    <2>4. TimerIsCurrent' /\ LastRequest'
      BY <1>0, <2>1, <2>2, StructureDraftStays
    <2> QED BY <1>0, <1>1, <2>3, <2>4, PromiseStays DEF StructureInv
  <1>2. ASSUME NEW r \in reads, NEW s, s \in [table : Tables, st : Structure!Answer, version : Versions, saved : BOOLEAN],
               reads' = (reads \ {r}) \cup {s}, UNCHANGED <<tables, previews, save>>
        PROVE  StructureInv'
    <2>1. StructureTypes'
      BY <1>0, <1>2, <1>t DEF StructureTypes
    <2>2. TimerIsCurrent' /\ LastRequest'
      BY <1>0, <1>2, StructureDraftStays
    <2> QED BY <1>0, <1>2, <2>1, <2>2, PromiseStays DEF StructureInv
  <1>3. ASSUME save.st = "sent", save' = [save EXCEPT !.st = "error"], UNCHANGED <<tables, previews, reads>>
        PROVE  StructureInv'
    <2>1. /\ save'.st = "error" /\ save'.token = save.token /\ save'.table = save.table
          /\ save' \in [st : {"none"} \cup Structure!Answer, token : Structure!Ask \cup {Absent},
                        table : Tables \cup {Absent}]
      BY <1>t, <1>3 DEF StructureTypes, Structure!Answer
    <2>2. StructureTypes'
      BY <1>0, <1>3, <1>t, <2>1 DEF StructureTypes
    <2>3. TimerIsCurrent' /\ LastRequest'
      BY <1>0, <1>3, StructureDraftStays
    <2>4. PromiseInToken'
      BY <1>0, <1>3, <1>t, <2>1 DEF PromiseInToken
    <2> QED BY <2>2, <2>3, <2>4 DEF StructureInv
  <1>4. ASSUME save.st = "sent", tables' = [tables EXCEPT ![save.token.table] = save.token.to],
               save' = [save EXCEPT !.st = "ok"], UNCHANGED <<previews, reads>>
        PROVE  StructureInv'
    <2>1. /\ save'.st = "ok" /\ save'.token = save.token /\ save'.table = save.table
          /\ save' \in [st : {"none"} \cup Structure!Answer, token : Structure!Ask \cup {Absent},
                        table : Tables \cup {Absent}]
      BY <1>t, <1>4 DEF StructureTypes, Structure!Answer
    <2>2. save.token.table \in Tables /\ save.token.to \in Versions
      BY <1>t, <1>4 DEF StructureTypes, Structure!Ask
    <2>3. tables' \in [Tables -> Versions] /\ tables'[save.token.table] = save.token.to
      BY <1>t, <1>4, <2>2 DEF StructureTypes
    <2>4. StructureTypes'
      BY <1>0, <1>4, <1>t, <2>1, <2>3 DEF StructureTypes
    <2>5. TimerIsCurrent' /\ LastRequest'
      BY <1>0, <1>4, StructureDraftStays
    <2>6. PromiseInToken'
      BY <1>0, <1>4, <1>t, <2>1, <2>3 DEF PromiseInToken
    <2> QED BY <2>4, <2>5, <2>6 DEF StructureInv
  <1>5. CASE Structure!Serve
    <2>1. ASSUME NEW r \in reads, reads' = (reads \ {r}) \cup {[r EXCEPT !.st = "ok", !.version = tables[r.table]]},
                 UNCHANGED <<tables, previews, save>>
          PROVE  StructureInv'
      <3>1. [r EXCEPT !.st = "ok", !.version = tables[r.table]] \in
              [table : Tables, st : Structure!Answer, version : Versions, saved : BOOLEAN]
        BY <1>t DEF StructureTypes, Structure!Answer
      <3> QED BY <1>2, <2>1, <3>1
    <2> QED BY <1>1, <1>3, <1>4, <1>5, <2>1 DEF Structure!Serve
  <1>6. CASE Structure!Fail
    <2>1. ASSUME NEW r \in reads, reads' = (reads \ {r}) \cup {[r EXCEPT !.st = "error"]},
                 UNCHANGED <<tables, previews, save>>
          PROVE  StructureInv'
      <3>1. [r EXCEPT !.st = "error"] \in
              [table : Tables, st : Structure!Answer, version : Versions, saved : BOOLEAN]
        BY <1>t DEF StructureTypes, Structure!Answer
      <3> QED BY <1>2, <2>1, <3>1
    <2> QED BY <1>1, <1>3, <1>6, <2>1 DEF Structure!Fail
  <1> QED BY <1>5, <1>6

LEMMA StructureStep == ASSUME StructureInv, Structure!Next PROVE StructureInv'
  BY UserSteps, SaveSteps, PreviewSteps, LoadSteps, AnswerSteps, Zenon DEF Structure!Next, Structure!Callback

StructureShown == page = "structure" => StructureInv

LEMMA StructureAlways == PagesSpec => []StructureShown
  <1>1. PagesInit => StructureShown
    BY StructureInit DEF PagesInit, StructureShown
  <1>2. StructureShown /\ [PagesNext]_<<pageVars, viewVars, page>> => StructureShown'
    <2> SUFFICES ASSUME StructureInv, page = "structure", [PagesNext]_<<pageVars, viewVars, page>>
                 PROVE  StructureInv'
      BY OnePageMoves DEF StructureShown
    <2>1. CASE Structure!Next
      BY <2>1, StructureStep
    <2>2. CASE UNCHANGED structureVars
      <3>1. StructureTypes'
        BY <2>2 DEF StructureInv, StructureTypes, structureVars
      <3>2. TimerIsCurrent' /\ LastRequest'
        BY <2>2, StructureDraftStays DEF structureVars
      <3> QED BY <2>2, <3>1, <3>2, PromiseStays DEF StructureInv, structureVars
    <2> QED BY <2>1, <2>2, OnePageMoves
  <1> QED BY <1>1, <1>2, PTL DEF PagesSpec

\* The preview that the structure view lets the user save is the answer about the draft
\* and the structureTable on the screen, and a save that succeeds has made of the structureTable what the
\* screen showed at the click (SchemaWorkspace.tsx 25-56).
THEOREM PreviewsAreOfTheDraft == PagesSpec => []SavedAsPreviewed
  <1>1. StructureShown => SavedAsPreviewed
    BY DEF StructureShown, SavedAsPreviewed, Structure!SavedAsPreviewed, StructureInv, LastRequest,
           PromiseInToken, OfDraft, Structure!PreviewIsOfDraft, Structure!SaveDoesWhatWasShown
  <1> QED BY <1>1, StructureAlways, PTL

-----------------------------------------------------------------------------
(* The draft. Its lists of operations stay tidy, and make what is shown    *)
(* one operation at a time.                                                *)

(* The draft of a structure: the operations on indexes.                    *)

LEMMA DraftOnly == \A s, S : Draft!Only(s, S) = Only(s, S)
  BY DEF Draft!Only, Only, Draft!InOrder, InOrder, Draft!Rank, Rank, Draft!Cardinality, Cardinality,
         Draft!IsFiniteSet, IsFiniteSet

\* r has the elements of s at the places S, in their order.
Picks(r, s, S, c, g) ==
  /\ g \in [1..c -> S] /\ IsSequence(r) /\ Len(r) = c
  /\ \A i \in 1..c : r[i] = s[g[i]]
  /\ \A i, j \in 1..c : i < j => g[i] < g[j]
  /\ \A x \in S : \E i \in 1..c : g[i] = x

LEMMA OnlyPicks ==
  ASSUME NEW s, NEW m \in Nat, NEW S, S \subseteq 1..m
  PROVE  \E c \in Nat : \E g : Picks(Only(s, S), s, S, c, g)
  <1>1. IsFiniteSet(S) /\ S \subseteq Nat
    <2>1. IsFiniteSet(1..m)
      BY FS_Interval
    <2>2. IsFiniteSet(S)
      BY <2>1, FS_Subset
    <2>3. S \subseteq Nat
      OBVIOUS
    <2> QED BY <2>2, <2>3
  <1>2. PICK c \in Nat : c = Cardinality(S)
    BY <1>1, FS_CardinalityType
  <1>3. PICK g : g = InOrder(S)
    OBVIOUS
  <1>4. /\ InOrder(S) \in [1..Cardinality(S) -> S]
        /\ \A i, j \in 1..Cardinality(S) : i < j => InOrder(S)[i] < InOrder(S)[j]
        /\ \A x \in S : \E i \in 1..Cardinality(S) : InOrder(S)[i] = x
    BY ONLY <1>1, InOrderEnumerates
  <1>5. g \in [1..c -> S] /\ (\A i, j \in 1..c : i < j => g[i] < g[j]) /\ \A x \in S : \E i \in 1..c : g[i] = x
    BY <1>2, <1>3, <1>4, Zenon
  <1>6. PICK r : r = Only(s, S)
    OBVIOUS
  <1>7. r = [i \in 1..c |-> s[g[i]]]
    BY <1>2, <1>3, <1>6, Zenon DEF Only
  <1>8. \A i \in 1..c : r[i] = s[g[i]]
    BY <1>7
  <1>9. PICK T : T = {s[x] : x \in S}
    OBVIOUS
  <1>10. \A i \in 1..c : s[g[i]] \in T
    BY <1>5, <1>9
  <1>11. r \in [1..c -> T]
    BY <1>7, <1>10
  <1>12. r \in Seq(T) /\ Len(r) = c
    BY <1>11
  <1>13. IsSequence(r)
    BY <1>12 DEF IsSequence
  <1>14. Picks(r, s, S, c, g)
    BY <1>5, <1>8, <1>12, <1>13, Zenon DEF Picks
  <1> QED BY <1>2, <1>6, <1>14, Zenon

IndexOp == [kind : {"add", "drop"}, index : Draft!Index]
AddAt(e, i, n) == e[i].kind = "add" /\ e[i].index.name = n
DropAt(e, i, n) == e[i].kind = "drop" /\ e[i].index.name = n

\* No index is added or dropped twice; what is dropped was loaded, and what was loaded is
\* dropped before it is added again.
Tidy(e) ==
  /\ IsSequence(e) /\ \A i \in 1..Len(e) : e[i] \in IndexOp
  /\ \A n : \A i, j \in 1..Len(e) : AddAt(e, i, n) /\ AddAt(e, j, n) => i = j
  /\ \A n : \A i, j \in 1..Len(e) : DropAt(e, i, n) /\ DropAt(e, j, n) => i = j
  /\ \A n : \A i \in 1..Len(e) : DropAt(e, i, n) => Draft!InBase(n)
  /\ \A n : \A i, j \in 1..Len(e) : DropAt(e, i, n) /\ AddAt(e, j, n) => i < j
  /\ \A n : \A j \in 1..Len(e) : AddAt(e, j, n) /\ Draft!InBase(n) => \E i \in 1..Len(e) : DropAt(e, i, n)

\* The indexes there are after k operations.
Remains(e, k, x) == x \in Draft!Base /\ \A i \in 1..k : ~DropAt(e, i, x.name)
Added(e, k, x) == \E i \in 1..k : e[i].kind = "add" /\ e[i].index = x
After(e, k) == {x \in Draft!Base \cup Draft!Index : Remains(e, k, x) \/ Added(e, k, x)}

LEMMA EmptyIsTidy == Tidy(<<>>)
  <1>1. <<>> \in Seq({}) /\ 1..Len(<<>>) = {}
    OBVIOUS
  <1>2. IsSequence(<<>>)
    BY <1>1 DEF IsSequence
  <1> QED BY <1>1, <1>2, Zenon DEF Tidy

\* An index that was added is one, and has the name of the operation.
LEMMA AfterHas ==
  ASSUME NEW e, Tidy(e), NEW k \in 0..Len(e)
  PROVE  /\ \A x : x \in After(e, k) <=> Remains(e, k, x) \/ Added(e, k, x)
         /\ After(e, k) # Draft!Failed
  <1>1. IsSequence(e) /\ \A i \in 1..Len(e) : e[i] \in IndexOp
    BY DEF Tidy
  <1>2. Len(e) \in Nat
    BY <1>1 DEF IsSequence
  <1>3. ASSUME NEW x, Added(e, k, x) PROVE x \in Draft!Index
    <2>1. PICK i \in 1..k : e[i].index = x
      BY <1>3 DEF Added
    <2>2. i \in 1..Len(e)
      BY <1>2
    <2> QED BY <1>1, <2>1, <2>2 DEF IndexOp
  <1>4. \A x : Remains(e, k, x) => x \in Draft!Base
    BY DEF Remains
  <1>5. \A x : x \in After(e, k) <=> Remains(e, k, x) \/ Added(e, k, x)
    BY <1>3, <1>4, Zenon DEF After
  <1>6. Absent \notin Draft!Base \cup Draft!Index
    BY DraftAssumption
  <1>7. After(e, k) # {Absent}
    BY <1>6 DEF After
  <1> QED BY <1>5, <1>7 DEF Draft!Failed

\* One more operation, as the list on the screen takes it and as the server does.
LEMMA AfterNext ==
  ASSUME NEW e, Tidy(e), NEW k \in 0..Len(e), k < Len(e)
  PROVE  /\ Draft!ApplyVisible(After(e, k), e[k + 1]) = After(e, k + 1)
         /\ Draft!RunIndex(After(e, k), e[k + 1]) = After(e, k + 1)
  <1>1. IsSequence(e) /\ \A i \in 1..Len(e) : e[i] \in IndexOp
    BY DEF Tidy
  <1>2. PICK m \in Nat : m = Len(e)
    BY <1>1 DEF IsSequence
  <1>3. k \in Nat /\ k + 1 \in 1..m /\ k + 1 \in 0..m /\ k \in 0..m
    BY <1>2
  <1>4. (\A i \in 1..(k + 1) : i \in 1..k \/ i = k + 1) /\ k + 1 \in 1..(k + 1)
    BY <1>3
  <1>5. \A i \in 1..k : i \in 1..m /\ i \in 1..(k + 1) /\ i # k + 1 /\ ~(k + 1 < i)
    BY <1>2, <1>3
  <1>6. PICK op, n, x0 : op = e[k + 1] /\ x0 = op.index /\ n = x0.name
    OBVIOUS
  <1>7. op \in IndexOp /\ (op.kind = "add" \/ op.kind = "drop")
    BY <1>1, <1>2, <1>3, <1>6 DEF IndexOp
  <1>8. PICK A, B : A = After(e, k) /\ B = After(e, k + 1)
    OBVIOUS
  <1>9. (\A x : x \in A <=> Remains(e, k, x) \/ Added(e, k, x)) /\ A # Draft!Failed
    BY <1>2, <1>3, <1>8, AfterHas
  <1>10. \A x : x \in B <=> Remains(e, k + 1, x) \/ Added(e, k + 1, x)
    BY <1>2, <1>3, <1>8, AfterHas
  <1>11. CASE op.kind = "add"
    <2>1. AddAt(e, k + 1, n) /\ ~(op.kind = "drop")
      BY <1>6, <1>11 DEF AddAt
    <2>2. ASSUME NEW x \in A, x.name = n PROVE FALSE
      <3>1. CASE Remains(e, k, x)
        <4>1. Draft!InBase(n)
          BY <2>2, <3>1 DEF Remains, Draft!InBase
        <4>2. PICK i \in 1..m : DropAt(e, i, n)
          BY <1>2, <1>3, <2>1, <4>1, Zenon DEF Tidy
        <4>3. i < k + 1
          BY <1>2, <1>3, <2>1, <4>2, Zenon DEF Tidy
        <4>4. i \in 1..k
          BY <1>3, <4>3
        <4> QED BY <2>2, <3>1, <4>2, <4>4, Zenon DEF Remains
      <3>2. CASE Added(e, k, x)
        <4>1. PICK i \in 1..k : e[i].kind = "add" /\ e[i].index = x
          BY <3>2 DEF Added
        <4>2. AddAt(e, i, n)
          BY <2>2, <4>1 DEF AddAt
        <4>3. i = k + 1
          BY <1>2, <1>3, <1>5, <2>1, <4>2, Zenon DEF Tidy
        <4> QED BY <1>5, <4>3
      <3> QED BY <1>9, <2>2, <3>1, <3>2
    <2>3. ASSUME NEW x PROVE Remains(e, k + 1, x) <=> Remains(e, k, x)
      <3>1. \A y : ~DropAt(e, k + 1, y)
        BY <1>6, <1>11 DEF DropAt
      <3> QED BY <1>4, <1>5, <3>1, Zenon DEF Remains
    <2>4. ASSUME NEW x PROVE Added(e, k + 1, x) <=> Added(e, k, x) \/ x = x0
      BY <1>4, <1>5, <1>6, <1>11, Zenon DEF Added
    <2>5. \A x : x \in B <=> x \in A \/ x = x0
      BY <1>9, <1>10, <2>3, <2>4, Zenon
    <2>6. B = A \cup {x0}
      BY <2>5
    <2>7. {b \in A : b.name # n} = A
      BY <2>2
    <2>8. Draft!ApplyVisible(A, op) = A \cup {x0}
      BY <1>6, <1>11, <2>7, Zenon DEF Draft!ApplyVisible
    <2>9. ~ \E x \in A : x.name = n
      BY <2>2
    <2>10. Draft!RunIndex(A, op) = A \cup {x0}
      BY <1>6, <1>9, <1>11, <2>9, Zenon DEF Draft!RunIndex
    <2> QED BY <1>6, <1>8, <2>6, <2>8, <2>10
  <1>12. CASE op.kind = "drop"
    <2>1. DropAt(e, k + 1, n) /\ op.kind # "add"
      BY <1>6, <1>12 DEF DropAt
    <2>2. PICK b \in Draft!Base : b.name = n
      BY <1>2, <1>3, <2>1, Zenon DEF Tidy, Draft!InBase
    <2>3. Remains(e, k, b)
      <3>1. ASSUME NEW i \in 1..k, DropAt(e, i, n) PROVE FALSE
        <4>1. i = k + 1
          BY <1>2, <1>3, <1>5, <2>1, <3>1, Zenon DEF Tidy
        <4> QED BY <1>5, <4>1
      <3> QED BY <2>2, <3>1 DEF Remains
    <2>4. ASSUME NEW x PROVE Remains(e, k + 1, x) <=> Remains(e, k, x) /\ x.name # n
      <3>1. DropAt(e, k + 1, x.name) <=> x.name = n
        BY <1>6, <1>12 DEF DropAt
      <3> QED BY <1>4, <1>5, <3>1, Zenon DEF Remains
    <2>5. ASSUME NEW x PROVE Added(e, k + 1, x) <=> Added(e, k, x)
      BY <1>4, <1>5, <1>6, <2>1, Zenon DEF Added
    <2>6. ASSUME NEW x, Added(e, k, x) PROVE x.name # n
      <3>1. PICK i \in 1..k : e[i].kind = "add" /\ e[i].index = x
        BY <2>6 DEF Added
      <3>2. SUFFICES ASSUME x.name = n PROVE FALSE
        OBVIOUS
      <3>3. AddAt(e, i, n)
        BY <3>1, <3>2 DEF AddAt
      <3>4. k + 1 < i
        BY <1>2, <1>3, <1>5, <2>1, <3>3, Zenon DEF Tidy
      <3> QED BY <1>5, <3>4
    <2>7. B = {x \in A : x.name # n}
      <3>1. \A x : x \in B <=> x \in A /\ x.name # n
        BY <1>9, <1>10, <2>4, <2>5, <2>6, Zenon
      <3> QED BY <3>1
    <2>8. Draft!ApplyVisible(A, op) = {x \in A : x.name # n}
      <3>1. Draft!ApplyVisible(A, op) = {x \in A : x.name # n} \cup {}
        BY <1>6, <2>1, Zenon DEF Draft!ApplyVisible
      <3> QED BY <3>1
    <2>9. \E x \in A : x.name = n
      BY <1>9, <2>2, <2>3, Zenon
    <2>10. Draft!RunIndex(A, op) = {x \in A : x.name # n}
      BY <1>6, <1>9, <2>1, <2>9, Zenon DEF Draft!RunIndex
    <2> QED BY <1>6, <1>8, <2>7, <2>8, <2>10
  <1> QED BY <1>7, <1>11, <1>12

-----------------------------------------------------------------------------
(* Loops over lists: what the loops of the model pass through.             *)

Step(k, a, x) == IF k = "columns" THEN Draft!RunColumn(a, x)
                 ELSE IF k = "indexes" THEN Draft!RunIndex(a, x)
                 ELSE IF k = "list" THEN Draft!ApplyVisible(a, x)
                 ELSE a \o Draft!ColumnOps(x)

Trace(f, k, a, s, m) == f = [n \in 0..m |-> IF n = 0 THEN a ELSE Step(k, f[n - 1], s[n])]

\* Every loop comes to its end.
LEMMA LoopEnds ==
  ASSUME NEW k, NEW a, NEW s, NEW m \in Nat
  PROVE  \E f : Trace(f, k, a, s, m)
  <1> DEFINE S == {n \in 0..m : \E f : Trace(f, k, a, s, n)}
  <1>1. 0 \in S
    <2>1. PICK f : f = [n \in 0..0 |-> a]
      OBVIOUS
    <2>2. f = [n \in 0..0 |-> IF n = 0 THEN a ELSE Step(k, f[n - 1], s[n])]
      BY <2>1
    <2>3. Trace(f, k, a, s, 0)
      BY <2>2, Zenon DEF Trace
    <2> QED BY <2>3
  <1>2. ASSUME NEW n \in 0..m, n < m, n \in S PROVE n + 1 \in S
    <2>1. PICK f : Trace(f, k, a, s, n)
      BY <1>2
    <2>2. PICK g : g = [i \in 0..(n + 1) |-> IF i = n + 1 THEN Step(k, f[n], s[n + 1]) ELSE f[i]]
      OBVIOUS
    <2>3. \A i \in 0..(n + 1) : g[i] = IF i = 0 THEN a ELSE Step(k, g[i - 1], s[i])
      <3> SUFFICES ASSUME NEW i \in 0..(n + 1)
                   PROVE  g[i] = IF i = 0 THEN a ELSE Step(k, g[i - 1], s[i])
        OBVIOUS
      <3>1. CASE i = n + 1
        <4>1. i # 0 /\ i - 1 = n /\ n \in 0..(n + 1) /\ n # n + 1
          BY <3>1
        <4>2. g[i] = Step(k, f[n], s[n + 1]) /\ g[n] = f[n]
          BY <2>2, <3>1, <4>1
        <4> QED BY <3>1, <4>1, <4>2
      <3>2. CASE i # n + 1
        <4>1. i \in 0..n /\ (i # 0 => i - 1 \in 0..(n + 1) /\ i - 1 # n + 1)
          BY <3>2
        <4>2. g[i] = f[i] /\ (i # 0 => g[i - 1] = f[i - 1])
          BY <2>2, <3>2, <4>1
        <4>3. f[i] = IF i = 0 THEN a ELSE Step(k, f[i - 1], s[i])
          BY <2>1, <4>1 DEF Trace
        <4> QED BY <4>2, <4>3
      <3> QED BY <3>1, <3>2
    <2>4. Trace(g, k, a, s, n + 1)
      <3>1. g = [i \in 0..(n + 1) |-> g[i]]
        BY <2>2
      <3> QED BY <2>3, <3>1 DEF Trace
    <2>5. n + 1 \in 0..m
      BY <1>2
    <2> QED BY <2>4, <2>5
  <1>3. \A n \in 0..m : n \in S
    <2> HIDE DEF S
    <2> QED BY <1>1, <1>2, CountUp
  <1> QED BY <1>3

LEMMA TraceGoes ==
  ASSUME NEW f, NEW k, NEW a, NEW s, NEW m \in Nat, Trace(f, k, a, s, m)
  PROVE  f[0] = a /\ \A n \in 0..m : n < m => f[n + 1] = Step(k, f[n], s[n + 1])
  <1>1. \A n \in 0..m : f[n] = IF n = 0 THEN a ELSE Step(k, f[n - 1], s[n])
    BY DEF Trace
  <1>2. f[0] = a
    BY <1>1
  <1>3. ASSUME NEW n \in 0..m, n < m PROVE f[n + 1] = Step(k, f[n], s[n + 1])
    <2>1. n + 1 \in 0..m /\ n + 1 # 0 /\ (n + 1) - 1 = n
      BY <1>3
    <2>2. f[n + 1] = Step(k, f[(n + 1) - 1], s[n + 1])
      BY <1>1, <2>1
    <2> QED BY <2>1, <2>2
  <1> QED BY <1>2, <1>3

\* What the server makes of the columns of a table.
Run(a, s) == Draft!Loop(Draft!RunColumn, a, s)

LEMMA RunTrace ==
  ASSUME NEW a, NEW s, Len(s) \in Nat
  PROVE  \E f : Trace(f, "columns", a, s, Len(s)) /\ Run(a, s) = f[Len(s)]
  <1>1. PICK m \in Nat : m = Len(s)
    OBVIOUS
  <1> DEFINE G(f) == f = [n \in 0..m |-> IF n = 0 THEN a ELSE Draft!RunColumn(f[n - 1], s[n])]
             F == CHOOSE f : G(f)
  <1>2. \A f : G(f) <=> Trace(f, "columns", a, s, m)
    BY Zenon DEF Trace, Step
  <1>3. G(F)
    <2>1. \E f : G(f)
      BY <1>1, <1>2, LoopEnds
    <2> HIDE DEF G
    <2> QED BY <2>1, Zenon
  <1>4. Run(a, s) = F[m]
    BY <1>1 DEF Run, Draft!Loop
  <1> HIDE DEF G, F
  <1> QED BY <1>1, <1>2, <1>3, <1>4

LEMMA IndexTrace ==
  ASSUME NEW a, NEW s, Len(s) \in Nat
  PROVE  \E f : Trace(f, "indexes", a, s, Len(s)) /\ Draft!Loop(Draft!RunIndex, a, s) = f[Len(s)]
  <1>1. PICK m \in Nat : m = Len(s)
    OBVIOUS
  <1> DEFINE G(f) == f = [n \in 0..m |-> IF n = 0 THEN a ELSE Draft!RunIndex(f[n - 1], s[n])]
             F == CHOOSE f : G(f)
  <1>2. \A f : G(f) <=> Trace(f, "indexes", a, s, m)
    BY Zenon DEF Trace, Step
  <1>3. G(F)
    <2>1. \E f : G(f)
      BY <1>1, <1>2, LoopEnds
    <2> HIDE DEF G
    <2> QED BY <2>1, Zenon
  <1>4. Draft!Loop(Draft!RunIndex, a, s) = F[m]
    BY <1>1 DEF Draft!Loop
  <1> HIDE DEF G, F
  <1> QED BY <1>1, <1>2, <1>3, <1>4

LEMMA ListTrace ==
  ASSUME NEW a, NEW s, Len(s) \in Nat
  PROVE  \E f : Trace(f, "list", a, s, Len(s)) /\ Draft!Loop(Draft!ApplyVisible, a, s) = f[Len(s)]
  <1>1. PICK m \in Nat : m = Len(s)
    OBVIOUS
  <1> DEFINE G(f) == f = [n \in 0..m |-> IF n = 0 THEN a ELSE Draft!ApplyVisible(f[n - 1], s[n])]
             F == CHOOSE f : G(f)
  <1>2. \A f : G(f) <=> Trace(f, "list", a, s, m)
    BY Zenon DEF Trace, Step
  <1>3. G(F)
    <2>1. \E f : G(f)
      BY <1>1, <1>2, LoopEnds
    <2> HIDE DEF G
    <2> QED BY <2>1, Zenon
  <1>4. Draft!Loop(Draft!ApplyVisible, a, s) = F[m]
    BY <1>1 DEF Draft!Loop
  <1> HIDE DEF G, F
  <1> QED BY <1>1, <1>2, <1>3, <1>4

\* The operations of the columns one after the other.
Gather(s) == Draft!Loop(LAMBDA ops, c : ops \o Draft!ColumnOps(c), <<>>, s)

LEMMA GatherTrace ==
  ASSUME NEW s, Len(s) \in Nat
  PROVE  \E f : Trace(f, "gather", <<>>, s, Len(s)) /\ Gather(s) = f[Len(s)]
  <1>1. PICK m \in Nat : m = Len(s)
    OBVIOUS
  <1> DEFINE G(f) == f = [n \in 0..m |-> IF n = 0 THEN <<>> ELSE f[n - 1] \o Draft!ColumnOps(s[n])]
             F == CHOOSE f : G(f)
  <1>2. \A f : G(f) <=> Trace(f, "gather", <<>>, s, m)
    BY Zenon DEF Trace, Step
  <1>3. G(F)
    <2>1. \E f : G(f)
      BY <1>1, <1>2, LoopEnds
    <2> HIDE DEF G
    <2> QED BY <2>1, Zenon
  <1>4. Gather(s) = F[m]
    BY <1>1 DEF Gather, Draft!Loop
  <1> HIDE DEF G, F
  <1> QED BY <1>1, <1>2, <1>3, <1>4

\* The server and the screen make the same of a tidy list of operations on indexes.
LEMMA TidyBecomesShown ==
  ASSUME NEW e, Tidy(e)
  PROVE  /\ Draft!Loop(Draft!RunIndex, Draft!Base, e) = After(e, Len(e))
         /\ Draft!Loop(Draft!ApplyVisible, Draft!Base, e) = After(e, Len(e))
  <1>1. IsSequence(e)
    BY DEF Tidy
  <1>2. PICK m \in Nat : m = Len(e)
    BY <1>1 DEF IsSequence
  <1>3. After(e, 0) = Draft!Base
    <2>1. 1..0 = {}
      OBVIOUS
    <2>2. \A x : (x \in Draft!Base <=> Remains(e, 0, x)) /\ ~Added(e, 0, x)
      BY <2>1, Zenon DEF Remains, Added
    <2>3. \A x : x \in After(e, 0) <=> Remains(e, 0, x) \/ Added(e, 0, x)
      BY <1>2, AfterHas
    <2>4. \A x : x \in After(e, 0) <=> x \in Draft!Base
      BY <2>2, <2>3, Zenon
    <2> QED BY <2>4
  <1>4. \A n \in 0..m : n < m => /\ Draft!ApplyVisible(After(e, n), e[n + 1]) = After(e, n + 1)
                                 /\ Draft!RunIndex(After(e, n), e[n + 1]) = After(e, n + 1)
    BY <1>2, AfterNext
  <1>5. ASSUME NEW k \in {"indexes", "list"}, NEW f, Trace(f, k, Draft!Base, e, m) PROVE f[m] = After(e, m)
    <2> DEFINE S == {n \in 0..m : f[n] = After(e, n)}
    <2>1. f[0] = Draft!Base /\ \A n \in 0..m : n < m => f[n + 1] = Step(k, f[n], e[n + 1])
      BY <1>2, <1>5, TraceGoes
    <2>2. 0 \in S
      BY <1>2, <1>3, <2>1
    <2>3. ASSUME NEW n \in 0..m, n < m, n \in S PROVE n + 1 \in S
      <3>1. f[n + 1] = Step(k, After(e, n), e[n + 1])
        BY <2>1, <2>3
      <3>2. Step(k, After(e, n), e[n + 1]) = After(e, n + 1)
        <4>1. CASE k = "indexes"
          BY <1>4, <2>3, <4>1, Zenon DEF Step
        <4>2. CASE k = "list"
          <5>1. "list" # "columns" /\ "list" # "indexes"
            OBVIOUS
          <5> QED BY <1>4, <2>3, <4>2, <5>1, Zenon DEF Step
        <4> QED BY <1>5, <4>1, <4>2
      <3>3. n + 1 \in 0..m
        BY <2>3
      <3> QED BY <3>1, <3>2, <3>3
    <2>4. \A n \in 0..m : n \in S
      <3> HIDE DEF S
      <3> QED BY <2>2, <2>3, CountUp
    <2>5. m \in 0..m
      BY <1>2
    <2> QED BY <2>4, <2>5
  <1>6. Draft!Loop(Draft!RunIndex, Draft!Base, e) = After(e, m)
    BY <1>2, <1>5, IndexTrace
  <1>7. Draft!Loop(Draft!ApplyVisible, Draft!Base, e) = After(e, m)
    BY <1>2, <1>5, ListTrace
  <1> QED BY <1>2, <1>6, <1>7

-----------------------------------------------------------------------------
(* The lists of operations on indexes stay tidy.                           *)

Drops(e, n) == \E i \in 1..Len(e) : DropAt(e, i, n)
Adds(e, n) == \E i \in 1..Len(e) : AddAt(e, i, n)

Kept(e, dropped, added) ==
  Only(e, {i \in DOMAIN e : /\ e[i].kind = "drop" => e[i].index.name \notin dropped
                            /\ e[i].kind = "add" => e[i].index.name \notin added})

\* Taking operations out leaves a list tidy when every add whose drop goes goes too.
LEMMA KeptIsTidy ==
  ASSUME NEW e, Tidy(e), NEW dropped, NEW added, dropped \subseteq added
  PROVE  /\ Tidy(Kept(e, dropped, added))
         /\ \A n : Drops(Kept(e, dropped, added), n) <=> Drops(e, n) /\ n \notin dropped
         /\ \A n : Adds(Kept(e, dropped, added), n) <=> Adds(e, n) /\ n \notin added
  <1>1. IsSequence(e) /\ \A i \in 1..Len(e) : e[i] \in IndexOp
    BY DEF Tidy
  <1>2. PICK m \in Nat : m = Len(e) /\ DOMAIN e = 1..m
    BY <1>1 DEF IsSequence
  <1> DEFINE In(i) == /\ e[i].kind = "drop" => e[i].index.name \notin dropped
                      /\ e[i].kind = "add" => e[i].index.name \notin added
  <1>3. PICK S : S = {i \in 1..m : In(i)}
    OBVIOUS
  <1>4. PICK r : r = Kept(e, dropped, added)
    OBVIOUS
  <1>5. r = Only(e, S)
    BY <1>2, <1>3, <1>4, Zenon DEF Kept
  <1>6. S \subseteq 1..m /\ \A i : i \in S <=> i \in 1..m /\ In(i)
    BY <1>3
  <1>7. PICK c, g : c \in Nat /\ Picks(r, e, S, c, g)
    <2>1. S \subseteq 1..m
      BY <1>6
    <2> QED BY <1>5, <2>1, OnlyPicks, Zenon
  <1>8. /\ g \in [1..c -> S] /\ IsSequence(r) /\ Len(r) = c
        /\ \A i \in 1..c : r[i] = e[g[i]]
        /\ \A i, j \in 1..c : i < j => g[i] < g[j]
        /\ \A x \in S : \E i \in 1..c : g[i] = x
    BY <1>7, Zenon DEF Picks
  <1>9. \A i \in 1..c : g[i] \in S /\ g[i] \in 1..m /\ In(g[i])
    BY <1>6, <1>8
  <1>10. \A i \in 1..c : \A n : (DropAt(r, i, n) <=> DropAt(e, g[i], n)) /\ (AddAt(r, i, n) <=> AddAt(e, g[i], n))
    BY <1>8, Zenon DEF DropAt, AddAt
  <1>11. \A i, j \in 1..c : g[i] = g[j] => i = j
    <2> SUFFICES ASSUME NEW i \in 1..c, NEW j \in 1..c, g[i] = g[j], i # j PROVE FALSE
      OBVIOUS
    <2>1. g[i] \in Nat /\ g[j] \in Nat
      BY <1>9
    <2>2. i < j \/ j < i
      OBVIOUS
    <2> QED BY <1>8, <2>1, <2>2
  <1>12. \A i, j \in 1..c : g[i] < g[j] => i < j
    <2> SUFFICES ASSUME NEW i \in 1..c, NEW j \in 1..c, g[i] < g[j], ~(i < j) PROVE FALSE
      OBVIOUS
    <2>1. g[i] \in Nat /\ g[j] \in Nat
      BY <1>9
    <2>2. i = j \/ j < i
      OBVIOUS
    <2> QED BY <1>8, <2>1, <2>2
  <1>13. \A n : \A i : DropAt(e, i, n) => (In(i) <=> n \notin dropped)
    BY DEF DropAt
  <1>14. \A n : \A i : AddAt(e, i, n) => (In(i) <=> n \notin added)
    BY DEF AddAt
  <1> HIDE DEF In
  <1>15. ASSUME NEW n PROVE Drops(r, n) <=> Drops(e, n) /\ n \notin dropped
    <2>1. ASSUME Drops(r, n) PROVE Drops(e, n) /\ n \notin dropped
      <3>1. PICK i \in 1..c : DropAt(r, i, n)
        BY <1>8, <2>1, Zenon DEF Drops
      <3> QED BY <1>2, <1>9, <1>10, <1>13, <3>1, Zenon DEF Drops
    <2>2. ASSUME Drops(e, n), n \notin dropped PROVE Drops(r, n)
      <3>1. PICK i \in 1..m : DropAt(e, i, n)
        BY <1>2, <2>2, Zenon DEF Drops
      <3>2. PICK j \in 1..c : g[j] = i
        BY <1>6, <1>8, <1>13, <2>2, <3>1, Zenon
      <3> QED BY <1>8, <1>10, <3>1, <3>2, Zenon DEF Drops
    <2> QED BY <2>1, <2>2
  <1>16. ASSUME NEW n PROVE Adds(r, n) <=> Adds(e, n) /\ n \notin added
    <2>1. ASSUME Adds(r, n) PROVE Adds(e, n) /\ n \notin added
      <3>1. PICK i \in 1..c : AddAt(r, i, n)
        BY <1>8, <2>1, Zenon DEF Adds
      <3> QED BY <1>2, <1>9, <1>10, <1>14, <3>1, Zenon DEF Adds
    <2>2. ASSUME Adds(e, n), n \notin added PROVE Adds(r, n)
      <3>1. PICK i \in 1..m : AddAt(e, i, n)
        BY <1>2, <2>2, Zenon DEF Adds
      <3>2. PICK j \in 1..c : g[j] = i
        BY <1>6, <1>8, <1>14, <2>2, <3>1, Zenon
      <3> QED BY <1>8, <1>10, <3>1, <3>2, Zenon DEF Adds
    <2> QED BY <2>1, <2>2
  <1>17. Tidy(r)
    <2>1. IsSequence(r) /\ \A i \in 1..Len(r) : r[i] \in IndexOp
      BY <1>1, <1>2, <1>8, <1>9, Zenon
    <2>2. ASSUME NEW n, NEW i \in 1..c, NEW j \in 1..c, AddAt(r, i, n), AddAt(r, j, n) PROVE i = j
      <3>1. AddAt(e, g[i], n) /\ AddAt(e, g[j], n) /\ g[i] \in 1..m /\ g[j] \in 1..m
        BY <1>9, <1>10, <2>2, Zenon
      <3>2. g[i] = g[j]
        BY <1>2, <3>1, Zenon DEF Tidy
      <3> QED BY <1>11, <3>2
    <2>3. ASSUME NEW n, NEW i \in 1..c, NEW j \in 1..c, DropAt(r, i, n), DropAt(r, j, n) PROVE i = j
      <3>1. DropAt(e, g[i], n) /\ DropAt(e, g[j], n) /\ g[i] \in 1..m /\ g[j] \in 1..m
        BY <1>9, <1>10, <2>3, Zenon
      <3>2. g[i] = g[j]
        BY <1>2, <3>1, Zenon DEF Tidy
      <3> QED BY <1>11, <3>2
    <2>4. ASSUME NEW n, NEW i \in 1..c, DropAt(r, i, n) PROVE Draft!InBase(n)
      BY <1>2, <1>9, <1>10, <2>4, Zenon DEF Tidy
    <2>5. ASSUME NEW n, NEW i \in 1..c, NEW j \in 1..c, DropAt(r, i, n), AddAt(r, j, n) PROVE i < j
      <3>1. DropAt(e, g[i], n) /\ AddAt(e, g[j], n) /\ g[i] \in 1..m /\ g[j] \in 1..m
        BY <1>9, <1>10, <2>5, Zenon
      <3>2. g[i] < g[j]
        BY <1>2, <3>1, Zenon DEF Tidy
      <3> QED BY <1>12, <3>2
    <2>6. ASSUME NEW n, NEW j \in 1..c, AddAt(r, j, n), Draft!InBase(n) PROVE \E i \in 1..c : DropAt(r, i, n)
      <3>1. AddAt(e, g[j], n) /\ g[j] \in 1..m
        BY <1>9, <1>10, <2>6, Zenon
      <3>2. Drops(e, n)
        BY <1>2, <2>6, <3>1, Zenon DEF Tidy, Drops
      <3>3. Adds(r, n)
        BY <1>8, <2>6, Zenon DEF Adds
      <3>4. n \notin dropped
        BY <1>16, <3>3
      <3>5. Drops(r, n)
        BY <1>15, <3>2, <3>4
      <3> QED BY <1>8, <3>5, Zenon DEF Drops
    <2>7. Len(r) = c
      BY <1>8
    <2> QED BY <2>1, <2>2, <2>3, <2>4, <2>5, <2>6, <2>7, Zenon DEF Tidy
  <1> QED BY <1>4, <1>15, <1>16, <1>17

LEMMA AppendIsTidy ==
  ASSUME NEW e, Tidy(e), NEW op \in IndexOp, NEW n, n = op.index.name, ~Adds(e, n),
         op.kind = "drop" => Draft!InBase(n) /\ ~Drops(e, n),
         op.kind = "add" => (Draft!InBase(n) => Drops(e, n))
  PROVE  /\ Tidy(e \o <<op>>)
         /\ \A x : Drops(e \o <<op>>, x) <=> Drops(e, x) \/ (op.kind = "drop" /\ x = n)
         /\ \A x : Adds(e \o <<op>>, x) <=> Adds(e, x) \/ (op.kind = "add" /\ x = n)
  <1>1. IsSequence(e) /\ \A i \in 1..Len(e) : e[i] \in IndexOp
    BY DEF Tidy
  <1>2. IsSequence(<<op>>) /\ Len(<<op>>) = 1 /\ <<op>>[1] = op
    BY OneIsSequence
  <1>3. PICK r : r = e \o <<op>>
    OBVIOUS
  <1>4. PICK m \in Nat : m = Len(e)
    BY <1>1 DEF IsSequence
  <1>5. /\ IsSequence(r) /\ Len(r) = m + 1
        /\ \A i \in 1..m : r[i] = e[i]
        /\ r[m + 1] = op
    <2>1. /\ IsSequence(r) /\ Len(r) = Len(e) + 1
          /\ \A i \in 1..Len(e) : r[i] = e[i]
          /\ \A i \in 1..1 : r[Len(e) + i] = <<op>>[i]
      BY ONLY <1>1, <1>2, <1>3, JoinIsSequence
    <2>2. 1 \in 1..1
      OBVIOUS
    <2>3. r[m + 1] = op
      BY <1>2, <1>4, <2>1, <2>2, Zenon
    <2> QED BY <1>4, <2>1, <2>3, Zenon
  <1>6. PICK M : M = m + 1
    OBVIOUS
  <1>7. (\A i \in 1..m : i \in 1..M /\ i # M /\ i < M /\ ~(M < i)) /\ M \in 1..M /\ \A i \in 1..M : i \in 1..m \/ i = M
    BY <1>6
  <1>8. /\ \A i \in 1..m : \A x : (DropAt(r, i, x) <=> DropAt(e, i, x)) /\ (AddAt(r, i, x) <=> AddAt(e, i, x))
        /\ \A x : DropAt(r, M, x) <=> op.kind = "drop" /\ x = n
        /\ \A x : AddAt(r, M, x) <=> op.kind = "add" /\ x = n
    BY <1>5, <1>6, Zenon DEF DropAt, AddAt
  <1>9. /\ \A x : Drops(r, x) <=> Drops(e, x) \/ (op.kind = "drop" /\ x = n)
    BY <1>4, <1>5, <1>6, <1>7, <1>8, Zenon DEF Drops
  <1>10. \A x : Adds(r, x) <=> Adds(e, x) \/ (op.kind = "add" /\ x = n)
    BY <1>4, <1>5, <1>6, <1>7, <1>8, Zenon DEF Adds
  <1>11. Tidy(r)
    <2>1. \A i \in 1..M : r[i] \in IndexOp
      BY <1>1, <1>4, <1>5, <1>6, <1>7, Zenon
    <2>2. /\ \A i \in 1..m : ~AddAt(e, i, n)
          /\ op.kind = "drop" => \A i \in 1..m : ~DropAt(e, i, n)
      BY <1>4, Zenon DEF Adds, Drops
    <2>3. ASSUME NEW x, NEW i \in 1..M, NEW j \in 1..M, AddAt(r, i, x), AddAt(r, j, x) PROVE i = j
      <3>1. CASE i \in 1..m /\ j \in 1..m
        BY <1>4, <1>8, <2>3, <3>1, Zenon DEF Tidy
      <3>2. \A y \in 1..m : AddAt(r, M, x) => ~AddAt(r, y, x)
        <4> SUFFICES ASSUME NEW y \in 1..m, AddAt(r, M, x), AddAt(r, y, x) PROVE FALSE
          OBVIOUS
        <4>1. x = n /\ op.kind = "add"
          BY <1>8
        <4>2. AddAt(e, y, n)
          BY <1>8, <4>1
        <4> QED BY <2>2, <4>1, <4>2, Zenon
      <3>3. CASE i = M \/ j = M
        BY <1>7, <2>3, <3>2, <3>3, Zenon
      <3> QED BY <1>7, <3>1, <3>3
    <2>4. ASSUME NEW x, NEW i \in 1..M, NEW j \in 1..M, DropAt(r, i, x), DropAt(r, j, x) PROVE i = j
      <3>1. CASE i \in 1..m /\ j \in 1..m
        BY <1>4, <1>8, <2>4, <3>1, Zenon DEF Tidy
      <3>2. \A y \in 1..m : DropAt(r, M, x) => ~DropAt(r, y, x)
        <4> SUFFICES ASSUME NEW y \in 1..m, DropAt(r, M, x), DropAt(r, y, x) PROVE FALSE
          OBVIOUS
        <4>1. x = n /\ op.kind = "drop"
          BY <1>8
        <4>2. DropAt(e, y, n)
          BY <1>8, <4>1
        <4> QED BY <2>2, <4>1, <4>2, Zenon
      <3>3. CASE i = M \/ j = M
        BY <1>7, <2>4, <3>2, <3>3, Zenon
      <3> QED BY <1>7, <3>1, <3>3
    <2>5. ASSUME NEW x, NEW i \in 1..M, DropAt(r, i, x) PROVE Draft!InBase(x)
      <3>1. CASE i \in 1..m
        BY <1>4, <1>8, <2>5, <3>1, Zenon DEF Tidy
      <3>2. CASE i = M
        <4>1. x = n /\ op.kind = "drop"
          BY <1>8, <2>5, <3>2
        <4> QED BY <4>1
      <3> QED BY <1>7, <3>1, <3>2
    <2>6. ASSUME NEW x, NEW i \in 1..M, NEW j \in 1..M, DropAt(r, i, x), AddAt(r, j, x) PROVE i < j
      <3>1. CASE i \in 1..m /\ j \in 1..m
        BY <1>4, <1>8, <2>6, <3>1, Zenon DEF Tidy
      <3>2. CASE i \in 1..m /\ j = M
        BY <1>7, <3>2, Zenon
      <3>3. CASE i = M /\ j \in 1..m
        <4>1. x = n
          BY <1>8, <2>6, <3>3
        <4>2. AddAt(e, j, n)
          BY <1>8, <2>6, <3>3, <4>1
        <4> QED BY <2>2, <3>3, <4>2, Zenon
      <3>4. CASE i = M /\ j = M
        <4>1. op.kind = "drop" /\ op.kind = "add"
          BY <1>8, <2>6, <3>4, Zenon
        <4> QED BY <4>1
      <3> QED BY <1>7, <3>1, <3>2, <3>3, <3>4
    <2>7. ASSUME NEW x, NEW j \in 1..M, AddAt(r, j, x), Draft!InBase(x) PROVE \E i \in 1..M : DropAt(r, i, x)
      <3>1. Drops(e, x)
        <4>1. CASE j \in 1..m
          BY <1>4, <1>8, <2>7, <4>1, Zenon DEF Tidy, Drops
        <4>2. CASE j = M
          <5>1. x = n /\ op.kind = "add"
            BY <1>8, <2>7, <4>2
          <5> QED BY <2>7, <5>1
        <4> QED BY <1>7, <4>1, <4>2
      <3>2. Drops(r, x)
        BY <1>9, <3>1
      <3> QED BY <1>5, <1>6, <3>2, Zenon DEF Drops
    <2>8. Len(r) = M /\ IsSequence(r)
      BY <1>5, <1>6
    <2> QED BY <2>1, <2>3, <2>4, <2>5, <2>6, <2>7, <2>8, Zenon DEF Tidy
  <1> QED BY <1>3, <1>9, <1>10, <1>11, Zenon

LEMMA NothingToJoin ==
  ASSUME NEW s, IsSequence(s)
  PROVE  s \o <<>> = s
  <1>1. PICK S : s \in Seq(S)
    BY DEF IsSequence
  <1> QED BY <1>1

LEMMA DraftKeeps ==
  ASSUME NEW dropped, NEW added
  PROVE  Draft!Keep(dropped, added) = Kept(extra, dropped, added)
  BY DraftOnly, Zenon DEF Draft!Keep, Kept

IndexInv == ~clash => Tidy(extra)

\* The list on the screen, when the operations are tidy.
LEMMA TidyIsVisible ==
  ASSUME Tidy(extra)
  PROVE  \A x : x \in Draft!VisibleIndexes <=> Remains(extra, Len(extra), x) \/ Added(extra, Len(extra), x)
  <1>1. Draft!VisibleIndexes = After(extra, Len(extra))
    BY TidyBecomesShown, Zenon DEF Draft!VisibleIndexes
  <1>2. Len(extra) \in Nat
    BY DEF Tidy, IsSequence
  <1>3. Len(extra) \in 0..Len(extra)
    BY <1>2
  <1> QED BY <1>1, <1>3, AfterHas, Zenon

\* A loaded index that is not on the screen is dropped.
LEMMA NotTaken ==
  ASSUME Tidy(extra), NEW n, Draft!InBase(n), ~ \E x \in Draft!VisibleIndexes : x.name = n
  PROVE  Drops(extra, n)
  <1>1. PICK b \in Draft!Base : b.name = n
    BY DEF Draft!InBase
  <1>2. ~Remains(extra, Len(extra), b)
    BY <1>1, TidyIsVisible
  <1>3. PICK i \in 1..Len(extra) : DropAt(extra, i, b.name)
    BY <1>1, <1>2, Zenon DEF Remains
  <1> QED BY <1>1, <1>3 DEF Drops

LEMMA AddIndexTidy ==
  ASSUME IndexInv, NEW x \in Draft!Index, Draft!AddIndex(x)
  PROVE  IndexInv'
  <1> SUFFICES ASSUME ~clash' PROVE Tidy(extra')
    BY Zenon DEF IndexInv
  <1>1. extra' = Draft!Keep({}, {x.name}) \o <<Draft!Add(x)>>
    BY Zenon DEF Draft!AddIndex
  <1>2. ~clash /\ ~Draft!Takes(x.name, Absent)
    BY Zenon DEF Draft!AddIndex
  <1>3. Tidy(extra)
    BY <1>2 DEF IndexInv
  <1>4. PICK n, K, op : n = x.name /\ K = Kept(extra, {}, {n}) /\ op = Draft!Add(x)
    OBVIOUS
  <1>5. extra' = K \o <<op>>
    BY <1>1, <1>4, DraftKeeps, Zenon
  <1>6. n \in IndexNames /\ Absent \notin IndexNames
    BY <1>4, DraftAssumption DEF Draft!Index
  <1>7. ~ \E y \in Draft!VisibleIndexes : y.name = n
    BY <1>2, <1>4, <1>6 DEF Draft!Takes
  <1>8. Draft!InBase(n) => Drops(extra, n)
    BY <1>3, <1>7, NotTaken
  <1>9. {} \subseteq {n} /\ n \notin {} /\ n \in {n}
    OBVIOUS
  <1>10. Tidy(K) /\ (Draft!InBase(n) => Drops(K, n)) /\ ~Adds(K, n)
    BY <1>3, <1>4, <1>8, <1>9, KeptIsTidy, Zenon
  <1>11. op \in IndexOp /\ op.index.name = n /\ op.kind = "add" /\ op.kind # "drop"
    BY <1>4 DEF Draft!Add, IndexOp
  <1>12. Tidy(K \o <<op>>)
    BY ONLY <1>10, <1>11, AppendIsTidy
  <1> QED BY <1>5, <1>12, Zenon

\* A loaded index is dropped by one operation.
LEMMA DropTidy ==
  ASSUME NEW e, Tidy(e), NEW n \in IndexNames, NEW A, n \in A
  PROVE  LET r == Kept(e, {n}, A) \o Draft!When(Draft!InBase(n), Draft!Drop(n)) IN
         /\ Tidy(r)
         /\ \A x : Drops(r, x) <=> IF x = n THEN Draft!InBase(n) ELSE Drops(e, x)
         /\ \A x : Adds(r, x) => Adds(e, x) /\ x \notin A
  <1>1. PICK K, op : K = Kept(e, {n}, A) /\ op = Draft!Drop(n)
    OBVIOUS
  <1>2. {n} \subseteq A
    OBVIOUS
  <1>3. /\ Tidy(K) /\ \A x : Drops(K, x) <=> Drops(e, x) /\ x \notin {n}
        /\ \A x : Adds(K, x) <=> Adds(e, x) /\ x \notin A
    BY <1>1, <1>2, KeptIsTidy, Zenon
  <1>4. PICK r : r = K \o Draft!When(Draft!InBase(n), op)
    OBVIOUS
  <1>5. ~Drops(K, n) /\ ~Adds(K, n) /\ \A x : x # n => (Drops(K, x) <=> Drops(e, x))
    BY <1>3
  <1>6. /\ Tidy(r)
        /\ \A x : Drops(r, x) <=> IF x = n THEN Draft!InBase(n) ELSE Drops(e, x)
        /\ \A x : Adds(r, x) => Adds(e, x) /\ x \notin A
    <2>1. CASE ~Draft!InBase(n)
      <3>1. r = K \o <<>>
        BY <1>4, <2>1, Zenon DEF Draft!When
      <3>2. IsSequence(K)
        BY <1>3 DEF Tidy
      <3>3. r = K
        BY <3>1, <3>2, NothingToJoin
      <3> QED BY <1>3, <1>5, <2>1, <3>3
    <2>2. CASE Draft!InBase(n)
      <3>1. r = K \o <<op>>
        BY <1>4, <2>2, Zenon DEF Draft!When
      <3>2. op \in IndexOp /\ op.index.name = n /\ op.kind = "drop" /\ op.kind # "add"
        BY <1>1 DEF Draft!Drop, IndexOp, Draft!Index
      <3>3. /\ Tidy(K \o <<op>>)
            /\ \A x : Drops(K \o <<op>>, x) <=> Drops(K, x) \/ (op.kind = "drop" /\ x = n)
            /\ \A x : Adds(K \o <<op>>, x) <=> Adds(K, x) \/ (op.kind = "add" /\ x = n)
        BY ONLY <1>3, <1>5, <2>2, <3>2, AppendIsTidy
      <3>4. /\ Tidy(r)
            /\ \A x : Drops(r, x) <=> Drops(K, x) \/ x = n
            /\ \A x : Adds(r, x) <=> Adds(K, x)
        BY <3>1, <3>2, <3>3
      <3> QED BY <1>3, <1>5, <2>2, <3>4
    <2> QED BY <2>1, <2>2
  <1> QED BY <1>1, <1>4, <1>6, Zenon

LEMMA DropIndexTidy ==
  ASSUME IndexInv, NEW n \in IndexNames, Draft!DropIndex(n)
  PROVE  IndexInv'
  <1> SUFFICES ASSUME ~clash' PROVE Tidy(extra')
    BY Zenon DEF IndexInv
  <1>1. extra' = Draft!Keep({n}, {n}) \o Draft!When(Draft!InBase(n), Draft!Drop(n))
    BY Zenon DEF Draft!DropIndex
  <1>2. clash' = clash
    BY DEF Draft!DropIndex
  <1>3. Tidy(extra)
    BY <1>2 DEF IndexInv
  <1>4. extra' = Kept(extra, {n}, {n}) \o Draft!When(Draft!InBase(n), Draft!Drop(n))
    BY <1>1, DraftKeeps, Zenon
  <1>5. PICK e : e = extra
    OBVIOUS
  <1>6. n \in {n}
    OBVIOUS
  <1>7. Tidy(Kept(e, {n}, {n}) \o Draft!When(Draft!InBase(n), Draft!Drop(n)))
    BY <1>3, <1>5, <1>6, DropTidy, Zenon
  <1> QED BY <1>4, <1>5, <1>7, Zenon

LEMMA ReplaceIndexTidy ==
  ASSUME IndexInv, NEW x \in Draft!Index, NEW o \in IndexNames, Draft!ReplaceIndex(o, x)
  PROVE  IndexInv'
  <1> SUFFICES ASSUME ~clash' PROVE Tidy(extra')
    BY Zenon DEF IndexInv
  <1>1. extra' = Draft!Keep({o}, {o, x.name}) \o Draft!When(Draft!InBase(o), Draft!Drop(o)) \o <<Draft!Add(x)>>
    BY Zenon DEF Draft!ReplaceIndex
  <1>2. ~clash /\ ~Draft!Takes(x.name, o)
    BY Zenon DEF Draft!ReplaceIndex
  <1>3. Tidy(extra)
    BY <1>2 DEF IndexInv
  <1>4. PICK n, e, op, K : /\ n = x.name /\ e = extra /\ op = Draft!Add(x)
                           /\ K = Kept(e, {o}, {o, n}) \o Draft!When(Draft!InBase(o), Draft!Drop(o))
    OBVIOUS
  <1>5. extra' = K \o <<op>>
    BY <1>1, <1>4, DraftKeeps, Zenon
  <1>6. n # o => ~ \E y \in Draft!VisibleIndexes : y.name = n
    BY <1>2, <1>4 DEF Draft!Takes
  <1>7. n # o => (Draft!InBase(n) => Drops(e, n))
    BY <1>3, <1>4, <1>6, NotTaken
  <1>8. o \in {o, n} /\ n \in {o, n}
    OBVIOUS
  <1>9. /\ Tidy(K)
        /\ \A y : Drops(K, y) <=> IF y = o THEN Draft!InBase(o) ELSE Drops(e, y)
        /\ \A y : Adds(K, y) => Adds(e, y) /\ y \notin {o, n}
    BY <1>3, <1>4, <1>8, DropTidy, Zenon
  <1>10. Tidy(K) /\ (Draft!InBase(n) => Drops(K, n)) /\ ~Adds(K, n)
    BY <1>7, <1>8, <1>9
  <1>11. op \in IndexOp /\ op.index.name = n /\ op.kind = "add" /\ op.kind # "drop"
    BY <1>4 DEF Draft!Add, IndexOp
  <1>12. Tidy(K \o <<op>>)
    BY ONLY <1>10, <1>11, AppendIsTidy
  <1> QED BY <1>5, <1>12, Zenon

LEMMA IndexInit == ASSUME Draft!Init PROVE IndexInv
  BY EmptyIsTidy DEF Draft!Init, IndexInv

LEMMA IndexNext == ASSUME IndexInv, Draft!Next \/ UNCHANGED draftVars PROVE IndexInv'
  <1>1. CASE UNCHANGED <<extra, clash>>
    BY <1>1 DEF IndexInv, Tidy, AddAt, DropAt
  <1>2. CASE \E x \in Draft!Index : Draft!AddIndex(x) \/ \E n \in IndexNames : Draft!ReplaceIndex(n, x)
    BY <1>2, AddIndexTidy, ReplaceIndexTidy, Zenon
  <1>3. CASE \E n \in IndexNames : Draft!DropIndex(n)
    BY <1>3, DropIndexTidy
  <1>4. CASE Draft!Discard
    BY <1>4, EmptyIsTidy DEF Draft!Discard, IndexInv
  <1>5. ASSUME NEW i \in 1..(Draft!Cardinality(LoadedNames) + MaxEdits),
               \/ \E n \in Names : Draft!Change(i, "name", n)
               \/ \E t \in Types : Draft!Change(i, "type", t)
               \/ \E m \in Comments : Draft!Change(i, "comment", m)
               \/ \E b \in BOOLEAN : Draft!Change(i, "primary", b)
               \/ Draft!DropColumn(i)
        PROVE  UNCHANGED <<extra, clash>>
    BY <1>5 DEF Draft!Change, Draft!DropColumn
  <1>6. Draft!AddColumn => UNCHANGED <<extra, clash>>
    BY DEF Draft!AddColumn
  <1>7. UNCHANGED draftVars => UNCHANGED <<extra, clash>>
    BY DEF draftVars
  <1> QED BY <1>1, <1>2, <1>3, <1>4, <1>5, <1>6, <1>7, Zenon DEF Draft!Next

LEMMA IndexesShown == ASSUME IndexInv PROVE Draft!IndexesBecomeShown
  <1> SUFFICES ASSUME ~clash PROVE Draft!Loop(Draft!RunIndex, Draft!Base, extra) = Draft!VisibleIndexes
    BY Zenon DEF Draft!IndexesBecomeShown
  <1>1. Tidy(extra)
    BY DEF IndexInv
  <1> QED BY <1>1, TidyBecomesShown, Zenon DEF Draft!VisibleIndexes

-----------------------------------------------------------------------------
(* The server runs operations on columns.                                  *)

LEMMA RunNone == \A a : Run(a, <<>>) = a
  <1> SUFFICES ASSUME NEW a PROVE Run(a, <<>>) = a
    OBVIOUS
  <1>1. PICK s : s = <<>>
    OBVIOUS
  <1>2. Len(s) = 0 /\ Len(s) \in Nat
    BY <1>1
  <1>3. PICK f : Trace(f, "columns", a, s, Len(s)) /\ Run(a, s) = f[Len(s)]
    BY <1>2, RunTrace
  <1>4. f[0] = a
    BY <1>2, <1>3, TraceGoes
  <1> QED BY <1>1, <1>2, <1>3, <1>4, Zenon

LEMMA RunOne == \A a, op : Run(a, <<op>>) = Draft!RunColumn(a, op)
  <1> SUFFICES ASSUME NEW a, NEW op PROVE Run(a, <<op>>) = Draft!RunColumn(a, op)
    OBVIOUS
  <1>1. PICK s : s = <<op>>
    OBVIOUS
  <1>2. Len(s) = 1 /\ s[1] = op
    BY <1>1
  <1>3. PICK f : Trace(f, "columns", a, s, Len(s)) /\ Run(a, s) = f[Len(s)]
    <2>1. Len(s) \in Nat
      BY <1>2
    <2> QED BY <2>1, RunTrace
  <1>4. f[0] = a /\ f[0 + 1] = Step("columns", f[0], s[0 + 1])
    <2>1. 1 \in Nat /\ 0 \in 0..1 /\ 0 < 1
      OBVIOUS
    <2>2. Trace(f, "columns", a, s, 1)
      BY <1>2, <1>3
    <2> QED BY ONLY <2>1, <2>2, TraceGoes
  <1>5. 0 + 1 = 1
    OBVIOUS
  <1>6. f[1] = Step("columns", a, op)
    BY <1>2, <1>4, <1>5, Zenon
  <1> QED BY <1>1, <1>2, <1>3, <1>6, Zenon DEF Step

LEMMA WhenIsSequence == ASSUME NEW test, NEW op PROVE IsSequence(Draft!When(test, op))
  <1>1. <<>> \in Seq({})
    OBVIOUS
  <1>2. IsSequence(<<>>)
    BY <1>1 DEF IsSequence
  <1>3. IsSequence(<<op>>)
    BY OneIsSequence
  <1> QED BY <1>2, <1>3, Zenon DEF Draft!When

LEMMA RunJoin ==
  ASSUME NEW a, NEW s, NEW t, IsSequence(s), IsSequence(t)
  PROVE  Run(a, s \o t) = Run(Run(a, s), t)
  <1>1. PICK r : r = s \o t
    OBVIOUS
  <1>2. PICK m \in Nat, k \in Nat : m = Len(s) /\ k = Len(t)
    BY DEF IsSequence
  <1>3. /\ Len(r) = m + k
        /\ \A i \in 1..m : r[i] = s[i]
        /\ \A i \in 1..k : r[m + i] = t[i]
    <2>1. /\ Len(s \o t) = Len(s) + Len(t)
          /\ \A i \in 1..Len(s) : (s \o t)[i] = s[i]
          /\ \A i \in 1..Len(t) : (s \o t)[Len(s) + i] = t[i]
      BY JoinIsSequence
    <2> QED BY <1>1, <1>2, <2>1, Zenon
  <1>4. PICK f : Trace(f, "columns", a, r, Len(r)) /\ Run(a, r) = f[Len(r)]
    <2>1. Len(r) \in Nat
      BY <1>3
    <2> QED BY <2>1, RunTrace
  <1>5. PICK g : Trace(g, "columns", a, s, m) /\ Run(a, s) = g[m]
    BY <1>2, RunTrace
  <1>6. PICK h : Trace(h, "columns", g[m], t, k) /\ Run(g[m], t) = h[k]
    BY <1>2, RunTrace
  <1>7. /\ f[0] = a /\ \A n \in 0..(m + k) : n < m + k => f[n + 1] = Step("columns", f[n], r[n + 1])
    <2>1. m + k \in Nat /\ Trace(f, "columns", a, r, m + k)
      BY <1>3, <1>4
    <2> QED BY ONLY <2>1, TraceGoes
  <1>8. g[0] = a /\ \A n \in 0..m : n < m => g[n + 1] = Step("columns", g[n], s[n + 1])
    BY <1>5, TraceGoes
  <1>9. h[0] = g[m] /\ \A n \in 0..k : n < k => h[n + 1] = Step("columns", h[n], t[n + 1])
    BY <1>6, TraceGoes
  <1>10. f[m] = g[m]
    <2> DEFINE S == {n \in 0..m : f[n] = g[n]}
    <2>1. 0 \in S
      BY <1>7, <1>8
    <2>2. ASSUME NEW n \in 0..m, n < m, n \in S PROVE n + 1 \in S
      <3>1. n + 1 \in 1..m /\ n + 1 \in 0..m /\ n \in 0..(m + k) /\ n < m + k
        BY <2>2
      <3>2. f[n] = g[n] /\ r[n + 1] = s[n + 1]
        BY <1>3, <2>2, <3>1
      <3>3. f[n + 1] = Step("columns", f[n], r[n + 1]) /\ g[n + 1] = Step("columns", g[n], s[n + 1])
        BY <1>7, <1>8, <2>2, <3>1
      <3> QED BY <3>1, <3>2, <3>3
    <2>3. \A n \in 0..m : n \in S
      <3> HIDE DEF S
      <3> QED BY <2>1, <2>2, CountUp
    <2>4. m \in 0..m
      OBVIOUS
    <2> QED BY <2>3, <2>4
  <1>11. f[m + k] = h[k]
    <2> DEFINE S == {n \in 0..k : f[m + n] = h[n]}
    <2>1. 0 \in S
      BY <1>9, <1>10
    <2>2. ASSUME NEW n \in 0..k, n < k, n \in S PROVE n + 1 \in S
      <3>1. n + 1 \in 1..k /\ n + 1 \in 0..k /\ m + n \in 0..(m + k) /\ m + n < m + k /\ (m + n) + 1 = m + (n + 1)
        BY <2>2
      <3>2. f[m + n] = h[n] /\ r[m + (n + 1)] = t[n + 1]
        BY <1>3, <2>2, <3>1
      <3>3. f[(m + n) + 1] = Step("columns", f[m + n], r[(m + n) + 1]) /\ h[n + 1] = Step("columns", h[n], t[n + 1])
        BY <1>7, <1>9, <2>2, <3>1
      <3> QED BY <3>1, <3>2, <3>3
    <2>3. \A n \in 0..k : n \in S
      <3> HIDE DEF S
      <3> QED BY <2>1, <2>2, CountUp
    <2>4. k \in 0..k
      OBVIOUS
    <2> QED BY <2>3, <2>4
  <1> QED BY <1>1, <1>2, <1>3, <1>4, <1>5, <1>6, <1>11, Zenon

LEMMA RunFailed ==
  ASSUME NEW s, IsSequence(s)
  PROVE  Run(Draft!Failed, s) = Draft!Failed
  <1>1. PICK m \in Nat : m = Len(s)
    BY DEF IsSequence
  <1>2. PICK f : Trace(f, "columns", Draft!Failed, s, m) /\ Run(Draft!Failed, s) = f[m]
    BY <1>1, RunTrace
  <1>3. f[0] = Draft!Failed /\ \A n \in 0..m : n < m => f[n + 1] = Step("columns", f[n], s[n + 1])
    BY <1>2, TraceGoes
  <1>4. \A op : Draft!RunColumn(Draft!Failed, op) = Draft!Failed
    BY Zenon DEF Draft!RunColumn
  <1>5. \A op : Step("columns", Draft!Failed, op) = Draft!Failed
    BY <1>4, Zenon DEF Step
  <1> DEFINE S == {n \in 0..m : f[n] = Draft!Failed}
  <1>6. 0 \in S
    BY <1>3
  <1>7. ASSUME NEW n \in 0..m, n < m, n \in S PROVE n + 1 \in S
    BY <1>3, <1>5, <1>7
  <1>8. \A n \in 0..m : n \in S
    <2> HIDE DEF S
    <2> QED BY <1>6, <1>7, CountUp
  <1>9. m \in 0..m
    OBVIOUS
  <1> QED BY <1>2, <1>8, <1>9

\* The operations of one column: add, or rename, alter and comment in that order.
Altered(a, op, b) == b = Draft!RunColumn(a, op)

LEMMA ColumnOpsRun ==
  ASSUME NEW c
  PROVE  /\ IsSequence(Draft!ColumnOps(c))
         /\ c.orig = Absent => \A a : Run(a, Draft!ColumnOps(c)) = Draft!RunColumn(a, Draft!Op("add_column", Absent, c))
         /\ c.orig # Absent => \A a : \E T1, T2 :
              /\ IF c.orig # c.name THEN Altered(a, Draft!Op("rename_column", c.orig, c), T1) ELSE T1 = a
              /\ IF Draft!Original(c).type # c.type
                 THEN Altered(T1, Draft!Op("alter_column", Absent, c), T2) ELSE T2 = T1
              /\ IF Draft!Original(c).comment # c.comment
                 THEN Altered(T2, Draft!Op("set_column_comment", Absent, c), Run(a, Draft!ColumnOps(c)))
                 ELSE Run(a, Draft!ColumnOps(c)) = T2
  <1>1. CASE c.orig = Absent
    <2>1. PICK op : op = Draft!Op("add_column", Absent, c)
      OBVIOUS
    <2>2. Draft!ColumnOps(c) = <<op>>
      BY <1>1, <2>1, Zenon DEF Draft!ColumnOps
    <2>3. IsSequence(<<op>>)
      BY OneIsSequence
    <2> QED BY <1>1, <2>1, <2>2, <2>3, RunOne, Zenon
  <1>2. CASE c.orig # Absent
    <2>1. PICK r, s, t : /\ r = Draft!When(c.orig # c.name, Draft!Op("rename_column", c.orig, c))
                         /\ s = Draft!When(Draft!Original(c).type # c.type, Draft!Op("alter_column", Absent, c))
                         /\ t = Draft!When(Draft!Original(c).comment # c.comment, Draft!Op("set_column_comment", Absent, c))
      OBVIOUS
    <2>2. IsSequence(r) /\ IsSequence(s) /\ IsSequence(t)
      BY <2>1, WhenIsSequence, Zenon
    <2>3. Draft!ColumnOps(c) = (r \o s) \o t
      BY <1>2, <2>1, Zenon DEF Draft!ColumnOps
    <2>4. IsSequence(r \o s)
      BY <2>2, JoinIsSequence
    <2>5. IsSequence((r \o s) \o t)
      BY <2>2, <2>4, JoinIsSequence
    <2>6. ASSUME NEW a PROVE Run(a, (r \o s) \o t) = Run(Run(Run(a, r), s), t)
      <3>1. Run(a, (r \o s) \o t) = Run(Run(a, r \o s), t)
        BY <2>2, <2>4, RunJoin
      <3>2. Run(a, r \o s) = Run(Run(a, r), s)
        BY <2>2, RunJoin
      <3> QED BY <3>1, <3>2
    <2>7. /\ IF c.orig # c.name THEN r = <<Draft!Op("rename_column", c.orig, c)>> ELSE r = <<>>
          /\ IF Draft!Original(c).type # c.type THEN s = <<Draft!Op("alter_column", Absent, c)>> ELSE s = <<>>
          /\ IF Draft!Original(c).comment # c.comment
             THEN t = <<Draft!Op("set_column_comment", Absent, c)>> ELSE t = <<>>
      BY <2>1, Zenon DEF Draft!When
    <2>8. ASSUME NEW a
          PROVE  /\ IF c.orig # c.name THEN Altered(a, Draft!Op("rename_column", c.orig, c), Run(a, r))
                    ELSE Run(a, r) = a
                 /\ IF Draft!Original(c).type # c.type
                    THEN Altered(a, Draft!Op("alter_column", Absent, c), Run(a, s)) ELSE Run(a, s) = a
                 /\ IF Draft!Original(c).comment # c.comment
                    THEN Altered(a, Draft!Op("set_column_comment", Absent, c), Run(a, t)) ELSE Run(a, t) = a
      BY <2>7, RunNone, RunOne, Zenon DEF Altered
    <2> SUFFICES ASSUME NEW a
                 PROVE  \E T1, T2 :
              /\ IF c.orig # c.name THEN Altered(a, Draft!Op("rename_column", c.orig, c), T1) ELSE T1 = a
              /\ IF Draft!Original(c).type # c.type
                 THEN Altered(T1, Draft!Op("alter_column", Absent, c), T2) ELSE T2 = T1
              /\ IF Draft!Original(c).comment # c.comment
                 THEN Altered(T2, Draft!Op("set_column_comment", Absent, c), Run(a, Draft!ColumnOps(c)))
                 ELSE Run(a, Draft!ColumnOps(c)) = T2
      BY <1>2, <2>3, <2>5, Zenon
    <2> WITNESS Run(a, r), Run(Run(a, r), s)
    <2>9. Run(a, Draft!ColumnOps(c)) = Run(Run(Run(a, r), s), t)
      BY <2>3, <2>6, Zenon
    <2> QED BY <2>8, <2>9, Zenon
  <1> QED BY <1>1, <1>2

-----------------------------------------------------------------------------
(* The table as it was loaded, and the columns of the draft.               *)

LEMMA OrderIs ==
  /\ Draft!Cardinality(LoadedNames) \in Nat
  /\ Draft!Order \in [1..Draft!Cardinality(LoadedNames) -> LoadedNames]
  /\ \A i, j \in 1..Draft!Cardinality(LoadedNames) : Draft!Order[i] = Draft!Order[j] => i = j
  <1>1. IsFiniteSet(LoadedNames)
    BY DraftAssumption
  <1>2. PICK N : N = Cardinality(LoadedNames)
    OBVIOUS
  <1>3. N \in Nat /\ \E f : f \in Bijection(1..N, LoadedNames)
    BY <1>1, <1>2, FS_CardinalityType DEF ExistsBijection
  <1>4. Draft!Cardinality(LoadedNames) = N
    BY <1>2 DEF Draft!Cardinality, Cardinality, Draft!IsFiniteSet, IsFiniteSet
  <1> DEFINE P(s) == \A i, j \in DOMAIN s : s[i] = s[j] => i = j
             O == CHOOSE s \in [1..N -> LoadedNames] : P(s)
  <1>5. \E s \in [1..N -> LoadedNames] : P(s)
    <2>1. PICK f : f \in Bijection(1..N, LoadedNames)
      BY <1>3
    <2>2. f \in [1..N -> LoadedNames] /\ \A i, j \in 1..N : f[i] = f[j] => i = j
      BY <2>1 DEF Bijection, Injection, Surjection, IsInjective
    <2> QED BY <2>2
  <1>6. O \in [1..N -> LoadedNames] /\ P(O)
    <2> HIDE DEF P
    <2> QED BY <1>5, Zenon
  <1>7. Draft!Order = O
    BY <1>4, Zenon DEF Draft!Order
  <1>8. DOMAIN O = 1..N
    BY <1>6
  <1>9. \A i, j \in 1..N : O[i] = O[j] => i = j
    BY <1>6, <1>8
  <1> HIDE DEF O, P
  <1> QED BY <1>3, <1>4, <1>6, <1>7, <1>9

N0 == Draft!Cardinality(LoadedNames)

LEMMA BeforeIs ==
  /\ N0 \in Nat /\ IsSequence(Draft!Before) /\ Len(Draft!Before) = N0 /\ DOMAIN Draft!Before = 1..N0
  /\ \A i \in 1..N0 : /\ Draft!Before[i] \in Draft!Column /\ Draft!Before[i].name \in LoadedNames
                      /\ Draft!Before[i].primary <=> i = 1
  /\ \A i, j \in 1..N0 : Draft!Before[i].name = Draft!Before[j].name => i = j
  <1>1. PICK N, O, t, m : /\ N = N0 /\ O = Draft!Order
                          /\ t = (CHOOSE x \in Types : TRUE) /\ m = (CHOOSE x \in Comments : TRUE)
    OBVIOUS
  <1>2. N \in Nat /\ O \in [1..N -> LoadedNames] /\ \A i, j \in 1..N : O[i] = O[j] => i = j
    BY <1>1, OrderIs, Zenon DEF N0
  <1>3. t \in Types /\ m \in Comments
    BY <1>1, DraftAssumption
  <1>4. PICK B : B = Draft!Before
    OBVIOUS
  <1>5. B = [i \in DOMAIN O |-> [name |-> O[i], type |-> t, comment |-> m, primary |-> i = 1]]
    BY <1>1, <1>4, Zenon DEF Draft!Before
  <1>6. DOMAIN B = 1..N /\ \A i \in 1..N : B[i] = [name |-> O[i], type |-> t, comment |-> m, primary |-> i = 1]
    BY <1>2, <1>5
  <1>7. ASSUME NEW i \in 1..N
        PROVE  /\ B[i] \in Draft!Column /\ B[i].name = O[i] /\ O[i] \in LoadedNames
               /\ B[i].primary <=> i = 1
    <2>1. O[i] \in LoadedNames
      BY <1>2
    <2>2. O[i] \in Draft!ColumnName
      BY <2>1 DEF Draft!ColumnName
    <2>3. B[i] = [name |-> O[i], type |-> t, comment |-> m, primary |-> i = 1]
      BY <1>6
    <2>4. (i = 1) \in BOOLEAN
      OBVIOUS
    <2>5. PICK q \in BOOLEAN : q = (i = 1)
      BY <2>4, Zenon
    <2>6. B[i] = [name |-> O[i], type |-> t, comment |-> m, primary |-> q]
      BY <2>3, <2>5, Zenon
    <2>7. B[i] \in Draft!Column /\ B[i].name = O[i] /\ B[i].primary = q
      BY <1>3, <2>2, <2>6 DEF Draft!Column
    <2> QED BY <2>1, <2>5, <2>7, Zenon
  <1>8. B \in [1..N -> Draft!Column]
    <2>1. B = [i \in 1..N |-> B[i]]
      BY <1>5, <1>6
    <2> QED BY <1>7, <2>1
  <1>9. B \in Seq(Draft!Column) /\ Len(B) = N
    BY <1>2, <1>8
  <1>10. IsSequence(B)
    BY <1>9 DEF IsSequence
  <1>11. \A i, j \in 1..N : B[i].name = B[j].name => i = j
    BY <1>2, <1>7
  <1> QED BY <1>1, <1>2, <1>4, <1>6, <1>7, <1>9, <1>10, <1>11, Zenon

Loaded(b) == \E i \in 1..N0 : b = Draft!Before[i]

\* The columns of a draft: those that were loaded once each, and new ones; at most one
\* has the tick of the primary key.
ColumnsWell(cs) ==
  /\ IsSequence(cs) /\ \A i \in 1..Len(cs) : cs[i] \in Draft!DraftColumn
  /\ \A i \in 1..Len(cs) : cs[i].orig # Absent => \E b : Loaded(b) /\ b.name = cs[i].orig
  /\ \A i, j \in 1..Len(cs) : cs[i].orig = cs[j].orig /\ cs[i].orig # Absent => i = j
  /\ \A i, j \in 1..Len(cs) : cs[i].primary /\ cs[j].primary => i = j

LEMMA LoadedIs ==
  /\ \A b : Loaded(b) => b \in Draft!Column /\ b.name \in LoadedNames /\ b.name # Absent
  /\ \A b, d : Loaded(b) /\ Loaded(d) /\ b.name = d.name => b = d
  /\ \A b, d : Loaded(b) /\ Loaded(d) /\ b.primary /\ d.primary => b = d
  <1>1. Absent \notin Draft!ColumnName
    BY DraftAssumption
  <1>2. Absent \notin LoadedNames
    BY <1>1 DEF Draft!ColumnName
  <1>3. ASSUME NEW b, Loaded(b) PROVE b \in Draft!Column /\ b.name \in LoadedNames
    <2>1. PICK i \in 1..N0 : b = Draft!Before[i]
      BY <1>3 DEF Loaded
    <2>2. Draft!Before[i] \in Draft!Column /\ Draft!Before[i].name \in LoadedNames
      BY BeforeIs
    <2> QED BY <2>1, <2>2
  <1>4. \A b, d : Loaded(b) /\ Loaded(d) /\ b.name = d.name => b = d
    BY BeforeIs, Zenon DEF Loaded
  <1>5. \A b, d : Loaded(b) /\ Loaded(d) /\ b.primary /\ d.primary => b = d
    BY BeforeIs, Zenon DEF Loaded
  <1> QED BY <1>2, <1>3, <1>4, <1>5

LEMMA OriginalIs ==
  ASSUME NEW c, NEW b, Loaded(b), b.name = c.orig
  PROVE  Draft!Original(c) = b
  <1>1. PICK B : B = Draft!Before
    OBVIOUS
  <1>2. DOMAIN B = 1..N0 /\ \A i, j \in 1..N0 : B[i].name = B[j].name => i = j
    BY <1>1, BeforeIs
  <1>3. PICK i \in 1..N0 : b = B[i]
    BY <1>1 DEF Loaded
  <1> DEFINE k == CHOOSE x \in DOMAIN B : B[x].name = c.orig
  <1>4. k \in 1..N0 /\ B[k].name = c.orig
    BY <1>2, <1>3, Zenon
  <1>5. k = i
    BY <1>2, <1>3, <1>4, Zenon
  <1>6. Draft!Original(c) = B[k]
    BY <1>1, Zenon DEF Draft!Original
  <1> QED BY <1>3, <1>5, <1>6

\* The name of the primary key, where at most one column has the tick.
LEMMA FirstPrimaryIs ==
  ASSUME NEW cs, IsSequence(cs), \A i, j \in 1..Len(cs) : cs[i].primary /\ cs[j].primary => i = j
  PROVE  \/ \E p \in 1..Len(cs) : cs[p].primary /\ Draft!FirstPrimary(cs) = cs[p].name
         \/ (\A p \in 1..Len(cs) : ~cs[p].primary) /\ Draft!FirstPrimary(cs) = Absent
  <1>1. PICK m \in Nat : m = Len(cs) /\ DOMAIN cs = 1..m
    BY DEF IsSequence
  <1> DEFINE Q(i) == cs[i].primary /\ \A j \in 1..(i - 1) : ~cs[j].primary
             k == CHOOSE i \in DOMAIN cs : Q(i)
  <1>2. CASE \E p \in 1..m : cs[p].primary
    <2>1. PICK p \in 1..m : cs[p].primary
      BY <1>2
    <2>2. Q(p)
      <3> SUFFICES ASSUME NEW j \in 1..(p - 1), cs[j].primary PROVE FALSE
        BY <2>1
      <3>1. j \in 1..m /\ j # p
        OBVIOUS
      <3> QED BY <1>1, <2>1, <3>1
    <2>3. k \in 1..m /\ Q(k)
      <3> HIDE DEF Q
      <3> QED BY <1>1, <2>2, Zenon
    <2>4. Draft!FirstPrimary(cs) = cs[k].name
      BY <1>1, <1>2, Zenon DEF Draft!FirstPrimary
    <2>5. cs[k].primary
      BY <2>3
    <2> HIDE DEF k
    <2> QED BY <1>1, <2>3, <2>4, <2>5
  <1>3. CASE \A p \in 1..m : ~cs[p].primary
    BY <1>1, <1>3, Zenon DEF Draft!FirstPrimary
  <1> QED BY <1>2, <1>3

\* The primary key as it was loaded.
LEMMA KeyBefore ==
  \/ \E b : Loaded(b) /\ b.primary /\ Draft!FirstPrimary(Draft!Before) = b.name
  \/ (\A b : ~Loaded(b)) /\ Draft!FirstPrimary(Draft!Before) = Absent
  <1>1. PICK B : B = Draft!Before
    OBVIOUS
  <1>2. PICK N \in Nat : N = N0
    BY BeforeIs
  <1>3. IsSequence(B) /\ Len(B) = N /\ \A i \in 1..N : B[i].primary <=> i = 1
    BY <1>1, <1>2, BeforeIs
  <1>4. \A i, j \in 1..N : B[i].primary /\ B[j].primary => i = j
    BY <1>3
  <1>5. \/ \E p \in 1..N : B[p].primary /\ Draft!FirstPrimary(B) = B[p].name
        \/ (\A p \in 1..N : ~B[p].primary) /\ Draft!FirstPrimary(B) = Absent
    BY <1>3, <1>4, FirstPrimaryIs
  <1>6. CASE \E p \in 1..N : B[p].primary /\ Draft!FirstPrimary(B) = B[p].name
    BY <1>1, <1>2, <1>6, Zenon DEF Loaded
  <1>7. CASE (\A p \in 1..N : ~B[p].primary) /\ Draft!FirstPrimary(B) = Absent
    <2>1. 1 \notin 1..N
      BY <1>3, <1>7
    <2>2. 1..N = {}
      BY <2>1
    <2> QED BY <1>1, <1>2, <1>7, <2>2, Zenon DEF Loaded
  <1> QED BY <1>5, <1>6, <1>7

-----------------------------------------------------------------------------
(* One operation on a table.                                               *)

LEMMA NotFailed == ASSUME NEW T, T \subseteq Draft!Column PROVE T # Draft!Failed
  <1>1. Absent \notin Draft!Column
    BY DraftAssumption
  <1> QED BY <1>1 DEF Draft!Failed

LEMMA RunRename ==
  ASSUME NEW X, NEW y \in Draft!Column, NEW c, X \subseteq Draft!Column,
         \A x \in X : x.name # y.name, c.name # y.name
  PROVE  /\ Draft!Has(X, c.name) =>
              Draft!RunColumn(X \cup {y}, Draft!Op("rename_column", y.name, c)) = Draft!Failed
         /\ ~Draft!Has(X, c.name) =>
              Draft!RunColumn(X \cup {y}, Draft!Op("rename_column", y.name, c)) = X \cup {[y EXCEPT !.name = c.name]}
  <1>1. PICK T, op, o, n : /\ T = X \cup {y} /\ op = Draft!Op("rename_column", o, c) /\ o = y.name
                           /\ n = c.name
    OBVIOUS
  <1>2. T # Draft!Failed
    BY <1>1, NotFailed
  <1>3. op.kind = "rename_column" /\ op.name = o /\ op.column = c
    BY <1>1 DEF Draft!Op
  <1>4. op.kind # "drop_column" /\ op.kind # "add_column"
    BY <1>3
  <1>5. Draft!Has(T, o) /\ (Draft!Has(T, n) <=> Draft!Has(X, n))
    BY <1>1 DEF Draft!Has
  <1>6. Draft!RunColumn(T, op) =
          IF ~Draft!Has(T, op.name) \/ Draft!Has(T, op.column.name) THEN Draft!Failed
          ELSE {IF x.name = op.name THEN [x EXCEPT !.name = op.column.name] ELSE x : x \in T}
    BY <1>2, <1>3, <1>4, Zenon DEF Draft!RunColumn
  <1>7. {IF x.name = op.name THEN [x EXCEPT !.name = op.column.name] ELSE x : x \in T}
          = X \cup {[y EXCEPT !.name = n]}
    BY <1>1, <1>3
  <1>8. Draft!Has(X, n) => Draft!RunColumn(T, op) = Draft!Failed
    BY <1>1, <1>3, <1>5, <1>6, Zenon
  <1>9. ~Draft!Has(X, n) => Draft!RunColumn(T, op) = X \cup {[y EXCEPT !.name = n]}
    BY <1>1, <1>3, <1>5, <1>6, <1>7, Zenon
  <1> QED BY <1>1, <1>8, <1>9, Zenon

LEMMA RunAlter ==
  ASSUME NEW X, NEW y \in Draft!Column, NEW c, X \subseteq Draft!Column,
         \A x \in X : x.name # c.name, y.name = c.name
  PROVE  Draft!RunColumn(X \cup {y}, Draft!Op("alter_column", Absent, c)) = X \cup {[y EXCEPT !.type = c.type]}
  <1>1. PICK T, op, n, t : /\ T = X \cup {y} /\ op = Draft!Op("alter_column", Absent, c)
                           /\ n = c.name /\ t = c.type
    OBVIOUS
  <1>2. T # Draft!Failed
    BY <1>1, NotFailed
  <1>3. op.kind = "alter_column" /\ op.column = c
    BY <1>1 DEF Draft!Op
  <1>4. /\ op.kind # "drop_column" /\ op.kind # "add_column" /\ op.kind # "rename_column"
        /\ op.kind \in {"alter_column", "set_column_comment"}
    BY <1>3
  <1>5. Draft!Has(T, n)
    BY <1>1 DEF Draft!Has
  <1>6. Draft!RunColumn(T, op) =
          IF ~Draft!Has(T, op.column.name) THEN Draft!Failed
          ELSE {IF x.name # op.column.name THEN x
                ELSE IF op.kind = "alter_column" THEN [x EXCEPT !.type = op.column.type]
                ELSE [x EXCEPT !.comment = op.column.comment] : x \in T}
    BY <1>2, <1>4, Zenon DEF Draft!RunColumn
  <1>7. {IF x.name # op.column.name THEN x
         ELSE IF op.kind = "alter_column" THEN [x EXCEPT !.type = op.column.type]
         ELSE [x EXCEPT !.comment = op.column.comment] : x \in T} = X \cup {[y EXCEPT !.type = t]}
    BY <1>1, <1>3
  <1> QED BY <1>1, <1>3, <1>5, <1>6, <1>7, Zenon

LEMMA RunComment ==
  ASSUME NEW X, NEW y \in Draft!Column, NEW c, X \subseteq Draft!Column,
         \A x \in X : x.name # c.name, y.name = c.name
  PROVE  Draft!RunColumn(X \cup {y}, Draft!Op("set_column_comment", Absent, c))
           = X \cup {[y EXCEPT !.comment = c.comment]}
  <1>1. PICK T, op, n, t : /\ T = X \cup {y} /\ op = Draft!Op("set_column_comment", Absent, c)
                           /\ n = c.name /\ t = c.comment
    OBVIOUS
  <1>2. T # Draft!Failed
    BY <1>1, NotFailed
  <1>3. op.kind = "set_column_comment" /\ op.column = c
    BY <1>1 DEF Draft!Op
  <1>4. /\ op.kind # "drop_column" /\ op.kind # "add_column" /\ op.kind # "rename_column"
        /\ op.kind \in {"alter_column", "set_column_comment"} /\ op.kind # "alter_column"
    BY <1>3
  <1>5. Draft!Has(T, n)
    BY <1>1 DEF Draft!Has
  <1>6. Draft!RunColumn(T, op) =
          IF ~Draft!Has(T, op.column.name) THEN Draft!Failed
          ELSE {IF x.name # op.column.name THEN x
                ELSE IF op.kind = "alter_column" THEN [x EXCEPT !.type = op.column.type]
                ELSE [x EXCEPT !.comment = op.column.comment] : x \in T}
    BY <1>2, <1>4, Zenon DEF Draft!RunColumn
  <1>7. {IF x.name # op.column.name THEN x
         ELSE IF op.kind = "alter_column" THEN [x EXCEPT !.type = op.column.type]
         ELSE [x EXCEPT !.comment = op.column.comment] : x \in T} = X \cup {[y EXCEPT !.comment = t]}
    BY <1>1, <1>3
  <1> QED BY <1>1, <1>3, <1>5, <1>6, <1>7, Zenon

\* A column of the draft before the primary key is set.
Made(c, key) == [name |-> c.name, type |-> c.type, comment |-> c.comment, primary |-> key]

\* The operations of a column that was loaded as y.
LEMMA ReplaceOne ==
  ASSUME NEW X, NEW y, Loaded(y), NEW c \in Draft!DraftColumn, X \subseteq Draft!Column,
         \A x \in X : x.name # y.name, c.orig = y.name
  PROVE  /\ c.name # y.name /\ Draft!Has(X, c.name) => Run(X \cup {y}, Draft!ColumnOps(c)) = Draft!Failed
         /\ c.name = y.name \/ ~Draft!Has(X, c.name) =>
              Run(X \cup {y}, Draft!ColumnOps(c)) = X \cup {Made(c, y.primary)}
  <1>1. y \in Draft!Column /\ c.orig # Absent /\ Draft!Original(c) = y
    BY LoadedIs, OriginalIs
  <1>2. /\ y.name \in Draft!ColumnName /\ y.type \in Types /\ y.comment \in Comments /\ y.primary \in BOOLEAN
        /\ c.name \in Draft!ColumnName /\ c.type \in Types /\ c.comment \in Comments
    BY <1>1 DEF Draft!Column, Draft!DraftColumn
  <1>3. PICK r, a, m : /\ r = Draft!Op("rename_column", y.name, c)
                       /\ a = Draft!Op("alter_column", Absent, c)
                       /\ m = Draft!Op("set_column_comment", Absent, c)
    OBVIOUS
  <1>4. PICK T3 : T3 = Run(X \cup {y}, Draft!ColumnOps(c))
    OBVIOUS
  <1>5. PICK T1, T2 :
          /\ IF c.orig # c.name THEN Altered(X \cup {y}, Draft!Op("rename_column", c.orig, c), T1) ELSE T1 = X \cup {y}
          /\ IF Draft!Original(c).type # c.type
             THEN Altered(T1, Draft!Op("alter_column", Absent, c), T2) ELSE T2 = T1
          /\ IF Draft!Original(c).comment # c.comment
             THEN Altered(T2, Draft!Op("set_column_comment", Absent, c), Run(X \cup {y}, Draft!ColumnOps(c)))
             ELSE Run(X \cup {y}, Draft!ColumnOps(c)) = T2
    BY <1>1, ColumnOpsRun, Zenon
  <1>6. /\ c.name # y.name => T1 = Draft!RunColumn(X \cup {y}, r)
        /\ c.name = y.name => T1 = X \cup {y}
    BY <1>3, <1>5, Zenon DEF Altered
  <1>7. /\ c.type # y.type => T2 = Draft!RunColumn(T1, a)
        /\ c.type = y.type => T2 = T1
    BY <1>1, <1>3, <1>5, Zenon DEF Altered
  <1>8. /\ c.comment # y.comment => T3 = Draft!RunColumn(T2, m)
        /\ c.comment = y.comment => T3 = T2
    BY <1>1, <1>3, <1>4, <1>5, Zenon DEF Altered
  <1>9. ASSUME c.name # y.name, Draft!Has(X, c.name) PROVE T3 = Draft!Failed
    <2>1. T1 = Draft!RunColumn(X \cup {y}, r)
      BY <1>6, <1>9
    <2>2. T1 = Draft!Failed
      <3>1. Draft!RunColumn(X \cup {y}, Draft!Op("rename_column", y.name, c)) = Draft!Failed
        <4>1. y \in Draft!Column
          BY <1>1
        <4>2. /\ Draft!Has(X, c.name) =>
                   Draft!RunColumn(X \cup {y}, Draft!Op("rename_column", y.name, c)) = Draft!Failed
              /\ ~Draft!Has(X, c.name) =>
                   Draft!RunColumn(X \cup {y}, Draft!Op("rename_column", y.name, c)) = X \cup {[y EXCEPT !.name = c.name]}
          BY <1>9, <4>1, RunRename
        <4> QED BY <1>9, <4>2, Zenon
      <3> QED BY <1>3, <2>1, <3>1, Zenon
    <2>3. \A op : Draft!RunColumn(Draft!Failed, op) = Draft!Failed
      BY Zenon DEF Draft!RunColumn
    <2>4. T2 = Draft!Failed
      BY <1>7, <2>2, <2>3, Zenon
    <2> QED BY <1>8, <2>3, <2>4, Zenon
  <1>10. ASSUME c.name = y.name \/ ~Draft!Has(X, c.name) PROVE T3 = X \cup {Made(c, y.primary)}
    <2>1. \A x \in X : x.name # c.name
      BY <1>10 DEF Draft!Has
    <2>2. PICK y1 : y1 = [name |-> c.name, type |-> y.type, comment |-> y.comment, primary |-> y.primary]
      OBVIOUS
    <2>3. PICK y2 : y2 = [name |-> c.name, type |-> c.type, comment |-> y.comment, primary |-> y.primary]
      OBVIOUS
    <2>4. PICK y3 : y3 = Made(c, y.primary)
      OBVIOUS
    <2>5. /\ y1 \in Draft!Column /\ y1.name = c.name /\ y1.type = y.type
          /\ y2 \in Draft!Column /\ y2.name = c.name /\ y2.comment = y.comment
      BY <1>2, <2>2, <2>3 DEF Draft!Column
    <2>6. /\ [y EXCEPT !.name = c.name] = y1 /\ (c.name = y.name => y = y1)
          /\ [y1 EXCEPT !.type = c.type] = y2 /\ (c.type = y.type => y1 = y2)
          /\ [y2 EXCEPT !.comment = c.comment] = y3 /\ (c.comment = y.comment => y2 = y3)
      BY <1>1, <2>2, <2>3, <2>4 DEF Made, Draft!Column
    <2>7. T1 = X \cup {y1}
      <3>1. CASE c.name = y.name
        BY <1>6, <2>6, <3>1
      <3>2. CASE c.name # y.name
        <4>1. ~Draft!Has(X, c.name)
          BY <1>10, <3>2
        <4>2. Draft!RunColumn(X \cup {y}, Draft!Op("rename_column", y.name, c)) = X \cup {[y EXCEPT !.name = c.name]}
          <5>1. y \in Draft!Column
            BY <1>1
          <5>2. /\ Draft!Has(X, c.name) =>
                     Draft!RunColumn(X \cup {y}, Draft!Op("rename_column", y.name, c)) = Draft!Failed
                /\ ~Draft!Has(X, c.name) =>
                     Draft!RunColumn(X \cup {y}, Draft!Op("rename_column", y.name, c)) = X \cup {[y EXCEPT !.name = c.name]}
            BY <3>2, <5>1, RunRename
          <5> QED BY <4>1, <5>2, Zenon
        <4> QED BY <1>3, <1>6, <2>6, <3>2, <4>2, Zenon
      <3> QED BY <3>1, <3>2
    <2>8. T2 = X \cup {y2}
      <3>1. CASE c.type = y.type
        BY <1>7, <2>6, <2>7, <3>1
      <3>2. CASE c.type # y.type
        <4>1. Draft!RunColumn(X \cup {y1}, Draft!Op("alter_column", Absent, c)) = X \cup {[y1 EXCEPT !.type = c.type]}
          BY ONLY <2>1, <2>5, X \subseteq Draft!Column, RunAlter
        <4> QED BY <1>3, <1>7, <2>6, <2>7, <3>2, <4>1, Zenon
      <3> QED BY <3>1, <3>2
    <2>9. T3 = X \cup {y3}
      <3>1. CASE c.comment = y.comment
        BY <1>8, <2>6, <2>8, <3>1
      <3>2. CASE c.comment # y.comment
        <4>1. Draft!RunColumn(X \cup {y2}, Draft!Op("set_column_comment", Absent, c))
                = X \cup {[y2 EXCEPT !.comment = c.comment]}
          BY ONLY <2>1, <2>5, X \subseteq Draft!Column, RunComment
        <4> QED BY <1>3, <1>8, <2>6, <2>8, <3>2, <4>1, Zenon
      <3> QED BY <3>1, <3>2
    <2> QED BY <2>4, <2>9
  <1> QED BY <1>4, <1>9, <1>10, Zenon

\* A new column.
LEMMA AddOne ==
  ASSUME NEW T, T \subseteq Draft!Column, NEW c, c.orig = Absent
  PROVE  /\ Draft!Has(T, c.name) => Run(T, Draft!ColumnOps(c)) = Draft!Failed
         /\ ~Draft!Has(T, c.name) => Run(T, Draft!ColumnOps(c)) = T \cup {Made(c, FALSE)}
  <1>1. PICK op : op = Draft!Op("add_column", Absent, c)
    OBVIOUS
  <1>2. Run(T, Draft!ColumnOps(c)) = Draft!RunColumn(T, op)
    BY <1>1, ColumnOpsRun, Zenon
  <1>3. op.kind = "add_column" /\ op.column = c /\ op.kind # "drop_column"
    BY <1>1 DEF Draft!Op
  <1>4. T # Draft!Failed
    BY NotFailed
  <1>5. Draft!RunColumn(T, op) = IF Draft!Has(T, c.name) THEN Draft!Failed ELSE T \cup {Made(c, FALSE)}
    BY <1>3, <1>4, Zenon DEF Draft!RunColumn, Made
  <1> QED BY <1>2, <1>5, Zenon

-----------------------------------------------------------------------------
(* The table after the operations of the first n columns of a draft.       *)

KeyOf(c) == IF c.orig = Absent THEN FALSE ELSE Draft!Original(c).primary
MadeOf(c) == Made(c, KeyOf(c))

\* A loaded column that is not dropped, and one that has not been reached yet.
Stays(cs, b) == \E j \in 1..Len(cs) : cs[j].orig = b.name \/ (cs[j].orig = Absent /\ cs[j].name = b.name)
Left(cs, n, b) == Loaded(b) /\ Stays(cs, b) /\ \A j \in 1..n : cs[j].orig # b.name

Stage(cs, T, n) ==
  /\ \A x : x \in T <=> (\E j \in 1..n : x = MadeOf(cs[j])) \/ Left(cs, n, x)
  /\ \A j, k \in 1..n : cs[j].name = cs[k].name => j = k
  /\ \A j \in 1..n : \A b : Left(cs, n, b) => cs[j].name # b.name

\* The names do not cross.
Free(cs) ==
  /\ \A i, j \in 1..Len(cs) : cs[i].name = cs[j].name => i = j
  /\ \A i \in 1..Len(cs) : \A b : Loaded(b) /\ cs[i].name = b.name => cs[i].orig = b.name

LEMMA MadeIs ==
  ASSUME NEW cs, ColumnsWell(cs), NEW i \in 1..Len(cs)
  PROVE  MadeOf(cs[i]) \in Draft!Column /\ MadeOf(cs[i]).name = cs[i].name
  <1>1. PICK c : c = cs[i]
    OBVIOUS
  <1>2. c \in Draft!DraftColumn /\ (c.orig # Absent => \E b : Loaded(b) /\ b.name = c.orig)
    BY <1>1 DEF ColumnsWell
  <1>3. KeyOf(c) \in BOOLEAN
    <2>1. CASE c.orig = Absent
      BY <2>1 DEF KeyOf
    <2>2. CASE c.orig # Absent
      <3>1. PICK b : Loaded(b) /\ b.name = c.orig
        BY <1>2, <2>2
      <3>2. KeyOf(c) = b.primary
        BY <2>2, <3>1, OriginalIs, Zenon DEF KeyOf
      <3>3. b \in Draft!Column
        BY <3>1, LoadedIs
      <3> QED BY <3>2, <3>3 DEF Draft!Column
    <2> QED BY <2>1, <2>2
  <1>4. PICK q \in BOOLEAN : q = KeyOf(c)
    BY <1>3
  <1>5. Made(c, q) \in Draft!Column /\ Made(c, q).name = c.name
    BY <1>2 DEF Made, Draft!Column, Draft!DraftColumn
  <1> QED BY <1>1, <1>4, <1>5, Zenon DEF MadeOf

LEMMA StageIsTable ==
  ASSUME NEW cs, ColumnsWell(cs), NEW n \in 0..Len(cs), NEW T, Stage(cs, T, n)
  PROVE  /\ T \subseteq Draft!Column /\ T # Draft!Failed
         /\ \A x \in T : (\E j \in 1..n : x = MadeOf(cs[j]) /\ x.name = cs[j].name) \/ Left(cs, n, x)
         /\ \A j \in 1..n : MadeOf(cs[j]) \in T /\ MadeOf(cs[j]).name = cs[j].name
         /\ \A b : Left(cs, n, b) => b \in T
  <1>1. PICK m \in Nat : m = Len(cs)
    BY DEF ColumnsWell, IsSequence
  <1>2. \A j \in 1..n : j \in 1..m
    BY <1>1
  <1>3. \A j \in 1..n : MadeOf(cs[j]) \in Draft!Column /\ MadeOf(cs[j]).name = cs[j].name
    BY <1>1, <1>2, MadeIs
  <1>4. \A b : Left(cs, n, b) => b \in Draft!Column
    BY LoadedIs, Zenon DEF Left
  <1>5. \A x : x \in T <=> (\E j \in 1..n : x = MadeOf(cs[j])) \/ Left(cs, n, x)
    BY Zenon DEF Stage
  <1>6. T \subseteq Draft!Column
    BY <1>3, <1>4, <1>5
  <1>7. T # Draft!Failed
    BY <1>6, NotFailed
  <1>8. \A x \in T : (\E j \in 1..n : x = MadeOf(cs[j]) /\ x.name = cs[j].name) \/ Left(cs, n, x)
    BY <1>3, <1>5, Zenon
  <1>9. \A j \in 1..n : MadeOf(cs[j]) \in T
    BY <1>5, Zenon
  <1> QED BY <1>3, <1>5, <1>6, <1>7, <1>8, <1>9

LEMMA StageAdds ==
  ASSUME NEW cs, ColumnsWell(cs), NEW n \in 0..Len(cs), n < Len(cs), NEW T, Stage(cs, T, n),
         cs[n + 1].orig = Absent
  PROVE  /\ Run(T, Draft!ColumnOps(cs[n + 1])) = Draft!Failed \/ Stage(cs, Run(T, Draft!ColumnOps(cs[n + 1])), n + 1)
         /\ Free(cs) => Stage(cs, Run(T, Draft!ColumnOps(cs[n + 1])), n + 1)
  <1>1. PICK m \in Nat : m = Len(cs)
    BY DEF ColumnsWell, IsSequence
  <1>2. PICK k, c, R : k = n + 1 /\ c = cs[k] /\ R = Run(T, Draft!ColumnOps(c))
    OBVIOUS
  <1>3. /\ k \in 1..m /\ k \in 1..k /\ (\A j \in 1..n : j \in 1..m /\ j \in 1..k /\ j # k)
        /\ \A j \in 1..k : j \in 1..n \/ j = k
    BY <1>1, <1>2
  <1>4. c.orig = Absent
    BY <1>2
  <1>5. /\ T \subseteq Draft!Column
        /\ \A x \in T : (\E j \in 1..n : x = MadeOf(cs[j]) /\ x.name = cs[j].name) \/ Left(cs, n, x)
        /\ \A j \in 1..n : MadeOf(cs[j]) \in T /\ MadeOf(cs[j]).name = cs[j].name
        /\ \A b : Left(cs, n, b) => b \in T
    BY StageIsTable, Zenon
  <1>6. /\ Draft!Has(T, c.name) => R = Draft!Failed
        /\ ~Draft!Has(T, c.name) => R = T \cup {Made(c, FALSE)}
    BY <1>2, <1>4, <1>5, AddOne, Zenon
  <1>7. MadeOf(c) = Made(c, FALSE)
    BY <1>4, Zenon DEF MadeOf, KeyOf
  <1>8. \A b : Left(cs, k, b) <=> Left(cs, n, b)
    <2>1. \A b : Loaded(b) => b.name # Absent
      BY LoadedIs
    <2> QED BY <1>2, <1>3, <1>4, <2>1, Zenon DEF Left
  <1>9. ASSUME ~Draft!Has(T, c.name) PROVE Stage(cs, R, k)
    <2>1. \A x : x \in R <=> x \in T \/ x = MadeOf(c)
      BY <1>6, <1>7, <1>9
    <2>2. \A x \in T : x.name # c.name
      BY <1>9 DEF Draft!Has
    <2>3. \A x : x \in T <=> (\E j \in 1..n : x = MadeOf(cs[j])) \/ Left(cs, n, x)
      BY Zenon DEF Stage
    <2>4. \A x : x \in R <=> (\E j \in 1..k : x = MadeOf(cs[j])) \/ Left(cs, k, x)
      BY <1>2, <1>3, <1>8, <2>1, <2>3, Zenon
    <2>5. \A j \in 1..n : cs[j].name # c.name
      BY <1>5, <2>2, Zenon
    <2>6. ASSUME NEW i \in 1..k, NEW j \in 1..k, cs[i].name = cs[j].name PROVE i = j
      <3>1. CASE i \in 1..n /\ j \in 1..n
        BY <2>6, <3>1, Zenon DEF Stage
      <3>2. CASE i = k \/ j = k
        BY <1>2, <1>3, <2>5, <2>6, <3>2, Zenon
      <3> QED BY <1>3, <3>1, <3>2
    <2>7. ASSUME NEW j \in 1..k, NEW b, Left(cs, k, b) PROVE cs[j].name # b.name
      <3>1. Left(cs, n, b) /\ b \in T
        BY <1>5, <1>8, <2>7
      <3>2. CASE j \in 1..n
        BY <3>1, <3>2, Zenon DEF Stage
      <3>3. CASE j = k
        BY <1>2, <2>2, <3>1, <3>3
      <3> QED BY <1>3, <3>2, <3>3
    <2> QED BY <2>4, <2>6, <2>7, Zenon DEF Stage
  <1>10. ASSUME Free(cs) PROVE ~Draft!Has(T, c.name)
    <2> SUFFICES ASSUME NEW x \in T, x.name = c.name PROVE FALSE
      BY DEF Draft!Has
    <2>1. CASE \E j \in 1..n : x = MadeOf(cs[j]) /\ x.name = cs[j].name
      <3>1. PICK j \in 1..n : x.name = cs[j].name
        BY <2>1
      <3>2. cs[j].name = cs[k].name
        BY <1>2, <3>1
      <3>3. j = k
        BY <1>1, <1>3, <1>10, <3>2, Zenon DEF Free
      <3> QED BY <1>3, <3>3
    <2>2. CASE Left(cs, n, x)
      <3>1. Loaded(x) /\ x.name # Absent
        BY <2>2, LoadedIs DEF Left
      <3>2. cs[k].name = x.name
        BY <1>2
      <3>3. cs[k].orig = x.name
        BY <1>1, <1>3, <1>10, <3>1, <3>2, Zenon DEF Free
      <3> QED BY <1>2, <1>4, <3>1, <3>3
    <2> QED BY <1>5, <2>1, <2>2
  <1>11. R = Draft!Failed \/ Stage(cs, R, k)
    BY <1>6, <1>9
  <1>12. Free(cs) => Stage(cs, R, k)
    BY <1>9, <1>10
  <1> QED BY <1>2, <1>11, <1>12, Zenon

LEMMA StageReplaces ==
  ASSUME NEW cs, ColumnsWell(cs), NEW n \in 0..Len(cs), n < Len(cs), NEW T, Stage(cs, T, n),
         cs[n + 1].orig # Absent
  PROVE  /\ Run(T, Draft!ColumnOps(cs[n + 1])) = Draft!Failed \/ Stage(cs, Run(T, Draft!ColumnOps(cs[n + 1])), n + 1)
         /\ Free(cs) => Stage(cs, Run(T, Draft!ColumnOps(cs[n + 1])), n + 1)
  <1>1. PICK m \in Nat : m = Len(cs)
    BY DEF ColumnsWell, IsSequence
  <1>2. PICK k, c, R : k = n + 1 /\ c = cs[k] /\ R = Run(T, Draft!ColumnOps(c))
    OBVIOUS
  <1>3. /\ k \in 1..m /\ k \in 1..k /\ (\A j \in 1..n : j \in 1..m /\ j \in 1..k /\ j # k)
        /\ \A j \in 1..k : j \in 1..n \/ j = k
    BY <1>1, <1>2
  <1>4. c.orig # Absent /\ c \in Draft!DraftColumn
    BY <1>1, <1>2, <1>3 DEF ColumnsWell
  <1>5. /\ T \subseteq Draft!Column
        /\ \A x \in T : (\E j \in 1..n : x = MadeOf(cs[j]) /\ x.name = cs[j].name) \/ Left(cs, n, x)
        /\ \A j \in 1..n : MadeOf(cs[j]) \in T /\ MadeOf(cs[j]).name = cs[j].name
        /\ \A b : Left(cs, n, b) => b \in T
    BY StageIsTable, Zenon
  <1>6. PICK y : Loaded(y) /\ y.name = c.orig
    BY <1>1, <1>2, <1>3, <1>4, Zenon DEF ColumnsWell
  <1>7. Left(cs, n, y)
    <2>1. Stays(cs, y)
      BY <1>1, <1>2, <1>3, <1>6, Zenon DEF Stays
    <2>2. ASSUME NEW j \in 1..n, cs[j].orig = y.name PROVE FALSE
      <3>1. cs[j].orig = cs[k].orig /\ cs[j].orig # Absent /\ j \in 1..Len(cs) /\ k \in 1..Len(cs)
        BY <1>1, <1>2, <1>3, <1>4, <1>6, <2>2
      <3>2. j = k
        BY <3>1, Zenon DEF ColumnsWell
      <3> QED BY <1>3, <3>2
    <2> QED BY <1>6, <2>1, <2>2, Zenon DEF Left
  <1>8. \A j \in 1..n : cs[j].name # y.name
    BY <1>7, Zenon DEF Stage
  <1>9. \A b : Loaded(b) /\ b.name = y.name => b = y
    BY <1>6, LoadedIs
  <1>10. PICK X : X = T \ {y}
    OBVIOUS
  <1>11. T = X \cup {y} /\ X \subseteq Draft!Column /\ X \subseteq T
    BY <1>5, <1>7, <1>10
  <1>12. \A x \in X : x.name # y.name
    <2> SUFFICES ASSUME NEW x \in X, x.name = y.name PROVE FALSE
      OBVIOUS
    <2>1. x \in T /\ x # y
      BY <1>10
    <2>2. CASE \E j \in 1..n : x = MadeOf(cs[j]) /\ x.name = cs[j].name
      BY <1>8, <2>2
    <2>3. CASE Left(cs, n, x)
      BY <1>9, <2>1, <2>3 DEF Left
    <2> QED BY <1>5, <2>1, <2>2, <2>3
  <1>13. MadeOf(c) = Made(c, y.primary)
    BY <1>4, <1>6, OriginalIs, Zenon DEF MadeOf, KeyOf
  <1>14. /\ c.name # y.name /\ Draft!Has(X, c.name) => R = Draft!Failed
         /\ c.name = y.name \/ ~Draft!Has(X, c.name) => R = X \cup {MadeOf(c)}
    <2>1. /\ c.name # y.name /\ Draft!Has(X, c.name) => Run(X \cup {y}, Draft!ColumnOps(c)) = Draft!Failed
          /\ c.name = y.name \/ ~Draft!Has(X, c.name) =>
               Run(X \cup {y}, Draft!ColumnOps(c)) = X \cup {Made(c, y.primary)}
      BY <1>4, <1>6, <1>11, <1>12, ReplaceOne
    <2> QED BY <1>2, <1>11, <1>13, <2>1, Zenon
  <1>15. ASSUME NEW b PROVE Left(cs, k, b) <=> Left(cs, n, b) /\ b # y
    <2>1. Loaded(b) => (cs[k].orig = b.name <=> b = y)
      BY <1>2, <1>6, <1>9
    <2>2. Left(cs, k, b) <=> Left(cs, n, b) /\ cs[k].orig # b.name
      BY <1>3, Zenon DEF Left
    <2>3. Left(cs, n, b) => Loaded(b)
      BY DEF Left
    <2> QED BY <2>1, <2>2, <2>3
  <1>16. ASSUME c.name = y.name \/ ~Draft!Has(X, c.name) PROVE Stage(cs, R, k)
    <2>1. \A x : x \in R <=> (x \in T /\ x # y) \/ x = MadeOf(c)
      BY <1>10, <1>14, <1>16
    <2>2. \A x \in X : x.name # c.name
      BY <1>12, <1>16 DEF Draft!Has
    <2>3. \A x : x \in T <=> (\E j \in 1..n : x = MadeOf(cs[j])) \/ Left(cs, n, x)
      BY Zenon DEF Stage
    <2>4. \A j \in 1..n : MadeOf(cs[j]) # y /\ MadeOf(cs[j]) \in X
      BY <1>5, <1>8, <1>10
    <2>5. \A x : x \in R <=> (\E j \in 1..k : x = MadeOf(cs[j])) \/ Left(cs, k, x)
      BY <1>2, <1>3, <1>15, <2>1, <2>3, <2>4, Zenon
    <2>6. \A j \in 1..n : cs[j].name # c.name
      BY <1>5, <2>2, <2>4
    <2>7. ASSUME NEW i \in 1..k, NEW j \in 1..k, cs[i].name = cs[j].name PROVE i = j
      <3>1. CASE i \in 1..n /\ j \in 1..n
        BY <2>7, <3>1, Zenon DEF Stage
      <3>2. CASE i = k \/ j = k
        BY <1>2, <1>3, <2>6, <2>7, <3>2, Zenon
      <3> QED BY <1>3, <3>1, <3>2
    <2>8. ASSUME NEW j \in 1..k, NEW b, Left(cs, k, b) PROVE cs[j].name # b.name
      <3>1. Left(cs, n, b) /\ b \in X
        BY <1>5, <1>10, <1>15, <2>8
      <3>2. CASE j \in 1..n
        BY <3>1, <3>2, Zenon DEF Stage
      <3>3. CASE j = k
        BY <1>2, <2>2, <3>1, <3>3
      <3> QED BY <1>3, <3>2, <3>3
    <2> QED BY <2>5, <2>7, <2>8, Zenon DEF Stage
  <1>17. ASSUME Free(cs), c.name # y.name PROVE ~Draft!Has(X, c.name)
    <2> SUFFICES ASSUME NEW x \in X, x.name = c.name PROVE FALSE
      BY DEF Draft!Has
    <2>1. x \in T
      BY <1>11
    <2>2. CASE \E j \in 1..n : x = MadeOf(cs[j]) /\ x.name = cs[j].name
      <3>1. PICK j \in 1..n : x.name = cs[j].name
        BY <2>2
      <3>2. cs[j].name = cs[k].name
        BY <1>2, <3>1
      <3>3. j = k
        BY <1>1, <1>3, <1>17, <3>2, Zenon DEF Free
      <3> QED BY <1>3, <3>3
    <2>3. CASE Left(cs, n, x)
      <3>1. Loaded(x)
        BY <2>3 DEF Left
      <3>2. cs[k].name = x.name
        BY <1>2
      <3>3. cs[k].orig = x.name
        BY <1>1, <1>3, <1>17, <3>1, <3>2, Zenon DEF Free
      <3> QED BY <1>2, <1>6, <1>12, <3>3
    <2> QED BY <1>5, <2>1, <2>2, <2>3
  <1>18. R = Draft!Failed \/ Stage(cs, R, k)
    BY <1>14, <1>16
  <1>19. Free(cs) => Stage(cs, R, k)
    BY <1>16, <1>17
  <1> QED BY <1>2, <1>18, <1>19, Zenon

-----------------------------------------------------------------------------
(* All operations of a draft.                                              *)

AsBefore == {Draft!Before[i] : i \in DOMAIN Draft!Before}
Staying(cs) == {b \in AsBefore : Stays(cs, b)}
Gone(cs) == Only(Draft!Before, {b \in DOMAIN Draft!Before : \A i \in DOMAIN cs :
                                  /\ cs[i].orig # Draft!Before[b].name
                                  /\ cs[i].orig = Absent => cs[i].name # Draft!Before[b].name})
DropsOf(cs) == [i \in 1..Len(Gone(cs)) |-> Draft!Op("drop_column", Gone(cs)[i].name, Absent)]

\* c is the column b, or has taken its name.
Kin(c, b) == c.orig = b.name \/ (c.orig = Absent /\ c.name = b.name)

LEMMA AsBeforeIs == \A b : b \in AsBefore <=> Loaded(b)
  BY BeforeIs, Zenon DEF AsBefore, Loaded

\* The columns that are gone, in the order of the table.
LEMMA GoneIs ==
  ASSUME NEW cs, IsSequence(cs)
  PROVE  /\ IsSequence(Gone(cs)) /\ Len(Gone(cs)) \in Nat
         /\ \A i \in 1..Len(Gone(cs)) : Loaded(Gone(cs)[i]) /\ ~Stays(cs, Gone(cs)[i])
         /\ \A i, j \in 1..Len(Gone(cs)) : Gone(cs)[i].name = Gone(cs)[j].name => i = j
         /\ \A b : Loaded(b) /\ ~Stays(cs, b) => \E i \in 1..Len(Gone(cs)) : Gone(cs)[i] = b
  <1>1. PICK B, N : B = Draft!Before /\ N = N0
    OBVIOUS
  <1>2. /\ N \in Nat /\ DOMAIN B = 1..N /\ \A i, j \in 1..N : B[i].name = B[j].name => i = j
    BY <1>1, BeforeIs, Zenon
  <1>3. PICK m \in Nat : m = Len(cs) /\ DOMAIN cs = 1..m
    BY DEF IsSequence
  <1>4. PICK S : S = {b \in 1..N : ~Stays(cs, B[b])}
    OBVIOUS
  <1>5. Gone(cs) = Only(B, S)
    <2>1. \A b : Stays(cs, b) <=> \E i \in DOMAIN cs : Kin(cs[i], b)
      BY <1>3 DEF Stays, Kin
    <2>2. PICK S2 : S2 = {b \in DOMAIN Draft!Before : \A i \in DOMAIN cs :
                            /\ cs[i].orig # Draft!Before[b].name
                            /\ cs[i].orig = Absent => cs[i].name # Draft!Before[b].name}
      OBVIOUS
    <2>3. ASSUME NEW b PROVE b \in S2 <=> b \in DOMAIN Draft!Before /\ ~Stays(cs, Draft!Before[b])
      <3>1. b \in S2 <=> b \in DOMAIN Draft!Before /\ \A i \in DOMAIN cs :
                            /\ cs[i].orig # Draft!Before[b].name
                            /\ cs[i].orig = Absent => cs[i].name # Draft!Before[b].name
        BY <2>2
      <3>2. \A i : (/\ cs[i].orig # Draft!Before[b].name
                    /\ cs[i].orig = Absent => cs[i].name # Draft!Before[b].name) <=> ~Kin(cs[i], Draft!Before[b])
        BY DEF Kin
      <3> QED BY <2>1, <3>1, <3>2, Zenon
    <2>4. \A b : b \in S <=> b \in 1..N /\ ~Stays(cs, B[b])
      BY <1>4, Zenon
    <2>5. S = S2
      <3>1. \A b : b \in S <=> b \in S2
        BY <1>1, <1>2, <2>3, <2>4, Zenon
      <3> QED BY <3>1
    <2>6. Gone(cs) = Only(Draft!Before, S2)
      BY <2>2, Zenon DEF Gone
    <2> QED BY <1>1, <2>5, <2>6, Zenon
  <1>6. S \subseteq 1..N
    BY <1>4
  <1>7. PICK c, g : c \in Nat /\ Picks(Gone(cs), B, S, c, g)
    <2>1. N \in Nat /\ S \subseteq 1..N
      BY <1>2, <1>6
    <2>2. \E c \in Nat : \E g : Picks(Only(B, S), B, S, c, g)
      BY <2>1, OnlyPicks
    <2> QED BY <1>5, <2>2, Zenon
  <1>8. PICK r : r = Gone(cs)
    OBVIOUS
  <1>9. /\ g \in [1..c -> S] /\ IsSequence(r) /\ Len(r) = c
        /\ \A i \in 1..c : r[i] = B[g[i]]
        /\ \A i, j \in 1..c : i < j => g[i] < g[j]
        /\ \A x \in S : \E i \in 1..c : g[i] = x
    BY <1>7, <1>8, Zenon DEF Picks
  <1>10. \A i \in 1..c : g[i] \in S /\ g[i] \in 1..N /\ ~Stays(cs, B[g[i]])
    BY <1>4, <1>9
  <1>11. \A i \in 1..c : Loaded(r[i]) /\ ~Stays(cs, r[i])
    BY <1>1, <1>9, <1>10, Zenon DEF Loaded
  <1>12. ASSUME NEW i \in 1..c, NEW j \in 1..c, r[i].name = r[j].name PROVE i = j
    <2>1. g[i] = g[j]
      <3>1. B[g[i]].name = B[g[j]].name
        BY <1>9, <1>12
      <3> QED BY <1>2, <1>10, <3>1, Zenon
    <2>2. g[i] \in Nat /\ g[j] \in Nat
      BY <1>10
    <2>3. ~(i < j) /\ ~(j < i)
      BY <1>9, <2>1, <2>2
    <2> QED BY <2>3
  <1>13. ASSUME NEW b, Loaded(b), ~Stays(cs, b) PROVE \E i \in 1..c : r[i] = b
    <2>1. PICK k \in 1..N : b = B[k]
      BY <1>1, <1>13, Zenon DEF Loaded
    <2>2. k \in S
      BY <1>4, <1>13, <2>1, Zenon
    <2>3. PICK i \in 1..c : g[i] = k
      BY <1>9, <2>2
    <2> QED BY <1>9, <2>1, <2>3, Zenon
  <1>14. c = Len(r) /\ c \in Nat /\ IsSequence(r)
    BY <1>9
  <1>15. /\ \A i \in 1..Len(r) : Loaded(r[i]) /\ ~Stays(cs, r[i])
         /\ \A i, j \in 1..Len(r) : r[i].name = r[j].name => i = j
         /\ \A b : Loaded(b) /\ ~Stays(cs, b) => \E i \in 1..Len(r) : r[i] = b
    BY <1>11, <1>12, <1>13, <1>14
  <1> QED BY <1>8, <1>14, <1>15, Zenon

\* What is left when the columns that are gone have been dropped.
LEMMA DropsRun ==
  ASSUME NEW cs, IsSequence(cs)
  PROVE  IsSequence(DropsOf(cs)) /\ Run(AsBefore, DropsOf(cs)) = Staying(cs)
  <1>1. PICK r : r = Gone(cs)
    OBVIOUS
  <1>2. PICK c \in Nat : c = Len(r)
    BY <1>1, GoneIs
  <1>3. /\ \A i \in 1..c : Loaded(r[i]) /\ ~Stays(cs, r[i])
        /\ \A i, j \in 1..c : r[i].name = r[j].name => i = j
        /\ \A b : Loaded(b) /\ ~Stays(cs, b) => \E i \in 1..c : r[i] = b
    BY <1>1, <1>2, GoneIs, Zenon
  <1>4. PICK D : D = [i \in 1..c |-> Draft!Op("drop_column", r[i].name, Absent)]
    OBVIOUS
  <1>5. D = DropsOf(cs)
    BY <1>1, <1>2, <1>4, Zenon DEF DropsOf
  <1>6. \A i \in 1..c : D[i].kind = "drop_column" /\ D[i].name = r[i].name
    BY <1>4 DEF Draft!Op
  <1>7. IsSequence(D) /\ Len(D) = c
    <2>1. PICK V : V = {D[i] : i \in 1..c}
      OBVIOUS
    <2>2. D \in [1..c -> V]
      BY <1>4, <2>1
    <2>3. D \in Seq(V) /\ Len(D) = c
      BY <2>2
    <2> QED BY <2>3 DEF IsSequence
  <1>8. PICK f : Trace(f, "columns", AsBefore, D, c) /\ Run(AsBefore, D) = f[c]
    BY <1>7, RunTrace
  <1>9. f[0] = AsBefore /\ \A n \in 0..c : n < c => f[n + 1] = Step("columns", f[n], D[n + 1])
    BY <1>8, TraceGoes
  <1> DEFINE A(n) == {b \in AsBefore : \A i \in 1..n : b.name # r[i].name}
             S == {n \in 0..c : f[n] = A(n)}
  <1>10. 0 \in S
    <2>1. 1..0 = {}
      OBVIOUS
    <2>2. A(0) = AsBefore
      BY <2>1
    <2> QED BY <1>9, <2>2
  <1>11. ASSUME NEW n \in 0..c, n < c, n \in S PROVE n + 1 \in S
    <2>1. PICK k, op, T : k = n + 1 /\ op = D[k] /\ T = A(n)
      OBVIOUS
    <2>2. k \in 1..c /\ k \in 0..c /\ (\A i \in 1..n : i \in 1..c /\ i # k) /\ k \in 1..k
          /\ (\A i \in 1..n : i \in 1..k) /\ \A i \in 1..k : i \in 1..n \/ i = k
      BY <1>11, <2>1
    <2>3. op.kind = "drop_column" /\ op.name = r[k].name
      BY <1>6, <2>1, <2>2
    <2>4. \A x : x \in T <=> x \in AsBefore /\ \A i \in 1..n : x.name # r[i].name
      BY <2>1
    <2>5. T \subseteq Draft!Column
      <3>1. \A b \in AsBefore : b \in Draft!Column
        BY AsBeforeIs, LoadedIs
      <3> QED BY <2>4, <3>1
    <2>6. T # Draft!Failed
      BY <2>5, NotFailed
    <2>7. r[k] \in T
      <3>1. r[k] \in AsBefore
        BY <1>3, <2>2, AsBeforeIs
      <3>2. \A i \in 1..n : r[k].name # r[i].name
        BY <1>3, <2>2, Zenon
      <3> QED BY <2>4, <3>1, <3>2
    <2>8. Draft!Has(T, op.name)
      BY <2>3, <2>7 DEF Draft!Has
    <2>9. Draft!RunColumn(T, op) = {x \in T : x.name # op.name}
      BY <2>3, <2>6, <2>8, Zenon DEF Draft!RunColumn
    <2>10. f[k] = {x \in T : x.name # op.name}
      <3>1. f[n + 1] = Step("columns", f[n], D[n + 1]) /\ f[n] = A(n)
        BY <1>9, <1>11
      <3> HIDE DEF A
      <3>2. f[k] = Step("columns", T, op)
        BY <2>1, <3>1, Zenon
      <3> QED BY <2>9, <3>2, Zenon DEF Step
    <2>11. {x \in T : x.name # op.name} = A(k)
      <3>1. \A x : x \in A(k) <=> x \in AsBefore /\ \A i \in 1..k : x.name # r[i].name
        OBVIOUS
      <3>2. \A x : x \in A(k) <=> x \in T /\ x.name # op.name
        BY <2>2, <2>3, <2>4, <3>1, Zenon
      <3> HIDE DEF A
      <3> QED BY <3>2
    <2> QED BY <2>1, <2>2, <2>10, <2>11
  <1>12. \A n \in 0..c : n \in S
    <2> HIDE DEF S
    <2> QED BY <1>10, <1>11, CountUp
  <1>13. f[c] = A(c)
    <2>1. c \in 0..c
      OBVIOUS
    <2> QED BY <1>12, <2>1
  <1>14. A(c) = Staying(cs)
    <2>1. ASSUME NEW b \in AsBefore PROVE (\A i \in 1..c : b.name # r[i].name) <=> Stays(cs, b)
      <3>1. Loaded(b)
        BY AsBeforeIs
      <3>2. ASSUME Stays(cs, b), NEW i \in 1..c, b.name = r[i].name PROVE FALSE
        <4>1. b = r[i]
          BY <1>3, <3>1, <3>2, LoadedIs
        <4> QED BY <1>3, <3>2, <4>1
      <3>3. ASSUME ~Stays(cs, b) PROVE \E i \in 1..c : b.name = r[i].name
        BY <1>3, <3>1, <3>3, Zenon
      <3> QED BY <3>2, <3>3
    <2> QED BY <2>1 DEF Staying
  <1> QED BY <1>5, <1>7, <1>8, <1>13, <1>14, Zenon

LEMMA StageStarts ==
  ASSUME NEW cs
  PROVE  Stage(cs, Staying(cs), 0)
  <1>1. 1..0 = {}
    OBVIOUS
  <1>2. \A x : Left(cs, 0, x) <=> Loaded(x) /\ Stays(cs, x)
    BY <1>1, Zenon DEF Left
  <1>3. \A x : x \in Staying(cs) <=> Loaded(x) /\ Stays(cs, x)
    BY AsBeforeIs DEF Staying
  <1> QED BY <1>1, <1>2, <1>3, Zenon DEF Stage

\* The operations of all columns.
LEMMA GatherRuns ==
  ASSUME NEW cs, ColumnsWell(cs)
  PROVE  /\ IsSequence(Gather(cs))
         /\ \/ Run(Staying(cs), Gather(cs)) = Draft!Failed
            \/ Stage(cs, Run(Staying(cs), Gather(cs)), Len(cs))
         /\ Free(cs) => Stage(cs, Run(Staying(cs), Gather(cs)), Len(cs))
  <1>1. PICK m \in Nat : m = Len(cs)
    BY DEF ColumnsWell, IsSequence
  <1>2. PICK f : Trace(f, "gather", <<>>, cs, m) /\ Gather(cs) = f[m]
    BY <1>1, GatherTrace
  <1>3. f[0] = <<>> /\ \A n \in 0..m : n < m => f[n + 1] = Step("gather", f[n], cs[n + 1])
    BY <1>2, TraceGoes
  <1>4. PICK T : T = Staying(cs)
    OBVIOUS
  <1> DEFINE G(n) == /\ IsSequence(f[n])
                     /\ Run(T, f[n]) = Draft!Failed \/ Stage(cs, Run(T, f[n]), n)
                     /\ Free(cs) => Stage(cs, Run(T, f[n]), n)
             S == {n \in 0..m : G(n)}
  <1>5. 0 \in S
    <2>1. IsSequence(<<>>)
      <3>1. <<>> \in Seq({})
        OBVIOUS
      <3> QED BY <3>1 DEF IsSequence
    <2>2. Run(T, f[0]) = T /\ Stage(cs, T, 0)
      BY <1>3, <1>4, RunNone, StageStarts, Zenon
    <2>3. G(0)
      BY <1>3, <2>1, <2>2, Zenon
    <2>4. 0 \in 0..m
      OBVIOUS
    <2> HIDE DEF G
    <2> QED BY <2>3, <2>4
  <1>6. ASSUME NEW n \in 0..m, n < m, n \in S PROVE n + 1 \in S
    <2>1. PICK k, c, s : k = n + 1 /\ c = cs[k] /\ s = f[n]
      OBVIOUS
    <2>2. k \in 0..m
      BY <1>6, <2>1
    <2>3. IsSequence(s) /\ (Run(T, s) = Draft!Failed \/ Stage(cs, Run(T, s), n)) /\ (Free(cs) => Stage(cs, Run(T, s), n))
      BY <1>6, <2>1
    <2>4. f[k] = s \o Draft!ColumnOps(c)
      <3>1. f[n + 1] = Step("gather", f[n], cs[n + 1])
        BY <1>3, <1>6
      <3>2. "gather" # "columns" /\ "gather" # "indexes" /\ "gather" # "list"
        OBVIOUS
      <3>3. f[k] = Step("gather", s, c)
        BY <2>1, <3>1, Zenon
      <3> QED BY <3>2, <3>3, Zenon DEF Step
    <2>5. IsSequence(Draft!ColumnOps(c))
      BY ColumnOpsRun
    <2>6. IsSequence(f[k]) /\ Run(T, f[k]) = Run(Run(T, s), Draft!ColumnOps(c))
      <3>1. IsSequence(s \o Draft!ColumnOps(c))
        BY <2>3, <2>5, JoinIsSequence
      <3>2. Run(T, s \o Draft!ColumnOps(c)) = Run(Run(T, s), Draft!ColumnOps(c))
        BY <2>3, <2>5, RunJoin
      <3> QED BY <2>4, <3>1, <3>2, Zenon
    <2>7. Run(T, s) = Draft!Failed => Run(T, f[k]) = Draft!Failed
      BY <2>5, <2>6, RunFailed, Zenon
    <2>8. ASSUME Stage(cs, Run(T, s), n)
          PROVE  /\ Run(T, f[k]) = Draft!Failed \/ Stage(cs, Run(T, f[k]), k)
                 /\ Free(cs) => Stage(cs, Run(T, f[k]), k)
      <3>1. PICK R : R = Run(T, s)
        OBVIOUS
      <3>2. n \in 0..Len(cs) /\ n < Len(cs) /\ Stage(cs, R, n)
        BY <1>1, <1>6, <2>8, <3>1
      <3>3. /\ Run(R, Draft!ColumnOps(cs[n + 1])) = Draft!Failed \/ Stage(cs, Run(R, Draft!ColumnOps(cs[n + 1])), n + 1)
            /\ Free(cs) => Stage(cs, Run(R, Draft!ColumnOps(cs[n + 1])), n + 1)
        BY <3>2, StageAdds, StageReplaces, Zenon
      <3> QED BY <2>1, <2>6, <3>1, <3>3, Zenon
    <2>9. G(k)
      BY <2>3, <2>6, <2>7, <2>8, Zenon
    <2> HIDE DEF G
    <2> QED BY <2>1, <2>2, <2>9
  <1>7. \A n \in 0..m : n \in S
    <2> HIDE DEF S
    <2> QED BY <1>5, <1>6, CountUp
  <1>8. G(m)
    <2>1. m \in 0..m
      OBVIOUS
    <2> QED BY <1>7, <2>1
  <1> QED BY <1>1, <1>2, <1>4, <1>8, Zenon

\* When all columns have been reached, the table has the columns of the draft.
LEMMA StageEnds ==
  ASSUME NEW cs, ColumnsWell(cs), NEW T, Stage(cs, T, Len(cs))
  PROVE  T = {MadeOf(cs[i]) : i \in 1..Len(cs)}
  <1>1. ASSUME NEW b, Left(cs, Len(cs), b) PROVE FALSE
    <2>1. PICK j \in 1..Len(cs) : cs[j].orig = b.name \/ (cs[j].orig = Absent /\ cs[j].name = b.name)
      BY <1>1 DEF Left, Stays
    <2>2. cs[j].name # b.name
      BY <1>1, Zenon DEF Stage
    <2> QED BY <1>1, <2>1, <2>2, Zenon DEF Left
  <1>2. \A x : x \in T <=> \E j \in 1..Len(cs) : x = MadeOf(cs[j])
    BY <1>1, Zenon DEF Stage
  <1> QED BY <1>2

-----------------------------------------------------------------------------
(* The primary key, and the whole draft.                                   *)

MadeAll(cs) == {MadeOf(cs[i]) : i \in 1..Len(cs)}
ShownOf(cs) == {Made(cs[i], cs[i].primary) : i \in 1..Len(cs)}

KeyTook(cs) == \E i \in 1..Len(cs) : /\ cs[i].primary
                                     /\ cs[i].name = Draft!FirstPrimary(Draft!Before)
                                     /\ cs[i].orig # cs[i].name

Distinct(cs) == \A i, j \in 1..Len(cs) : cs[i].name = cs[j].name => i = j

\* Setting or dropping the primary key.
LEMMA KeyIsSet ==
  ASSUME NEW cs, ColumnsWell(cs), NEW op, op.kind \in {"set_primary", "drop_primary"},
         \A i \in 1..Len(cs) : cs[i].primary <=> op.kind = "set_primary" /\ cs[i].name = op.name
  PROVE  Draft!RunColumn(MadeAll(cs), op) = ShownOf(cs)
  <1>1. PICK m \in Nat : m = Len(cs)
    BY DEF ColumnsWell, IsSequence
  <1>2. PICK T : T = MadeAll(cs)
    OBVIOUS
  <1>3. \A i \in 1..m : MadeOf(cs[i]) \in Draft!Column /\ MadeOf(cs[i]).name = cs[i].name
    BY <1>1, MadeIs
  <1>4. T # Draft!Failed
    <2>1. T \subseteq Draft!Column
      BY <1>1, <1>2, <1>3 DEF MadeAll
    <2> QED BY <2>1, NotFailed
  <1>5. /\ op.kind # "drop_column" /\ op.kind # "add_column" /\ op.kind # "rename_column"
        /\ op.kind \notin {"alter_column", "set_column_comment"}
    OBVIOUS
  <1>6. Draft!RunColumn(T, op) = {[c EXCEPT !.primary = (op.kind = "set_primary" /\ c.name = op.name)] : c \in T}
    BY <1>4, <1>5, Zenon DEF Draft!RunColumn
  <1>7. ASSUME NEW i \in 1..m
        PROVE  [MadeOf(cs[i]) EXCEPT !.primary = (op.kind = "set_primary" /\ MadeOf(cs[i]).name = op.name)]
                 = Made(cs[i], cs[i].primary)
    <2>1. PICK q : q = (op.kind = "set_primary" /\ MadeOf(cs[i]).name = op.name)
      OBVIOUS
    <2>2. q <=> cs[i].primary
      BY <1>1, <1>3, <2>1, Zenon
    <2>3. q \in BOOLEAN
      BY <2>1
    <2>4. cs[i].primary \in BOOLEAN
      BY <1>1 DEF ColumnsWell, Draft!DraftColumn
    <2>5. q = cs[i].primary
      BY <2>2, <2>3, <2>4
    <2>6. \A k, r : [Made(cs[i], k) EXCEPT !.primary = r] = Made(cs[i], r)
      BY DEF Made
    <2>7. [MadeOf(cs[i]) EXCEPT !.primary = q] = Made(cs[i], q)
      BY <2>6, Zenon DEF MadeOf
    <2> QED BY <2>1, <2>5, <2>7, Zenon
  <1>8. \A x : x \in T <=> \E i \in 1..m : x = MadeOf(cs[i])
    BY <1>1, <1>2 DEF MadeAll
  <1>9. \A x : x \in ShownOf(cs) <=> \E i \in 1..m : x = Made(cs[i], cs[i].primary)
    BY <1>1 DEF ShownOf
  <1>10. \A x : x \in Draft!RunColumn(T, op) <=>
                \E c \in T : x = [c EXCEPT !.primary = (op.kind = "set_primary" /\ c.name = op.name)]
    BY <1>6, Zenon
  <1>11. ASSUME NEW x PROVE x \in Draft!RunColumn(T, op) <=> x \in ShownOf(cs)
    <2>1. ASSUME x \in Draft!RunColumn(T, op) PROVE x \in ShownOf(cs)
      <3>1. PICK c \in T : x = [c EXCEPT !.primary = (op.kind = "set_primary" /\ c.name = op.name)]
        BY <1>10, <2>1, Zenon
      <3>2. PICK i \in 1..m : c = MadeOf(cs[i])
        BY <1>8, Zenon
      <3>3. x = Made(cs[i], cs[i].primary)
        BY <1>7, <3>1, <3>2, Zenon
      <3> QED BY <1>9, <3>3, Zenon
    <2>2. ASSUME x \in ShownOf(cs) PROVE x \in Draft!RunColumn(T, op)
      <3>1. PICK i \in 1..m : x = Made(cs[i], cs[i].primary)
        BY <1>9, <2>2, Zenon
      <3>2. PICK c : c = MadeOf(cs[i])
        OBVIOUS
      <3>3. x = [c EXCEPT !.primary = (op.kind = "set_primary" /\ c.name = op.name)]
        BY <1>7, <3>1, <3>2, Zenon
      <3>4. c \in T
        BY <1>8, <3>2, Zenon
      <3> QED BY <1>10, <3>3, <3>4, Zenon
    <2> QED BY <2>1, <2>2
  <1>12. Draft!RunColumn(T, op) = ShownOf(cs)
    BY <1>6, <1>11 DEF ShownOf
  <1> QED BY <1>2, <1>12

\* Where the key is the one that was loaded, the columns have it already.
LEMMA KeyIsKept ==
  ASSUME NEW cs, ColumnsWell(cs), ~KeyTook(cs), Draft!FirstPrimary(Draft!Before) = Draft!FirstPrimary(cs)
  PROVE  MadeAll(cs) = ShownOf(cs)
  <1>1. PICK m \in Nat : m = Len(cs)
    BY DEF ColumnsWell, IsSequence
  <1>2. /\ \A i \in 1..m : cs[i] \in Draft!DraftColumn
        /\ \A i \in 1..m : cs[i].orig # Absent => \E b : Loaded(b) /\ b.name = cs[i].orig
        /\ \A i, j \in 1..m : cs[i].orig = cs[j].orig /\ cs[i].orig # Absent => i = j
        /\ \A i, j \in 1..m : cs[i].primary /\ cs[j].primary => i = j
    BY <1>1, Zenon DEF ColumnsWell
  <1>3. PICK was : was = Draft!FirstPrimary(Draft!Before)
    OBVIOUS
  <1>4. \/ \E p \in 1..m : cs[p].primary /\ was = cs[p].name
        \/ (\A p \in 1..m : ~cs[p].primary) /\ was = Absent
    <2>1. IsSequence(cs) /\ \A i, j \in 1..Len(cs) : cs[i].primary /\ cs[j].primary => i = j
      BY Zenon DEF ColumnsWell
    <2>2. \/ \E p \in 1..Len(cs) : cs[p].primary /\ Draft!FirstPrimary(cs) = cs[p].name
          \/ (\A p \in 1..Len(cs) : ~cs[p].primary) /\ Draft!FirstPrimary(cs) = Absent
      BY ONLY <2>1, FirstPrimaryIs
    <2> QED BY <1>1, <1>3, <2>2
  <1>5. \/ \E b : Loaded(b) /\ b.primary /\ was = b.name
        \/ (\A b : ~Loaded(b)) /\ was = Absent
    BY <1>3, KeyBefore
  <1>6. ASSUME NEW i \in 1..m PROVE cs[i].name # Absent /\ cs[i].primary \in BOOLEAN
    <2>1. Absent \notin Draft!ColumnName
      BY DraftAssumption
    <2> QED BY <1>2, <2>1 DEF Draft!DraftColumn
  <1>7. ASSUME NEW i \in 1..m PROVE KeyOf(cs[i]) = cs[i].primary
    <2>1. ASSUME cs[i].orig # Absent
          PROVE  \E d : Loaded(d) /\ d.name = cs[i].orig /\ KeyOf(cs[i]) = d.primary /\ d.primary \in BOOLEAN
      <3>1. PICK d : Loaded(d) /\ d.name = cs[i].orig
        BY <1>2, <2>1
      <3>2. KeyOf(cs[i]) = d.primary
        BY <2>1, <3>1, OriginalIs, Zenon DEF KeyOf
      <3>3. d.primary \in BOOLEAN
        BY <3>1, LoadedIs DEF Draft!Column
      <3> QED BY <3>1, <3>2, <3>3
    <2>2. cs[i].orig = Absent => KeyOf(cs[i]) = FALSE
      BY Zenon DEF KeyOf
    <2>3. CASE cs[i].primary
      <3>1. was = cs[i].name /\ was # Absent
        BY <1>2, <1>4, <1>6, <2>3
      <3>2. cs[i].orig = cs[i].name
        BY <1>1, <1>3, <2>3, <3>1, Zenon DEF KeyTook
      <3>3. PICK d : Loaded(d) /\ d.name = cs[i].orig /\ KeyOf(cs[i]) = d.primary /\ d.primary \in BOOLEAN
        BY <2>1, <3>1, <3>2
      <3>4. PICK b : Loaded(b) /\ b.primary /\ was = b.name
        BY <1>5, <3>1
      <3>5. d = b
        BY <3>1, <3>2, <3>3, <3>4, LoadedIs
      <3> QED BY <1>6, <2>3, <3>3, <3>4, <3>5
    <2>4. CASE ~cs[i].primary
      <3>1. cs[i].primary = FALSE
        BY <1>6, <2>4
      <3>2. CASE cs[i].orig = Absent
        BY <2>2, <3>1, <3>2
      <3>3. CASE cs[i].orig # Absent
        <4>1. PICK d : Loaded(d) /\ d.name = cs[i].orig /\ KeyOf(cs[i]) = d.primary /\ d.primary \in BOOLEAN
          BY <2>1, <3>3
        <4>2. ~d.primary
          <5> SUFFICES ASSUME d.primary PROVE FALSE
            OBVIOUS
          <5>1. PICK b : Loaded(b) /\ b.primary /\ was = b.name
            BY <1>5, <4>1
          <5>2. d = b /\ was # Absent
            BY <4>1, <5>1, LoadedIs
          <5>3. PICK p \in 1..m : cs[p].primary /\ was = cs[p].name
            BY <1>4, <5>2
          <5>4. cs[p].orig = cs[p].name
            BY <1>1, <1>3, <5>3, Zenon DEF KeyTook
          <5>5. cs[i].orig = cs[p].orig
            BY <4>1, <5>1, <5>2, <5>3, <5>4
          <5>6. i = p
            BY <1>2, <3>3, <5>5, Zenon
          <5> QED BY <2>4, <5>3, <5>6
        <4> QED BY <3>1, <4>1, <4>2
      <3> QED BY <3>2, <3>3
    <2> QED BY <2>3, <2>4
  <1>8. \A i \in 1..m : MadeOf(cs[i]) = Made(cs[i], cs[i].primary)
    BY <1>7, Zenon DEF MadeOf
  <1>9. \A x : x \in MadeAll(cs) <=> x \in ShownOf(cs)
    BY <1>1, <1>8, Zenon DEF MadeAll, ShownOf
  <1>10. PICK A, B : A = MadeAll(cs) /\ B = ShownOf(cs)
    OBVIOUS
  <1> QED BY <1>9 DEF MadeAll, ShownOf

Was == Draft!FirstPrimary(Draft!Before)
SetKey(cs) == Draft!When(Was # Draft!FirstPrimary(cs) /\ Draft!FirstPrimary(cs) # Absent,
                         Draft!Op("set_primary", Draft!FirstPrimary(cs), Absent))
DropKey(cs) == Draft!When(Was # Draft!FirstPrimary(cs) /\ Draft!FirstPrimary(cs) = Absent,
                          Draft!Op("drop_primary", Absent, Absent))

LEMMA KeyRuns ==
  ASSUME NEW cs, ColumnsWell(cs), ~KeyTook(cs), Distinct(cs)
  PROVE  Run(Run(MadeAll(cs), SetKey(cs)), DropKey(cs)) = ShownOf(cs)
  <1>1. PICK m \in Nat : m = Len(cs)
    BY DEF ColumnsWell, IsSequence
  <1>2. PICK is, T : is = Draft!FirstPrimary(cs) /\ T = MadeAll(cs)
    OBVIOUS
  <1>3. \/ \E p \in 1..m : cs[p].primary /\ is = cs[p].name
        \/ (\A p \in 1..m : ~cs[p].primary) /\ is = Absent
    <2>1. IsSequence(cs) /\ \A i, j \in 1..Len(cs) : cs[i].primary /\ cs[j].primary => i = j
      BY Zenon DEF ColumnsWell
    <2>2. \/ \E p \in 1..Len(cs) : cs[p].primary /\ Draft!FirstPrimary(cs) = cs[p].name
          \/ (\A p \in 1..Len(cs) : ~cs[p].primary) /\ Draft!FirstPrimary(cs) = Absent
      BY ONLY <2>1, FirstPrimaryIs
    <2> QED BY <1>1, <1>2, <2>2
  <1>4. CASE Was = is
    <2>1. SetKey(cs) = <<>> /\ DropKey(cs) = <<>>
      BY <1>2, <1>4, Zenon DEF SetKey, DropKey, Draft!When
    <2>2. T = ShownOf(cs)
      BY <1>2, <1>4, KeyIsKept, Zenon DEF Was
    <2> QED BY <1>2, <2>1, <2>2, RunNone, Zenon
  <1>5. CASE Was # is /\ is # Absent
    <2>1. PICK op : op = Draft!Op("set_primary", is, Absent)
      OBVIOUS
    <2>2. SetKey(cs) = <<op>> /\ DropKey(cs) = <<>>
      BY <1>2, <1>5, <2>1, Zenon DEF SetKey, DropKey, Draft!When
    <2>3. op.kind = "set_primary" /\ op.name = is
      BY <2>1 DEF Draft!Op
    <2>4. ASSUME NEW i \in 1..m PROVE cs[i].primary <=> cs[i].name = is
      <3>1. PICK p \in 1..m : cs[p].primary /\ is = cs[p].name
        BY <1>3, <1>5
      <3>2. cs[i].primary => i = p
        BY <1>1, <3>1, Zenon DEF ColumnsWell
      <3>3. cs[i].name = is => i = p
        BY <1>1, <3>1, Zenon DEF Distinct
      <3> QED BY <3>1, <3>2, <3>3
    <2>5. \A i \in 1..Len(cs) : cs[i].primary <=> op.kind = "set_primary" /\ cs[i].name = op.name
      BY <1>1, <2>3, <2>4
    <2>6. Draft!RunColumn(MadeAll(cs), op) = ShownOf(cs)
      BY <2>3, <2>5, KeyIsSet
    <2> QED BY <2>2, <2>6, RunNone, RunOne, Zenon
  <1>6. CASE Was # is /\ is = Absent
    <2>1. PICK op : op = Draft!Op("drop_primary", Absent, Absent)
      OBVIOUS
    <2>2. SetKey(cs) = <<>> /\ DropKey(cs) = <<op>>
      BY <1>2, <1>6, <2>1, Zenon DEF SetKey, DropKey, Draft!When
    <2>3. op.kind = "drop_primary" /\ op.kind # "set_primary"
      BY <2>1 DEF Draft!Op
    <2>4. ASSUME NEW i \in 1..m PROVE ~cs[i].primary
      <3>1. Absent \notin Draft!ColumnName
        BY DraftAssumption
      <3>2. cs[i].name \in Draft!ColumnName
        BY <1>1 DEF ColumnsWell, Draft!DraftColumn
      <3>3. \A p \in 1..m : cs[p].name \in Draft!ColumnName
        BY <1>1 DEF ColumnsWell, Draft!DraftColumn
      <3> QED BY <1>3, <1>6, <3>1, <3>3
    <2>5. \A i \in 1..Len(cs) : cs[i].primary <=> op.kind = "set_primary" /\ cs[i].name = op.name
      BY <1>1, <2>3, <2>4
    <2>6. Draft!RunColumn(MadeAll(cs), op) = ShownOf(cs)
      BY <2>3, <2>5, KeyIsSet
    <2> QED BY <2>2, <2>6, RunNone, RunOne, Zenon
  <1> QED BY <1>4, <1>5, <1>6

\* The operations of a draft of the columns are refused, or make what is on the screen.
LEMMA DraftRuns ==
  ASSUME ColumnsWell(columns)
  PROVE  LET R == Draft!Loop(Draft!RunColumn, {Draft!Before[i] : i \in DOMAIN Draft!Before}, Draft!DiffColumns) IN
         /\ R # Draft!Failed /\ ~KeyTook(columns) => R = ShownOf(columns)
         /\ Free(columns) /\ ~KeyTook(columns) => R = ShownOf(columns)
  <1>1. PICK cs : cs = columns
    OBVIOUS
  <1>2. ColumnsWell(cs) /\ IsSequence(cs)
    BY <1>1 DEF ColumnsWell
  <1>3. PICK d, g, s, e : d = DropsOf(cs) /\ g = Gather(cs) /\ s = SetKey(cs) /\ e = DropKey(cs)
    OBVIOUS
  <1>4. IsSequence(d) /\ IsSequence(g) /\ IsSequence(s) /\ IsSequence(e)
    BY <1>2, <1>3, DropsRun, GatherRuns, WhenIsSequence, Zenon DEF SetKey, DropKey
  <1>5. Draft!DiffColumns = ((d \o g) \o s) \o e
    <2>1. Gone(columns) = Draft!Only(Draft!Before, {b \in DOMAIN Draft!Before : \A i \in DOMAIN columns :
                                  /\ columns[i].orig # Draft!Before[b].name
                                  /\ columns[i].orig = Absent => columns[i].name # Draft!Before[b].name})
      BY DraftOnly, Zenon DEF Gone
    <2>2. Draft!DiffColumns = ((DropsOf(columns) \o Gather(columns)) \o SetKey(columns)) \o DropKey(columns)
      BY <2>1, Zenon DEF Draft!DiffColumns, DropsOf, Gather, SetKey, DropKey, Was
    <2> QED BY <1>1, <1>3, <2>2, Zenon
  <1>6. PICK R : R = Run(AsBefore, ((d \o g) \o s) \o e)
    OBVIOUS
  <1>7. R = Draft!Loop(Draft!RunColumn, {Draft!Before[i] : i \in DOMAIN Draft!Before}, Draft!DiffColumns)
    BY <1>5, <1>6, Zenon DEF Run, AsBefore
  <1>8. PICK T : T = Run(Staying(cs), g)
    OBVIOUS
  <1>9. R = Run(Run(T, s), e)
    <2>1. IsSequence(d \o g)
      BY <1>4, JoinIsSequence
    <2>2. IsSequence((d \o g) \o s)
      BY <1>4, <2>1, JoinIsSequence
    <2>3. R = Run(Run(AsBefore, (d \o g) \o s), e)
      BY <1>4, <1>6, <2>2, RunJoin
    <2>4. Run(AsBefore, (d \o g) \o s) = Run(Run(AsBefore, d \o g), s)
      BY <1>4, <2>1, RunJoin
    <2>5. Run(AsBefore, d \o g) = Run(Run(AsBefore, d), g)
      BY <1>4, RunJoin
    <2>6. Run(AsBefore, d) = Staying(cs)
      BY <1>2, <1>3, DropsRun
    <2> QED BY <1>8, <2>3, <2>4, <2>5, <2>6, Zenon
  <1>10. /\ T = Draft!Failed \/ Stage(cs, T, Len(cs))
         /\ Free(cs) => Stage(cs, T, Len(cs))
    BY <1>2, <1>3, <1>8, GatherRuns, Zenon
  <1>11. T = Draft!Failed => R = Draft!Failed
    BY <1>4, <1>9, RunFailed, Zenon
  <1>12. ASSUME Stage(cs, T, Len(cs)), ~KeyTook(cs) PROVE R = ShownOf(cs)
    <2>1. T = MadeAll(cs)
      BY <1>2, <1>12, StageEnds, Zenon DEF MadeAll
    <2>2. Distinct(cs)
      BY <1>12, Zenon DEF Stage, Distinct
    <2> QED BY <1>2, <1>3, <1>9, <1>12, <2>1, <2>2, KeyRuns, Zenon
  <1>13. /\ R # Draft!Failed /\ ~KeyTook(cs) => R = ShownOf(cs)
         /\ Free(cs) /\ ~KeyTook(cs) => R = ShownOf(cs)
    BY <1>10, <1>11, <1>12, Zenon
  <1> QED BY <1>1, <1>7, <1>13, Zenon

LEMMA ColumnsShown ==
  ASSUME ColumnsWell(columns)
  PROVE  Draft!ColumnsBecomeShown /\ Draft!ColumnsNeverMisread
  <1>1. PICK R : R = Draft!Loop(Draft!RunColumn, {Draft!Before[i] : i \in DOMAIN Draft!Before}, Draft!DiffColumns)
    OBVIOUS
  <1>2. /\ R # Draft!Failed /\ ~KeyTook(columns) => R = ShownOf(columns)
        /\ Free(columns) /\ ~KeyTook(columns) => R = ShownOf(columns)
    BY <1>1, DraftRuns, Zenon
  <1>3. DOMAIN columns = 1..Len(columns)
    BY DEF ColumnsWell, IsSequence
  <1>4. Draft!Shown = ShownOf(columns)
    BY <1>3, Zenon DEF Draft!Shown, ShownOf, Made
  <1>5. Draft!KeyTookName <=> KeyTook(columns)
    BY <1>3, Zenon DEF Draft!KeyTookName, KeyTook
  <1>6. Draft!NamesFree => Free(columns) /\ ~KeyTook(columns)
    <2> SUFFICES ASSUME Draft!NamesFree PROVE Free(columns) /\ ~KeyTook(columns)
      OBVIOUS
    <2>1. \A i, j \in 1..Len(columns) : columns[i].name = columns[j].name => i = j
      BY <1>3, Zenon DEF Draft!NamesFree
    <2>2. ASSUME NEW i \in 1..Len(columns), NEW b, Loaded(b), columns[i].name = b.name
          PROVE  columns[i].orig = b.name
      <3>1. PICK k \in DOMAIN Draft!Before : b = Draft!Before[k]
        BY <2>2, BeforeIs DEF Loaded
      <3> QED BY <1>3, <2>2, <3>1, Zenon DEF Draft!NamesFree
    <2>3. ASSUME KeyTook(columns) PROVE FALSE
      <3>1. PICK i \in 1..Len(columns) : /\ columns[i].primary /\ columns[i].name = Was
                                         /\ columns[i].orig # columns[i].name
        BY <2>3, Zenon DEF KeyTook, Was
      <3>2. columns[i].name # Absent
        <4>1. Absent \notin Draft!ColumnName
          BY DraftAssumption
        <4>2. columns[i] \in Draft!DraftColumn
          BY DEF ColumnsWell
        <4> QED BY <4>1, <4>2 DEF Draft!DraftColumn
      <3>3. PICK b : Loaded(b) /\ columns[i].name = b.name
        BY <3>1, <3>2, KeyBefore, Zenon DEF Was
      <3> QED BY <2>2, <3>1, <3>3
    <2> QED BY <2>1, <2>2, <2>3, Zenon DEF Free
  <1>7. Draft!ColumnsBecomeShown
    BY <1>1, <1>2, <1>4, <1>6, Zenon DEF Draft!ColumnsBecomeShown
  <1>8. Draft!ColumnsNeverMisread
    BY <1>1, <1>2, <1>4, <1>5, Zenon DEF Draft!ColumnsNeverMisread
  <1> QED BY <1>7, <1>8

-----------------------------------------------------------------------------
(* The columns of the draft stay well.                                     *)

LEMMA SameColumns ==
  ASSUME NEW cs, ColumnsWell(cs), NEW ds, IsSequence(ds), Len(ds) = Len(cs),
         \A n \in 1..Len(cs) : ds[n] \in Draft!DraftColumn /\ ds[n].orig = cs[n].orig,
         \A n, k \in 1..Len(cs) : ds[n].primary /\ ds[k].primary => n = k
  PROVE  ColumnsWell(ds)
  BY Zenon DEF ColumnsWell

LEMMA FunctionIsSequence ==
  ASSUME NEW m \in Nat, NEW f, f = [n \in 1..m |-> f[n]]
  PROVE  IsSequence(f) /\ Len(f) = m
  <1>1. PICK S : S = {f[n] : n \in 1..m}
    OBVIOUS
  <1>2. f \in [1..m -> S]
    BY <1>1
  <1>3. f \in Seq(S)
    BY <1>2
  <1> QED BY <1>2, <1>3 DEF IsSequence

LEMMA LoadedFits == ColumnsWell(Draft!AsLoaded)
  <1>1. PICK N, B : N = N0 /\ B = Draft!Before
    OBVIOUS
  <1>2. /\ N \in Nat /\ IsSequence(B) /\ Len(B) = N /\ DOMAIN B = 1..N
        /\ \A i \in 1..N : /\ B[i] \in Draft!Column /\ B[i].name \in LoadedNames
                           /\ B[i].primary <=> i = 1
        /\ \A i, j \in 1..N : B[i].name = B[j].name => i = j
    BY <1>1, BeforeIs, Zenon
  <1>3. PICK f : f = [i \in 1..N |-> [name |-> B[i].name, type |-> B[i].type, comment |-> B[i].comment,
                                      primary |-> B[i].primary, orig |-> B[i].name]]
    OBVIOUS
  <1>4. f = Draft!AsLoaded
    BY <1>1, <1>2, <1>3, Zenon DEF Draft!AsLoaded
  <1>5. \A i \in 1..N : f[i] = [name |-> B[i].name, type |-> B[i].type, comment |-> B[i].comment,
                                primary |-> B[i].primary, orig |-> B[i].name]
    BY <1>3
  <1>6. IsSequence(f) /\ Len(f) = N
    <2>1. f = [n \in 1..N |-> f[n]]
      BY <1>3
    <2> QED BY <1>2, <2>1, FunctionIsSequence
  <1>7. ASSUME NEW i \in 1..N
        PROVE  f[i] \in Draft!DraftColumn /\ f[i].orig = B[i].name /\ (f[i].primary <=> i = 1)
    <2>1. PICK b \in Draft!Column : b = B[i] /\ b.name \in LoadedNames /\ (b.primary <=> i = 1)
      BY <1>2, Zenon
    <2>2. PICK c : c = f[i]
      OBVIOUS
    <2>3. c = [name |-> b.name, type |-> b.type, comment |-> b.comment, primary |-> b.primary, orig |-> b.name]
      BY <1>5, <2>1, <2>2
    <2>4. b.name \in Draft!ColumnName /\ b.type \in Types /\ b.comment \in Comments /\ b.primary \in BOOLEAN
      BY <2>1 DEF Draft!Column
    <2>5. c \in Draft!DraftColumn /\ c.orig = b.name /\ c.primary = b.primary
      BY <2>1, <2>3, <2>4 DEF Draft!DraftColumn
    <2> QED BY <2>1, <2>2, <2>5, Zenon
  <1>8. ASSUME NEW i \in 1..N PROVE \E b : Loaded(b) /\ b.name = f[i].orig
    <2>1. Loaded(B[i])
      BY <1>1, Zenon DEF Loaded
    <2> QED BY <1>7, <2>1, Zenon
  <1>9. ASSUME NEW i \in 1..N, NEW j \in 1..N, f[i].orig = f[j].orig PROVE i = j
    <2>1. B[i].name = B[j].name
      BY <1>7, <1>9
    <2> QED BY <1>2, <2>1, Zenon
  <1>10. \A i, j \in 1..N : f[i].primary /\ f[j].primary => i = j
    BY <1>7, SMT
  <1>11. ColumnsWell(f)
    BY <1>6, <1>7, <1>8, <1>9, <1>10, Zenon DEF ColumnsWell
  <1> QED BY <1>4, <1>11, Zenon

LEMMA ChangeKeeps ==
  ASSUME ColumnsWell(columns), NEW i, NEW field, NEW value, Draft!Change(i, field, value),
         \/ field = "name" /\ value \in Names
         \/ field = "type" /\ value \in Types
         \/ field = "comment" /\ value \in Comments
         \/ field = "primary" /\ value \in BOOLEAN
  PROVE  ColumnsWell(columns')
  <1>1. PICK m \in Nat : m = Len(columns) /\ DOMAIN columns = 1..m
    BY DEF ColumnsWell, IsSequence
  <1>2. PICK cs, ds : cs = columns /\ ds = columns'
    OBVIOUS
  <1>3. /\ \A n \in 1..m : cs[n] \in Draft!DraftColumn
        /\ \A n, k \in 1..m : cs[n].primary /\ cs[k].primary => n = k
    BY <1>1, <1>2, Zenon DEF ColumnsWell
  <1>4. i \in 1..m
        /\ ds = [n \in 1..m |-> IF n = i THEN [cs[n] EXCEPT ![field] = value]
                                ELSE IF field = "primary" /\ value THEN [cs[n] EXCEPT !.primary = FALSE]
                                ELSE cs[n]]
    BY <1>1, <1>2, Zenon DEF Draft!Change
  <1>5. IsSequence(ds) /\ Len(ds) = m
    <2>1. ds = [n \in 1..m |-> ds[n]]
      BY <1>4
    <2> QED BY <2>1, FunctionIsSequence
  <1>6. ds[i] = [cs[i] EXCEPT ![field] = value]
    BY <1>4
  <1>7. \A n \in 1..m : n # i => ds[n] = IF field = "primary" /\ value THEN [cs[n] EXCEPT !.primary = FALSE] ELSE cs[n]
    BY <1>4
  <1>8. ASSUME NEW n \in 1..m, n # i
        PROVE  ds[n] \in Draft!DraftColumn /\ ds[n].orig = cs[n].orig
    <2>1. CASE field = "primary" /\ value
      <3>1. ds[n] = [cs[n] EXCEPT !.primary = FALSE]
        BY <1>7, <1>8, <2>1
      <3> QED BY <1>3, <3>1 DEF Draft!DraftColumn
    <2>2. CASE ~(field = "primary" /\ value)
      BY <1>3, <1>7, <1>8, <2>2
    <2> QED BY <2>1, <2>2
  <1>9. CASE field = "name" /\ value \in Names
    <2>1. ds[i] \in Draft!DraftColumn /\ ds[i].orig = cs[i].orig /\ ds[i].primary = cs[i].primary
      BY <1>3, <1>4, <1>6, <1>9 DEF Draft!DraftColumn, Draft!ColumnName
    <2>2. \A n \in 1..m : n # i => ds[n] = cs[n]
      BY <1>7, <1>9
    <2> QED BY <1>1, <1>2, <1>3, <1>5, <2>1, <2>2, SameColumns
  <1>10. CASE field = "type" /\ value \in Types
    <2>1. ds[i] \in Draft!DraftColumn /\ ds[i].orig = cs[i].orig /\ ds[i].primary = cs[i].primary
      BY <1>3, <1>4, <1>6, <1>10 DEF Draft!DraftColumn
    <2>2. \A n \in 1..m : n # i => ds[n] = cs[n]
      BY <1>7, <1>10
    <2> QED BY <1>1, <1>2, <1>3, <1>5, <2>1, <2>2, SameColumns
  <1>11. CASE field = "comment" /\ value \in Comments
    <2>1. ds[i] \in Draft!DraftColumn /\ ds[i].orig = cs[i].orig /\ ds[i].primary = cs[i].primary
      BY <1>3, <1>4, <1>6, <1>11 DEF Draft!DraftColumn
    <2>2. \A n \in 1..m : n # i => ds[n] = cs[n]
      BY <1>7, <1>11
    <2> QED BY <1>1, <1>2, <1>3, <1>5, <2>1, <2>2, SameColumns
  <1>12. CASE field = "primary" /\ value \in BOOLEAN
    <2>1. ds[i] \in Draft!DraftColumn /\ ds[i].orig = cs[i].orig /\ ds[i].primary = value
      BY <1>3, <1>4, <1>6, <1>12 DEF Draft!DraftColumn
    <2>2. \A n \in 1..m : n # i /\ ds[n].primary => value = FALSE /\ cs[n].primary
      <3>1. ASSUME NEW n \in 1..m, n # i, ds[n].primary PROVE value = FALSE /\ cs[n].primary
        <4>1. CASE value = TRUE
          <5>1. ds[n] = [cs[n] EXCEPT !.primary = FALSE]
            BY <1>7, <1>12, <3>1, <4>1
          <5>2. ds[n].primary = FALSE
            BY <1>3, <5>1 DEF Draft!DraftColumn
          <5> QED BY <3>1, <5>2
        <4>2. CASE value = FALSE
          <5>1. ds[n] = cs[n]
            BY <1>7, <3>1, <4>2
          <5> QED BY <3>1, <4>2, <5>1
        <4> QED BY <1>12, <4>1, <4>2
      <3> QED BY <3>1
    <2>3. \A n, k \in 1..m : ds[n].primary /\ ds[k].primary => n = k
      BY <1>3, <2>1, <2>2
    <2> QED BY <1>1, <1>2, <1>4, <1>5, <1>8, <2>1, <2>3, SameColumns
  <1> QED BY <1>9, <1>10, <1>11, <1>12

LEMMA AddKeeps ==
  ASSUME ColumnsWell(columns), Draft!AddColumn
  PROVE  ColumnsWell(columns')
  <1>1. PICK m \in Nat : m = Len(columns)
    BY DEF ColumnsWell, IsSequence
  <1>2. PICK cs, ds, t, c : /\ cs = columns /\ ds = columns'
                            /\ t = (CHOOSE x \in Types : TRUE) /\ c = (CHOOSE x \in Comments : TRUE)
    OBVIOUS
  <1>3. PICK a : a = [name |-> Draft!NewName(m + 1), type |-> t, comment |-> c, primary |-> FALSE, orig |-> Absent]
    OBVIOUS
  <1>4. ds = Append(cs, a)
    BY <1>1, <1>2, <1>3, Zenon DEF Draft!AddColumn
  <1>5. t \in Types /\ c \in Comments
    BY <1>2, DraftAssumption
  <1>6. a \in Draft!DraftColumn
    <2>1. Draft!NewName(m + 1) \in {"new_column"} \X Nat
      BY DEF Draft!NewName
    <2> QED BY <1>3, <1>5, <2>1 DEF Draft!DraftColumn, Draft!ColumnName
  <1>7. a.orig = Absent /\ a.primary = FALSE
    BY <1>3
  <1>8. PICK S : cs \in Seq(S)
    BY <1>2 DEF ColumnsWell, IsSequence
  <1>9. /\ ds \in Seq(S \cup {a}) /\ Len(ds) = m + 1
        /\ \A n \in 1..m : ds[n] = cs[n]
        /\ ds[m + 1] = a
    BY <1>1, <1>2, <1>4, <1>8
  <1>10. /\ \A n \in 1..m : cs[n] \in Draft!DraftColumn
         /\ \A n \in 1..m : cs[n].orig # Absent => \E b : Loaded(b) /\ b.name = cs[n].orig
         /\ \A n, k \in 1..m : cs[n].orig = cs[k].orig /\ cs[n].orig # Absent => n = k
         /\ \A n, k \in 1..m : cs[n].primary /\ cs[k].primary => n = k
    BY <1>1, <1>2, Zenon DEF ColumnsWell
  <1>11. \A n \in 1..(m + 1) : n \in 1..m \/ n = m + 1
    OBVIOUS
  <1>12. \A n \in 1..(m + 1) : ds[n] \in Draft!DraftColumn
    BY <1>6, <1>9, <1>10, <1>11, Zenon
  <1>13. \A n \in 1..(m + 1) : ds[n].orig # Absent => \E b : Loaded(b) /\ b.name = ds[n].orig
    BY <1>7, <1>9, <1>10, <1>11, Zenon
  <1>14. \A n, k \in 1..(m + 1) : ds[n].orig = ds[k].orig /\ ds[n].orig # Absent => n = k
    BY <1>7, <1>9, <1>10, <1>11, Zenon
  <1>15. \A n, k \in 1..(m + 1) : ds[n].primary /\ ds[k].primary => n = k
    BY <1>7, <1>9, <1>10, <1>11, Zenon
  <1>16. IsSequence(ds)
    BY <1>9 DEF IsSequence
  <1>17. ColumnsWell(ds)
    BY <1>9, <1>12, <1>13, <1>14, <1>15, <1>16, Zenon DEF ColumnsWell
  <1> QED BY <1>2, <1>17, Zenon

LEMMA TakenOutIs ==
  ASSUME NEW s, IsSequence(s), NEW n \in 1..Len(s)
  PROVE  /\ IsSequence(Draft!Without(s, n)) /\ Len(s) \in Nat /\ Len(Draft!Without(s, n)) = Len(s) - 1
         /\ \A i \in 1..(Len(s) - 1) : Draft!Without(s, n)[i] = IF i < n THEN s[i] ELSE s[i + 1]
  <1>1. PICK S : s \in Seq(S)
    BY DEF IsSequence
  <1>2. PICK a, b : a = SubSeq(s, 1, n - 1) /\ b = SubSeq(s, n + 1, Len(s))
    OBVIOUS
  <1>3. PICK m \in Nat : m = Len(s)
    BY <1>1
  <1>4. a \in Seq(S) /\ Len(a) = n - 1 /\ \A i \in 1..(n - 1) : a[i] = s[i]
    BY <1>1, <1>2, <1>3
  <1>5. b \in Seq(S) /\ Len(b) = m - n /\ \A i \in 1..(m - n) : b[i] = s[n + i]
    BY <1>1, <1>2, <1>3
  <1>6. PICK w : w = Draft!Without(s, n)
    OBVIOUS
  <1>7. w = a \o b
    BY <1>2, <1>6, Zenon DEF Draft!Without
  <1>8. IsSequence(a) /\ IsSequence(b)
    BY <1>4, <1>5 DEF IsSequence
  <1>9. /\ IsSequence(w) /\ Len(w) = (n - 1) + (m - n)
        /\ \A i \in 1..(n - 1) : w[i] = a[i]
        /\ \A i \in 1..(m - n) : w[(n - 1) + i] = b[i]
    <2>1. /\ IsSequence(a \o b) /\ Len(a \o b) = Len(a) + Len(b)
          /\ \A i \in 1..Len(a) : (a \o b)[i] = a[i]
          /\ \A i \in 1..Len(b) : (a \o b)[Len(a) + i] = b[i]
      BY ONLY <1>8, JoinIsSequence
    <2> QED BY <1>4, <1>5, <1>7, <2>1, Zenon
  <1>10. ASSUME NEW i \in 1..(m - 1) PROVE w[i] = IF i < n THEN s[i] ELSE s[i + 1]
    <2>1. CASE i < n
      BY <1>3, <1>4, <1>9, <2>1
    <2>2. CASE i >= n
      <3>1. i - (n - 1) \in 1..(m - n) /\ i = (n - 1) + (i - (n - 1)) /\ n + (i - (n - 1)) = i + 1
        BY <1>3, <2>2
      <3>2. PICK k \in 1..(m - n) : i = (n - 1) + k /\ n + k = i + 1
        BY <3>1
      <3>3. w[i] = b[k] /\ b[k] = s[i + 1]
        BY <1>5, <1>9, <3>2
      <3> QED BY <2>2, <3>3
    <2> QED BY <1>3, <2>1, <2>2
  <1> QED BY <1>3, <1>6, <1>9, <1>10

LEMMA DropKeeps ==
  ASSUME ColumnsWell(columns), NEW d, Draft!DropColumn(d)
  PROVE  ColumnsWell(columns')
  <1>1. PICK m \in Nat : m = Len(columns) /\ DOMAIN columns = 1..m
    BY DEF ColumnsWell, IsSequence
  <1>2. PICK cs, ds : cs = columns /\ ds = columns'
    OBVIOUS
  <1>3. d \in 1..m /\ ds = Draft!Without(cs, d)
    BY <1>1, <1>2, Zenon DEF Draft!DropColumn
  <1>4. /\ IsSequence(ds) /\ Len(ds) = m - 1
        /\ \A i \in 1..(m - 1) : ds[i] = IF i < d THEN cs[i] ELSE cs[i + 1]
    <2>1. IsSequence(cs) /\ d \in 1..Len(cs) /\ Len(cs) = m
      BY <1>1, <1>2, <1>3, Zenon DEF ColumnsWell
    <2>2. /\ IsSequence(Draft!Without(cs, d)) /\ Len(Draft!Without(cs, d)) = Len(cs) - 1
          /\ \A i \in 1..(Len(cs) - 1) : Draft!Without(cs, d)[i] = IF i < d THEN cs[i] ELSE cs[i + 1]
      BY ONLY <2>1, TakenOutIs
    <2> QED BY <1>3, <2>1, <2>2, Zenon
  <1>5. ASSUME NEW i \in 1..(m - 1)
        PROVE  \E k \in 1..m : ds[i] = cs[k] /\ k = (IF i < d THEN i ELSE i + 1)
    BY <1>4
  <1>6. /\ \A n \in 1..m : cs[n] \in Draft!DraftColumn
        /\ \A n \in 1..m : cs[n].orig # Absent => \E b : Loaded(b) /\ b.name = cs[n].orig
        /\ \A n, k \in 1..m : cs[n].orig = cs[k].orig /\ cs[n].orig # Absent => n = k
        /\ \A n, k \in 1..m : cs[n].primary /\ cs[k].primary => n = k
    BY <1>1, <1>2, Zenon DEF ColumnsWell
  <1>7. \A i \in 1..(m - 1) : ds[i] \in Draft!DraftColumn
    BY <1>5, <1>6, Zenon
  <1>8. ASSUME NEW i \in 1..(m - 1), ds[i].orig # Absent PROVE \E b : Loaded(b) /\ b.name = ds[i].orig
    <2>1. PICK k \in 1..m : ds[i] = cs[k]
      BY <1>5
    <2> QED BY <1>6, <1>8, <2>1, Zenon
  <1>9. ASSUME NEW i \in 1..(m - 1), NEW j \in 1..(m - 1),
               \/ ds[i].orig = ds[j].orig /\ ds[i].orig # Absent
               \/ ds[i].primary /\ ds[j].primary
        PROVE  i = j
    <2>1. PICK k \in 1..m : ds[i] = cs[k] /\ k = (IF i < d THEN i ELSE i + 1)
      BY <1>5
    <2>2. PICK l \in 1..m : ds[j] = cs[l] /\ l = (IF j < d THEN j ELSE j + 1)
      BY <1>5
    <2>3. k = l
      BY <1>6, <1>9, <2>1, <2>2, Zenon
    <2> QED BY <1>3, <2>1, <2>2, <2>3
  <1>10. ColumnsWell(ds)
    BY <1>4, <1>7, <1>8, <1>9, Zenon DEF ColumnsWell
  <1> QED BY <1>2, <1>10, Zenon

LEMMA ColumnsNext ==
  ASSUME ColumnsWell(columns), Draft!Next \/ UNCHANGED draftVars
  PROVE  ColumnsWell(columns')
  <1>1. ASSUME NEW i, Draft!DropColumn(i) \/ (\E n \in Names : Draft!Change(i, "name", n))
                      \/ (\E t \in Types : Draft!Change(i, "type", t))
                      \/ (\E m \in Comments : Draft!Change(i, "comment", m))
                      \/ (\E b \in BOOLEAN : Draft!Change(i, "primary", b))
        PROVE  ColumnsWell(columns')
    BY <1>1, ChangeKeeps, DropKeeps
  <1>2. CASE Draft!AddColumn
    BY <1>2, AddKeeps
  <1>3. ASSUME columns' = columns PROVE ColumnsWell(columns')
    BY <1>3, Zenon
  <1>4. CASE (\E x \in Draft!Index : Draft!AddIndex(x) \/ \E n \in IndexNames : Draft!ReplaceIndex(n, x))
             \/ \E n \in IndexNames : Draft!DropIndex(n)
    BY <1>3, <1>4, Zenon DEF Draft!AddIndex, Draft!ReplaceIndex, Draft!DropIndex
  <1>5. CASE Draft!Discard
    <2>1. columns' = Draft!AsLoaded
      BY <1>5, Zenon DEF Draft!Discard
    <2> QED BY <2>1, LoadedFits, Zenon
  <1>6. CASE UNCHANGED draftVars
    BY <1>3, <1>6 DEF draftVars
  <1> QED BY <1>1, <1>2, <1>4, <1>5, <1>6, Zenon DEF Draft!Next

DraftShown == page = "draft" => IndexInv /\ ColumnsWell(columns)

LEMMA DraftAlways == PagesSpec => []DraftShown
  <1>1. PagesInit => DraftShown
    BY LoadedFits, IndexInit, Zenon DEF PagesInit, DraftShown, Draft!Init
  <1>2. DraftShown /\ [PagesNext]_<<pageVars, viewVars, page>> => DraftShown'
    <2> SUFFICES ASSUME DraftShown, page = "draft", [PagesNext]_<<pageVars, viewVars, page>>
                 PROVE  (IndexInv /\ ColumnsWell(columns))'
      BY OnePageMoves, Zenon DEF DraftShown
    <2>1. IndexInv /\ ColumnsWell(columns)
      BY DEF DraftShown
    <2>2. Draft!Next \/ UNCHANGED draftVars
      BY OnePageMoves
    <2> QED BY <2>1, <2>2, IndexNext, ColumnsNext, Zenon
  <1> QED BY <1>1, <1>2, PTL DEF PagesSpec

\* The operations that a draft of the columns and the indexes of a table is turned into,
\* run in their order, make the structure on the screen.  Where the names of columns cross,
\* the server makes that structure or refuses a step; only where a new key has taken the
\* name of the old one, or an index the name of another, may it be otherwise
\* (schemaDraft.ts 10-53, indexOps.ts 4-50).
THEOREM DraftsBecomeShown == PagesSpec => []DraftBecomesShown
  <1>1. DraftShown => DraftBecomesShown
    BY ColumnsShown, IndexesShown, Zenon DEF DraftShown, DraftBecomesShown, Draft!DraftBecomesShown
  <1> QED BY <1>1, DraftAlways, PTL

=============================================================================
