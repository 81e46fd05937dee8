--------------------------- MODULE ClientProofs ---------------------------
(***************************************************************************)
(* Proofs about the web client.                                            *)
(*                                                                         *)
(* ApiSession: a call is executed at most once and a restart of the server *)
(* is never seen by its caller, requests share one creation and nobody     *)
(* waits for one that has settled, for any number of calls, creations and  *)
(* restarts.                                                               *)
(*                                                                         *)
(* The pages and views (MCPages): for any connections, files, users,       *)
(* teams, tables and values and any number of clicks, what the logs page   *)
(* tails and imports, which credentials a connection gets, what a save of  *)
(* the settings does, which rows a draft of table data changes, and what   *)
(* the tree of Redis keys holds.                                           *)
(***************************************************************************)
EXTENDS ApiSession, MCPages, Ordering, FiniteSetTheorems, WellFoundedInduction, TLAPS

-----------------------------------------------------------------------------
(* Sequences, and finite sets of numbers in their order.                   *)

\* A sequence, whatever its elements are.
IsSequence(s) == \E S : s \in Seq(S)

\* A larger number has a larger rank.
LEMMA RankIsStrict ==
  ASSUME NEW S, IsFiniteSet(S), S \subseteq Nat, NEW i \in S, NEW j \in S, i < j
  PROVE  /\ Rank(i, S) \in 1..Cardinality(S) /\ Rank(j, S) \in 1..Cardinality(S)
         /\ Rank(i, S) < Rank(j, S)
  <1> DEFINE A == {k \in S : k <= i}  B == {k \in S : k <= j}
  <1>0. i \in Nat /\ j \in Nat /\ i \in A /\ j \in B /\ j \notin A
    OBVIOUS
  <1>1. A \in SUBSET B /\ A # B /\ B \in SUBSET S /\ A \in SUBSET S
    <2>1. \A k \in S : k <= i => k <= j
      BY <1>0
    <2> QED BY <1>0, <2>1
  <1> HIDE DEF A, B
  <1>2. IsFiniteSet(A) /\ IsFiniteSet(B) /\ Cardinality(A) <= Cardinality(S) /\ Cardinality(B) <= Cardinality(S)
    BY <1>1, FS_Subset
  <1>3. Cardinality(A) <= Cardinality(B) /\ Cardinality(A) # Cardinality(B)
    BY <1>1, <1>2, FS_Subset
  <1>4. Cardinality(A) \in Nat /\ Cardinality(B) \in Nat /\ Cardinality(S) \in Nat
    BY <1>2, FS_CardinalityType
  <1>5. Cardinality(A) # 0 /\ Cardinality(B) # 0
    BY <1>0, <1>2, FS_EmptySet
  <1>6. Rank(i, S) = Cardinality(A) /\ Rank(j, S) = Cardinality(B)
    BY DEF Rank, A, B
  <1> QED BY <1>2, <1>3, <1>4, <1>5, <1>6

LEMMA RankInRange ==
  ASSUME NEW S, IsFiniteSet(S), S \subseteq Nat, NEW i \in S
  PROVE  Rank(i, S) \in 1..Cardinality(S)
  <1> DEFINE A == {k \in S : k <= i}
  <1>0. i \in A /\ A \in SUBSET S
    OBVIOUS
  <1> HIDE DEF A
  <1>1. IsFiniteSet(A) /\ Cardinality(A) <= Cardinality(S)
    BY <1>0, FS_Subset
  <1>2. Cardinality(A) \in Nat /\ Cardinality(S) \in Nat /\ Cardinality(A) # 0
    BY <1>0, <1>1, FS_CardinalityType, FS_EmptySet
  <1>3. Rank(i, S) = Cardinality(A)
    BY DEF Rank, A
  <1> QED BY <1>1, <1>2, <1>3

\* Every place up to the size of the set is the rank of one of its numbers.
LEMMA RankIsOnto ==
  ASSUME NEW S, IsFiniteSet(S), S \subseteq Nat, NEW n \in 1..Cardinality(S)
  PROVE  \E i \in S : Rank(i, S) = n
  <1> DEFINE T == 1..Cardinality(S)  f == [i \in S |-> Rank(i, S)]
  <1>0. Cardinality(S) \in Nat
    BY FS_CardinalityType
  <1>1. IsFiniteSet(T) /\ Cardinality(T) = Cardinality(S)
    BY <1>0, FS_Interval
  <1>2. f \in [S -> T]
    BY RankInRange
  <1>3. \A i, j \in S : f[i] = f[j] => i = j
    <2> SUFFICES ASSUME NEW i \in S, NEW j \in S, i # j PROVE f[i] # f[j]
      OBVIOUS
    <2>1. i < j \/ j < i
      OBVIOUS
    <2>2. Rank(i, S) < Rank(j, S) \/ Rank(j, S) < Rank(i, S)
      BY <2>1, RankIsStrict
    <2>3. Rank(i, S) \in 1..Cardinality(S) /\ Rank(j, S) \in 1..Cardinality(S)
      BY RankInRange
    <2>4. Rank(i, S) # Rank(j, S)
      BY <1>0, <2>2, <2>3
    <2> QED BY <2>4
  <1> HIDE DEF T
  <1>4. f \in Injection(S, T)
    <2> HIDE DEF f
    <2> QED BY <1>2, <1>3 DEF Injection, IsInjective
  <1>5. f \in Surjection(S, T)
    BY <1>1, <1>4, FS_Injection
  <1>6. n \in T
    BY DEF T
  <1>7. \E i \in S : f[i] = n
    <2> HIDE DEF f
    <2> QED BY <1>5, <1>6 DEF Surjection
  <1> QED BY <1>7

\* InOrder goes through the set, each number once and the smaller ones first.
LEMMA InOrderEnumerates ==
  ASSUME NEW S, IsFiniteSet(S), S \subseteq Nat
  PROVE  /\ Cardinality(S) \in Nat /\ InOrder(S) \in [1..Cardinality(S) -> S]
         /\ \A m, n \in 1..Cardinality(S) : m < n => InOrder(S)[m] < InOrder(S)[n]
         /\ \A i \in S : \E n \in 1..Cardinality(S) : InOrder(S)[n] = i
  <1>0. Cardinality(S) \in Nat
    BY FS_CardinalityType
  <1>1. \A n \in 1..Cardinality(S) : InOrder(S)[n] \in S /\ Rank(InOrder(S)[n], S) = n
    <2> SUFFICES ASSUME NEW n \in 1..Cardinality(S)
                 PROVE  InOrder(S)[n] \in S /\ Rank(InOrder(S)[n], S) = n
      OBVIOUS
    <2>1. \E i \in S : Rank(i, S) = n
      BY RankIsOnto
    <2>2. InOrder(S)[n] = CHOOSE i \in S : Rank(i, S) = n
      BY DEF InOrder
    <2> QED BY <2>1, <2>2, Zenon
  <1>2. DOMAIN InOrder(S) = 1..Cardinality(S) /\ InOrder(S) = [n \in 1..Cardinality(S) |-> InOrder(S)[n]]
    BY DEF InOrder
  <1>3. InOrder(S) \in [1..Cardinality(S) -> S]
    BY <1>1, <1>2
  <1>4. ASSUME NEW m \in 1..Cardinality(S), NEW n \in 1..Cardinality(S), m < n
        PROVE  InOrder(S)[m] < InOrder(S)[n]
    <2> DEFINE a == InOrder(S)[m]  b == InOrder(S)[n]
    <2>1. a \in S /\ b \in S /\ a \in Nat /\ b \in Nat /\ Rank(a, S) = m /\ Rank(b, S) = n
      BY <1>1
    <2> HIDE DEF a, b
    <2>2. a # b
      BY <1>4, <2>1
    <2>3. b < a => Rank(b, S) < Rank(a, S)
      BY <2>1, RankIsStrict
    <2>4. a < b
      BY <1>0, <1>4, <2>1, <2>2, <2>3
    <2> QED BY <2>4 DEF a, b
  <1>5. ASSUME NEW i \in S
        PROVE  \E n \in 1..Cardinality(S) : InOrder(S)[n] = i
    <2> DEFINE n == Rank(i, S)  a == InOrder(S)[n]
    <2>1. n \in 1..Cardinality(S) /\ n = Rank(i, S)
      BY RankInRange
    <2>2. a \in S /\ Rank(a, S) = n
      BY <1>1, <2>1
    <2> HIDE DEF a
    <2>3. a < i \/ i < a \/ a = i
      BY <2>2
    <2>4. a < i => Rank(a, S) < Rank(i, S)
      BY <2>2, RankIsStrict
    <2>5. i < a => Rank(i, S) < Rank(a, S)
      BY <2>2, RankIsStrict
    <2> HIDE DEF n
    <2>6. n \in Nat /\ ~(n < n)
      BY <1>0, <2>1
    <2>7. ~(a < i) /\ ~(i < a)
      BY <2>1, <2>2, <2>4, <2>5, <2>6
    <2> QED BY <2>1, <2>3, <2>7 DEF a
  <1> QED BY <1>0, <1>3, <1>4, <1>5

LEMMA SettingsInOrder == \A S : Settings!InOrder(S) = InOrder(S)
  BY DEF Settings!InOrder, InOrder, Settings!Rank, Rank, Settings!Cardinality, Cardinality, Settings!IsFiniteSet, IsFiniteSet

LEMMA DataInOrder == \A S : Data!InOrder(S) = InOrder(S)
  BY DEF Data!InOrder, InOrder, Data!Rank, Rank, Data!Cardinality, Cardinality, Data!IsFiniteSet, IsFiniteSet

LEMMA OneIsSequence ==
  ASSUME NEW a
  PROVE  IsSequence(<<a>>) /\ Len(<<a>>) = 1 /\ <<a>>[1] = a
  <1>1. <<a>> \in Seq({a})
    OBVIOUS
  <1> QED BY <1>1 DEF IsSequence

LEMMA JoinIsSequence ==
  ASSUME NEW s, NEW t, IsSequence(s), IsSequence(t)
  PROVE  /\ IsSequence(s \o t) /\ Len(s) \in Nat /\ Len(t) \in Nat /\ Len(s \o t) = Len(s) + Len(t)
         /\ \A i \in 1..Len(s) : (s \o t)[i] = s[i]
         /\ \A i \in 1..Len(t) : (s \o t)[Len(s) + i] = t[i]
         /\ \A i \in 1..Len(s \o t) : \/ i \in 1..Len(s) /\ (s \o t)[i] = s[i]
                                     \/ \E k \in 1..Len(t) : i = Len(s) + k /\ (s \o t)[i] = t[k]
  <1>1. PICK S, T : s \in Seq(S) /\ t \in Seq(T)
    BY DEF IsSequence
  <1>2. s \in Seq(S \cup T) /\ t \in Seq(S \cup T)
    BY <1>1
  <1>3. s \o t \in Seq(S \cup T) /\ Len(s) \in Nat /\ Len(t) \in Nat /\ Len(s \o t) = Len(s) + Len(t)
    BY <1>2
  <1>4. \A i \in 1..Len(s \o t) : (s \o t)[i] = IF i <= Len(s) THEN s[i] ELSE t[i - Len(s)]
    BY <1>2
  <1>5. \A i \in 1..Len(s) : (s \o t)[i] = s[i]
    BY <1>3, <1>4
  <1>6. \A i \in 1..Len(t) : (s \o t)[Len(s) + i] = t[i]
    <2> SUFFICES ASSUME NEW i \in 1..Len(t) PROVE (s \o t)[Len(s) + i] = t[i]
      OBVIOUS
    <2>1. Len(s) + i \in 1..Len(s \o t) /\ ~(Len(s) + i <= Len(s)) /\ (Len(s) + i) - Len(s) = i
      BY <1>3
    <2> QED BY <1>4, <2>1
  <1>7. \A i \in 1..Len(s \o t) : i \in 1..Len(s) \/ (i - Len(s) \in 1..Len(t) /\ i = Len(s) + (i - Len(s)))
    BY <1>3
  <1> QED BY <1>3, <1>5, <1>6, <1>7 DEF IsSequence

LEMMA JoinElements ==
  ASSUME NEW s, NEW t, IsSequence(s), IsSequence(t), NEW E,
         \A i \in 1..Len(s) : s[i] \in E, \A i \in 1..Len(t) : t[i] \in E
  PROVE  /\ IsSequence(s \o t) /\ Len(s) \in Nat /\ Len(t) \in Nat /\ Len(s \o t) = Len(s) + Len(t)
         /\ \A i \in 1..Len(s \o t) : (s \o t)[i] \in E
  <1>1. /\ IsSequence(s \o t) /\ Len(s) \in Nat /\ Len(t) \in Nat /\ Len(s \o t) = Len(s) + Len(t)
        /\ \A i \in 1..Len(s \o t) : \/ i \in 1..Len(s) /\ (s \o t)[i] = s[i]
                                     \/ \E k \in 1..Len(t) : i = Len(s) + k /\ (s \o t)[i] = t[k]
    BY JoinIsSequence
  <1> QED BY <1>1, Zenon

LEMMA TailIsSequence ==
  ASSUME NEW s, IsSequence(s), Len(s) >= 1
  PROVE  /\ Len(s) \in Nat /\ Head(s) = s[1] /\ IsSequence(Tail(s)) /\ Len(Tail(s)) = Len(s) - 1
         /\ \A i \in 1..Len(Tail(s)) : i + 1 \in 1..Len(s) /\ Tail(s)[i] = s[i + 1]
  <1>1. PICK S : s \in Seq(S)
    BY DEF IsSequence
  <1>2. s # <<>> /\ Len(s) \in Nat
    BY <1>1
  <1>3. Tail(s) \in Seq(S) /\ Len(Tail(s)) = Len(s) - 1 /\ Head(s) = s[1]
    BY <1>1, <1>2
  <1>4. \A i \in 1..Len(Tail(s)) : i + 1 \in 1..Len(s) /\ Tail(s)[i] = s[i + 1]
    BY <1>1, <1>2, <1>3
  <1> QED BY <1>2, <1>3, <1>4 DEF IsSequence

-----------------------------------------------------------------------------
(* ApiSession: the inductive invariant.                                    *)

Creation == [st : Pending \cup {"unused", "settled"}, tries : 0..Attempts, sid : Nat \cup {None}]
CallState == [pc : {"idle", "join", "sent", "reading"} \cup Ended, on : Creations \cup {None}, retried : BOOLEAN]
Message == [msg : {"none", "call"} \cup Answers, sid : Nat \cup {None}]

ApiTypes ==
  /\ sessionReady \in Creations \cup {None}
  /\ prom \in [Creations -> Creation]
  /\ req \in [Requests -> CallState]
  /\ net \in [Requests -> Message]
  /\ last \in Nat
  /\ executed \in [Requests -> Nat]
  /\ restarts \in 0..MaxRestarts

\* The answer to a creation carries a session the server has made, or none.
Carries(c, n) ==
  /\ c.st = "created" => c.sid \in 1..n
  /\ c.sid # None => c.st \in {"created", "reading"} /\ c.sid \in 1..n

\* Every session in the client's hands or on its way was made by the server, and
\* the server knows all it has made until it is restarted.
Sessions ==
  /\ valid \subseteq 1..last
  /\ restarts = 0 => valid = 1..last
  /\ sessionId \in (1..last) \cup {None}
  /\ \A p \in Creations : Carries(prom[p], last)
  /\ \A r \in Requests : IF net[r].msg = "call" THEN net[r].sid \in 1..last
                                                ELSE net[r].sid = None

\* The tries that may have made a session: of each creation those that have failed,
\* and the current one when it was answered or is over.
Tried == {pk \in Creations \X (0..2) :
            \/ pk[2] < prom[pk[1]].tries
            \/ pk[2] = prom[pk[1]].tries /\ prom[pk[1]].st \in {"created", "reading", "settled"}}

\* A try makes one session at most.
Counted ==
  /\ last <= Cardinality(Tried)
  /\ \A p \in Creations : prom[p].st # "settled" => prom[p].tries < Attempts

\* A call that has not been sent, or has been rejected, was not executed.
Unserved(r) ==
  /\ req[r].pc \in {"idle", "join"} => net[r].msg = "none" /\ executed[r] = 0
  /\ net[r].msg \in {"call", "invalid"} => executed[r] = 0
  /\ executed[r] <= 1

\* Only a restart makes the server reject a call; while there has been one restart,
\* a call that is repeated has a session from after it.
Repeated(r) ==
  /\ net[r].msg = "invalid" \/ req[r].retried => restarts > 0
  /\ req[r].retried /\ restarts = 1 =>
       /\ req[r].pc = "join" /\ prom[req[r].on].sid # None => prom[req[r].on].sid \in valid
       /\ net[r].msg = "call" => net[r].sid \in valid
       /\ net[r].msg # "invalid" /\ req[r].pc # "invalid"
  /\ req[r].pc = "invalid" => req[r].retried
  /\ req[r].pc = "idle" => ~req[r].retried

Waits(r) == req[r].pc = "join" => req[r].on \in Creations /\ prom[req[r].on].st \in Pending

\* The creation that callers find is under way, and before the first restart it is
\* the only one.
Shared ==
  /\ sessionReady # None => prom[sessionReady].st \in Pending
  /\ restarts = 0 => \A p \in Creations : prom[p].st \in Pending => p = sessionReady

ApiInv ==
  /\ ApiTypes /\ Sessions /\ Counted /\ Shared
  /\ \A r \in Requests : Unserved(r) /\ Repeated(r) /\ Waits(r)

\* A set of natural numbers that is not empty has a least one.
LEMMA LeastNumber ==
  ASSUME NEW T, T \subseteq Nat, T # {}
  PROVE  \E x \in T : \A y \in T : x <= y
  <1> DEFINE R == {ss \in Nat \X Nat : ss[1] < ss[2]}
  <1>1. IsWellFoundedOn(R, Nat)
    BY NatLessThanWellFounded DEF OpToRel
  <1>2. PICK x \in T : \A y \in T : ~ (<<y, x>> \in R)
    <2> HIDE DEF R
    <2> QED BY <1>1, WFMin
  <1>3. ASSUME NEW y \in T PROVE x <= y
    <2>1. x \in Nat /\ y \in Nat /\ <<y, x>> \notin R
      BY <1>2
    <2>2. ~ (y < x)
      BY <2>1
    <2> QED BY <2>1, <2>2
  <1> QED BY <1>3

\* createSession takes a creation that has not been used.
LEMMA NextIsUnused ==
  ASSUME Unused # {}
  PROVE  NextCreation \in Creations /\ prom[NextCreation].st = "unused"
  <1>1. Unused \subseteq Nat
    BY BoundAssumption DEF Unused, Creations
  <1>2. \E x \in Unused : \A y \in Unused : x <= y
    BY <1>1, LeastNumber
  <1> QED BY <1>2 DEF NextCreation, Unused

\* Sets of tries are finite, with at most three for each creation.
LEMMA TriesAreFinite ==
  ASSUME NEW S, S \subseteq Creations \X (0..2)
  PROVE  /\ IsFiniteSet(S) /\ Cardinality(S) \in Nat
         /\ Cardinality(S) <= Attempts * MaxCreations
         /\ \A T \in SUBSET S : Cardinality(T) \in Nat /\ Cardinality(T) <= Cardinality(S)
         /\ \A x \in S : Cardinality(S \ {x}) = Cardinality(S) - 1
  <1>1. IsFiniteSet(Creations) /\ Cardinality(Creations) = MaxCreations
    <2>1. MaxCreations \in Nat /\ MaxCreations \in Int /\ 1 \in Int
      BY BoundAssumption
    <2>2. /\ IsFiniteSet(1..MaxCreations)
          /\ Cardinality(1..MaxCreations) = IF 1 > MaxCreations THEN 0 ELSE MaxCreations - 1 + 1
      BY <2>1, FS_Interval
    <2> QED BY <2>1, <2>2 DEF Creations
  <1>2. IsFiniteSet(0..2) /\ Cardinality(0..2) = 3
    <2>1. IsFiniteSet(0..2) /\ Cardinality(0..2) = IF 0 > 2 THEN 0 ELSE 2 - 0 + 1
      BY FS_Interval, 0 \in Int, 2 \in Int
    <2> QED BY <2>1
  <1>3. /\ IsFiniteSet(Creations \X (0..2))
        /\ Cardinality(Creations \X (0..2)) = MaxCreations * 3
    BY <1>1, <1>2, FS_Product
  <1>4. IsFiniteSet(S) /\ Cardinality(S) <= MaxCreations * 3
    BY <1>3, FS_Subset
  <1>5. Cardinality(S) \in Nat
    BY <1>4, FS_CardinalityType
  <1>6. ASSUME NEW T \in SUBSET S PROVE Cardinality(T) \in Nat /\ Cardinality(T) <= Cardinality(S)
    BY <1>4, FS_Subset, FS_CardinalityType
  <1>7. \A x \in S : Cardinality(S \ {x}) = Cardinality(S) - 1
    BY <1>4, FS_RemoveElement
  <1> QED BY <1>4, <1>5, <1>6, <1>7, BoundAssumption DEF Attempts

\* The page starts without a session and without a call.
LEMMA InitIInv == Init => ApiInv
  <1> SUFFICES ASSUME Init PROVE ApiInv
    OBVIOUS
  <1> USE NoneAssumption, BoundAssumption DEF Init
  <1>1. ApiTypes
    BY DEF ApiTypes, Creation, CallState, Message, Nothing, Pending, Ended, Attempts
  <1>2. Sessions
    BY DEF Sessions, Carries, Nothing
  <1>3. Counted
    <2>1. Cardinality(Tried) \in Nat
      BY TriesAreFinite DEF Tried
    <2> QED BY <2>1 DEF Counted, Attempts
  <1>4. Shared
    BY DEF Shared, Pending
  <1>5. \A r \in Requests : Unserved(r) /\ Repeated(r) /\ Waits(r)
    BY DEF Unserved, Repeated, Waits, Nothing
  <1> QED BY <1>1, <1>2, <1>3, <1>4, <1>5 DEF ApiInv

\* The types of the parts.
LEMMA Parts ==
  ASSUME ApiInv
  PROVE  /\ \A p \in Creations : prom[p] \in Creation
         /\ \A r \in Requests : req[r] \in CallState /\ net[r] \in Message /\ executed[r] \in Nat
         /\ last \in Nat /\ restarts \in Nat /\ Creations \subseteq Nat /\ None \notin Creations
         /\ 1..last \subseteq Nat
  BY NoneAssumption, BoundAssumption DEF ApiInv, ApiTypes, Creations

\* No session is made and no try is taken back: the count stays good.
LEMMA CountStays ==
  ASSUME ApiInv, last' = last, Tried \subseteq Tried',
         \A p \in Creations : prom'[p].st # "settled" => prom'[p].tries < Attempts
  PROVE  Counted'
  <1>1. Tried' \subseteq Creations \X (0..2)
    BY DEF Tried
  <1>2. Cardinality(Tried) <= Cardinality(Tried') /\ Cardinality(Tried) \in Nat
        /\ Cardinality(Tried') \in Nat
    BY <1>1, TriesAreFinite
  <1>3. last <= Cardinality(Tried) /\ last \in Nat
    BY DEF ApiInv, Counted, ApiTypes
  <1>4. last' <= Cardinality(Tried')
    BY <1>2, <1>3
  <1> QED BY <1>4 DEF Counted

\* createSession: what is under way is shared, or a creation that was unused starts.
LEMMA Created ==
  ASSUME ApiInv, NEW r \in Requests, NEW ready \in {sessionReady, None}, NEW again \in BOOLEAN,
         CreateSession(r, ready, again)
  PROVE  /\ req' = [req EXCEPT ![r] = [pc |-> "join", on |-> sessionReady', retried |-> again]]
         /\ sessionReady' \in Creations
         /\ \/ sessionReady' = sessionReady /\ prom' = prom /\ prom[sessionReady].st \in Pending
            \/ /\ prom[sessionReady'].st = "unused" /\ ready = None
               /\ prom' = [prom EXCEPT ![sessionReady'].st = "posting"]
  <1>1. CASE ready # None
    BY <1>1 DEF CreateSession, ApiInv, Shared, ApiTypes
  <1>2. CASE ready = None
    BY <1>2, NextIsUnused DEF CreateSession
  <1> QED BY <1>1, <1>2

\* A call that joins a creation keeps the invariant: for the first time, or again
\* after it was rejected.
LEMMA JoinKeeps ==
  ASSUME ApiInv, NEW r \in Requests, NEW ready \in {sessionReady, None}, NEW again \in BOOLEAN,
         CreateSession(r, ready, again), UNCHANGED <<valid, last, executed, restarts>>,
         sessionId' \in {sessionId, None}, net' = [net EXCEPT ![r] = Nothing],
         executed[r] = 0, again => restarts > 0 /\ ready = None,
         ready = sessionReady \/ restarts > 0
  PROVE  ApiInv'
  <1> DEFINE c == sessionReady'
  <1>1. /\ req' = [req EXCEPT ![r] = [pc |-> "join", on |-> c, retried |-> again]]
        /\ c \in Creations
        /\ \/ c = sessionReady /\ prom' = prom /\ prom[c].st \in Pending
           \/ /\ prom[c].st = "unused" /\ ready = None
              /\ prom' = [prom EXCEPT ![c].st = "posting"]
    BY Created
  <1>2. again => prom[c].st = "unused" /\ prom' = [prom EXCEPT ![c].st = "posting"]
    <2>1. CASE again
      BY <2>1, NextIsUnused DEF CreateSession
    <2> QED BY <2>1
  <1> HIDE DEF c
  <1>3. /\ req'[r] = [pc |-> "join", on |-> c, retried |-> again]
        /\ net'[r] = Nothing
        /\ \A x \in Requests : x # r => req'[x] = req[x] /\ net'[x] = net[x]
    BY <1>1 DEF ApiInv, ApiTypes
  <1>4. /\ \A p \in Creations : p # c => prom'[p] = prom[p]
        /\ prom'[c].st \in Pending /\ prom'[c].tries = prom[c].tries /\ prom'[c].sid = prom[c].sid
        /\ prom[c].st \in Pending \cup {"unused"}
        /\ prom'[c] = prom[c] \/ (prom'[c].st = "posting" /\ prom[c].sid = None)
        /\ prom[c].st \in {"created", "reading"} => prom'[c] = prom[c]
    <2>1. prom[c] \in Creation /\ prom \in [Creations -> Creation]
      BY <1>1 DEF ApiInv, ApiTypes
    <2>2. prom[c].st = "unused" => prom[c].sid = None
      BY <1>1 DEF ApiInv, Sessions, Carries
    <2> QED BY <1>1, <2>1, <2>2 DEF Creation, Pending
  <1>5. ApiTypes'
    <2>1. req' \in [Requests -> CallState] /\ net' \in [Requests -> Message]
      BY <1>1 DEF ApiInv, ApiTypes, CallState, Message, Nothing
    <2>2. prom' \in [Creations -> Creation]
      BY <1>1 DEF ApiInv, ApiTypes, Creation, Pending
    <2> QED BY <1>1, <2>1, <2>2 DEF ApiInv, ApiTypes, c
  <1>6. Sessions'
    <2>1. \A p \in Creations : Carries(prom'[p], last)
      BY <1>4 DEF ApiInv, Sessions, Carries
    <2>2. \A x \in Requests : IF net'[x].msg = "call" THEN net'[x].sid \in 1..last
                                                      ELSE net'[x].sid = None
      BY <1>3 DEF ApiInv, Sessions, Nothing
    <2> QED BY <2>1, <2>2 DEF ApiInv, Sessions
  <1>7. Counted'
    <2>1. Tried \subseteq Tried'
      BY <1>4, Parts DEF Tried, Pending
    <2>2. \A p \in Creations : prom'[p].st # "settled" => prom'[p].tries < Attempts
      BY <1>4 DEF ApiInv, Counted, Pending
    <2> QED BY <2>1, <2>2, CountStays
  <1>8. Shared'
    <2>1. restarts = 0 => \A p \in Creations : prom[p].st \in Pending => p = c
      BY <1>1, Parts DEF ApiInv, Shared
    <2> QED BY <1>1, <1>4, <2>1 DEF Shared, c
  <1>9. ASSUME NEW x \in Requests PROVE Unserved(x)' /\ Repeated(x)' /\ Waits(x)'
    <2>0. Unserved(x) /\ Repeated(x) /\ Waits(x)
      BY DEF ApiInv
    <2>1. CASE x = r
      <3>1. Unserved(x)'
        BY <1>3, <2>1 DEF Unserved, Nothing
      <3>2. Repeated(x)'
        BY <1>2, <1>3, <1>4, <2>1, Parts DEF Repeated, Nothing, Pending
      <3>3. Waits(x)'
        BY <1>1, <1>3, <1>4, <2>1 DEF Waits
      <3> QED BY <3>1, <3>2, <3>3
    <2>2. CASE x # r
      <3>1. Unserved(x)'
        BY <1>3, <2>0, <2>2 DEF Unserved
      <3>2. Waits(x)'
        BY <1>1, <1>3, <1>4, <2>0, <2>2 DEF Waits
      <3>3. Repeated(x)'
        BY <1>3, <1>4, <2>0, <2>2 DEF Repeated, Waits
      <3> QED BY <3>1, <3>2, <3>3
    <2> QED BY <2>1, <2>2
  <1> QED BY <1>5, <1>6, <1>7, <1>8, <1>9 DEF ApiInv

\* A step of one call that leaves session and creations alone.
LEMMA CallKeeps ==
  ASSUME ApiInv, NEW r \in Requests, NEW q \in CallState, NEW m \in Message, NEW n \in Nat,
         req' = [req EXCEPT ![r] = q], net' = [net EXCEPT ![r] = m],
         executed' = [executed EXCEPT ![r] = n],
         UNCHANGED <<sessionId, sessionReady, prom, valid, last, restarts>>,
         IF m.msg = "call" THEN m.sid \in 1..last ELSE m.sid = None,
         Unserved(r)', Repeated(r)', Waits(r)'
  PROVE  ApiInv'
  <1>1. /\ req'[r] = q /\ net'[r] = m
        /\ \A x \in Requests : x # r => /\ req'[x] = req[x] /\ net'[x] = net[x]
                                        /\ executed'[x] = executed[x]
    BY DEF ApiInv, ApiTypes
  <1>2. ApiTypes'
    BY DEF ApiInv, ApiTypes
  <1>3. Sessions'
    BY <1>1 DEF ApiInv, Sessions
  <1>4. Counted' /\ Shared'
    BY DEF ApiInv, Counted, Shared, Tried
  <1>5. ASSUME NEW x \in Requests PROVE Unserved(x)' /\ Repeated(x)' /\ Waits(x)'
    <2>1. CASE x # r
      <3>1. Unserved(x) /\ Repeated(x) /\ Waits(x) /\ req'[x] = req[x] /\ net'[x] = net[x]
            /\ executed'[x] = executed[x]
        BY <1>1, <2>1 DEF ApiInv
      <3> QED BY <3>1 DEF Unserved, Repeated, Waits
    <2> QED BY <2>1
  <1> QED BY <1>2, <1>3, <1>4, <1>5 DEF ApiInv

\* A call on its way carries its session.
LEMMA CallMessage ==
  \A s : /\ CallWith(s).msg = "call" /\ CallWith(s).sid = s
         /\ s \in Nat => CallWith(s) \in Message
  BY DEF CallWith, Message

\* A creation settles: the callers that wait for it go on, with its session or with
\* an error, and the next caller does not find it.
LEMMA SettleKeeps ==
  ASSUME ApiInv, NEW p \in Creations, prom[p].st \in Pending,
         sessionReady' = None,
         prom' = [prom EXCEPT ![p] = [@ EXCEPT !.st = "settled", !.sid = None]],
         NEW pc \in {"sent", "failed"},
         req' = [r \in Requests |-> IF req[r].pc = "join" /\ req[r].on = p
                                    THEN [req[r] EXCEPT !.pc = pc, !.on = None] ELSE req[r]],
         \/ pc = "failed" /\ UNCHANGED <<sessionId, net>>
         \/ /\ pc = "sent" /\ prom[p].sid # None /\ sessionId' = prom[p].sid
            /\ net' = [r \in Requests |-> IF req[r].pc = "join" /\ req[r].on = p
                                          THEN CallWith(prom[p].sid) ELSE net[r]],
         UNCHANGED <<valid, last, executed, restarts>>
  PROVE  ApiInv'
  <1> DEFINE waits(r) == req[r].pc = "join" /\ req[r].on = p
  <1>t. /\ prom[p] \in Creation /\ \A r \in Requests : req[r] \in CallState /\ net[r] \in Message
        /\ last \in Nat /\ restarts \in Nat
        /\ pc = "sent" => /\ prom[p].sid # None /\ prom[p].sid \in 1..last
                          /\ prom[p].sid \in Nat
    <2>1. pc = "sent" => prom[p].sid # None
      OBVIOUS
    <2>2. prom[p].sid # None => prom[p].sid \in 1..last
      BY DEF ApiInv, Sessions, Carries
    <2>3. /\ prom[p] \in Creation /\ \A r \in Requests : req[r] \in CallState /\ net[r] \in Message
          /\ last \in Nat /\ restarts \in Nat
      BY Parts
    <2>4. prom[p].sid \in 1..last => prom[p].sid \in Nat
      BY Parts
    <2> QED BY <2>1, <2>2, <2>3, <2>4
  <1>1. /\ prom'[p].st = "settled" /\ prom'[p].sid = None /\ prom'[p].tries = prom[p].tries
        /\ \A x \in Creations : x # p => prom'[x] = prom[x]
        /\ prom'[p] \in Creation
    BY <1>t DEF ApiInv, ApiTypes, Creation
  <1>2. ASSUME NEW r \in Requests
        PROVE  /\ ~waits(r) => req'[r] = req[r] /\ net'[r] = net[r]
               /\ waits(r) => /\ req'[r].pc = pc /\ req'[r].retried = req[r].retried
                              /\ req'[r].on = None
                              /\ IF pc = "sent" THEN net'[r] = CallWith(prom[p].sid)
                                                ELSE net'[r] = net[r]
               /\ req'[r] \in CallState /\ net'[r] \in Message
    <2>1. req'[r] = IF waits(r) THEN [req[r] EXCEPT !.pc = pc, !.on = None] ELSE req[r]
      OBVIOUS
    <2>2. net'[r] = IF waits(r) /\ pc = "sent" THEN CallWith(prom[p].sid) ELSE net[r]
      OBVIOUS
    <2>3. pc = "sent" => CallWith(prom[p].sid) \in Message
      BY <1>t, CallMessage
    <2> HIDE DEF waits
    <2> QED BY <1>t, <2>1, <2>2, <2>3 DEF CallState, Ended
  <1>3. ApiTypes'
    <2>1. prom' \in [Creations -> Creation]
      BY <1>1 DEF ApiInv, ApiTypes
    <2>2. req' \in [Requests -> CallState]
      BY <1>2
    <2>3. net' \in [Requests -> Message]
      BY <1>2 DEF ApiInv, ApiTypes
    <2> QED BY <2>1, <2>2, <2>3 DEF ApiInv, ApiTypes
  <1>4. Sessions'
    <2>1. \A x \in Creations : Carries(prom'[x], last)
      BY <1>1 DEF ApiInv, Sessions, Carries
    <2>2. \A r \in Requests : IF net'[r].msg = "call" THEN net'[r].sid \in 1..last
                                                      ELSE net'[r].sid = None
      <3> SUFFICES ASSUME NEW r \in Requests
                   PROVE  IF net'[r].msg = "call" THEN net'[r].sid \in 1..last
                                                  ELSE net'[r].sid = None
        OBVIOUS
      <3>1. CASE net'[r] = net[r]
        BY <3>1 DEF ApiInv, Sessions
      <3>2. CASE net'[r] = CallWith(prom[p].sid) /\ pc = "sent"
        BY <1>t, <3>2, CallMessage
      <3> QED BY <1>2, <3>1, <3>2
    <2>3. sessionId' \in (1..last) \cup {None}
      BY <1>t DEF ApiInv, Sessions
    <2> QED BY <2>1, <2>2, <2>3 DEF ApiInv, Sessions
  <1>5. Counted'
    <2>1. Tried \subseteq Tried'
      BY <1>1, Parts DEF Tried
    <2>2. \A x \in Creations : prom'[x].st # "settled" => prom'[x].tries < Attempts
      BY <1>1 DEF ApiInv, Counted
    <2> QED BY <2>1, <2>2, CountStays
  <1>6. Shared'
    <2>1. restarts = 0 => \A x \in Creations : x # p => prom[x].st \notin Pending
      BY DEF ApiInv, Shared
    <2> QED BY <1>1, <2>1 DEF Shared, Pending
  <1>7. ASSUME NEW r \in Requests PROVE Unserved(r)' /\ Repeated(r)' /\ Waits(r)'
    <2>0. Unserved(r) /\ Repeated(r) /\ Waits(r)
      BY DEF ApiInv
    <2>1. CASE ~waits(r)
      <3>1. req'[r] = req[r] /\ net'[r] = net[r]
        BY <1>2, <2>1
      <3>2. Unserved(r)'
        BY <2>0, <3>1 DEF Unserved
      <3>3. req[r].pc = "join" => prom'[req[r].on] = prom[req[r].on]
        BY <1>1, <2>0, <2>1 DEF Waits
      <3>4. Waits(r)'
        BY <2>0, <3>1, <3>3 DEF Waits
      <3>5. Repeated(r)'
        <4>1. restarts' = restarts /\ valid' = valid
          OBVIOUS
        <4>2. CASE req[r].pc = "join"
          BY <2>0, <3>1, <3>3, <4>1, <4>2 DEF Repeated
        <4>3. CASE req[r].pc # "join"
          BY <2>0, <3>1, <4>1, <4>3 DEF Repeated
        <4> QED BY <4>2, <4>3
      <3> QED BY <3>2, <3>4, <3>5
    <2>2. CASE waits(r)
      <3>1. Unserved(r)'
        BY <1>2, <2>0, <2>2 DEF Unserved, CallWith
      <3>2. Waits(r)'
        BY <1>2, <2>2 DEF Waits
      <3>3. Repeated(r)'
        <4>1. restarts' = restarts /\ valid' = valid
          OBVIOUS
        <4>2. /\ req[r].pc = "join" /\ req[r].on = p /\ net[r].msg = "none"
              /\ req'[r].pc = pc /\ req'[r].retried = req[r].retried
          BY <1>2, <2>0, <2>2 DEF Unserved
        <4>3. CASE pc = "sent"
          <5>1. net'[r].msg = "call" /\ net'[r].sid = prom[p].sid /\ prom[p].sid # None
            <6>1. net'[r] = CallWith(prom[p].sid)
              BY <1>2, <2>2, <4>3
            <6> QED BY <1>t, <4>3, <6>1, CallMessage
          <5> QED BY <2>0, <4>1, <4>2, <4>3, <5>1 DEF Repeated
        <4>4. CASE pc = "failed"
          <5>1. net'[r] = net[r]
            BY <1>2, <2>2, <4>4
          <5> QED BY <2>0, <4>1, <4>2, <4>4, <5>1 DEF Repeated
        <4> QED BY <4>3, <4>4
      <3> QED BY <3>1, <3>2, <3>3
    <2> QED BY <2>1, <2>2
  <1> QED BY <1>3, <1>4, <1>5, <1>6, <1>7 DEF ApiInv

\* A step of one creation that is under way: a try fails, or is repeated after the
\* pause, or its headers come, or the server makes a session for it.
LEMMA TryKeeps ==
  ASSUME ApiInv, NEW p \in Creations, NEW c \in Creation, prom' = [prom EXCEPT ![p] = c],
         prom[p].st \in Pending, c.st \in Pending, c.tries < Attempts,
         UNCHANGED <<sessionId, sessionReady, req, net, executed, restarts>>,
         \/ /\ UNCHANGED <<valid, last>> /\ Tried \subseteq Tried' /\ Carries(c, last)
            /\ c.sid \in {prom[p].sid, None}
         \/ /\ last' = last + 1 /\ valid' = valid \cup {last + 1}
            /\ c.st = "created" /\ c.sid = last + 1 /\ c.tries = prom[p].tries
            /\ prom[p].st = "posting"
  PROVE  ApiInv'
  <1>1. prom'[p] = c /\ \A x \in Creations : x # p => prom'[x] = prom[x]
    BY DEF ApiInv, ApiTypes
  <1>2. ApiTypes'
    BY Parts DEF ApiInv, ApiTypes
  <1>l. /\ last' \in Nat /\ 1..last \subseteq 1..last' /\ valid \subseteq valid'
        /\ Carries(c, last')
        /\ c.sid # None => c.sid \in valid' \/ c.sid = prom[p].sid
    BY Parts DEF Carries
  <1>3. Sessions'
    <2>1. valid' \subseteq 1..last' /\ (restarts = 0 => valid' = 1..last')
      <3>1. last \in Nat /\ 1..(last + 1) = (1..last) \cup {last + 1}
        BY Parts
      <3>2. valid \subseteq 1..last /\ (restarts = 0 => valid = 1..last)
        BY DEF ApiInv, Sessions
      <3>3. CASE valid' = valid /\ last' = last
        BY <3>2, <3>3
      <3>4. CASE valid' = valid \cup {last + 1} /\ last' = last + 1
        BY <3>1, <3>2, <3>4
      <3> QED BY <3>3, <3>4
    <2>2. \A x \in Creations : Carries(prom'[x], last')
      BY <1>1, <1>l DEF ApiInv, Sessions, Carries
    <2>3. /\ sessionId \in (1..last') \cup {None}
          /\ \A r \in Requests : IF net[r].msg = "call" THEN net[r].sid \in 1..last'
                                                        ELSE net[r].sid = None
      BY <1>l DEF ApiInv, Sessions
    <2> QED BY <2>1, <2>2, <2>3 DEF Sessions
  <1>4. Counted'
    <2>1. \A x \in Creations : prom'[x].st # "settled" => prom'[x].tries < Attempts
      BY <1>1 DEF ApiInv, Counted
    <2>2. CASE UNCHANGED <<valid, last>> /\ Tried \subseteq Tried'
      BY <2>1, <2>2, CountStays
    <2>3. CASE /\ last' = last + 1 /\ c.st = "created" /\ c.tries = prom[p].tries
               /\ prom[p].st = "posting"
      <3> DEFINE new == <<p, c.tries>>
      <3>1. c.tries \in 0..2 /\ prom[p] \in Creation
        BY Parts DEF Creation, Attempts
      <3>2. new \in Tried' /\ new \notin Tried /\ Tried \subseteq Tried' \ {new}
        <4>1. new \in Tried'
          BY <1>1, <2>3, <3>1 DEF Tried
        <4>2. new \notin Tried
          BY <2>3, <3>1 DEF Tried, Pending
        <4>3. Tried \subseteq Tried'
          BY <1>1, <2>3, <3>1 DEF Tried
        <4> QED BY <4>1, <4>2, <4>3
      <3> HIDE DEF new
      <3>3. Tried' \subseteq Creations \X (0..2)
        BY DEF Tried
      <3>4. /\ Cardinality(Tried' \ {new}) = Cardinality(Tried') - 1
            /\ Cardinality(Tried') \in Nat
        BY <3>2, <3>3, TriesAreFinite
      <3>5. /\ Cardinality(Tried) <= Cardinality(Tried' \ {new})
            /\ Cardinality(Tried) \in Nat /\ Cardinality(Tried' \ {new}) \in Nat
        <4>1. Tried' \ {new} \subseteq Creations \X (0..2)
          BY <3>3
        <4> QED BY <3>2, <4>1, TriesAreFinite
      <3>6. last <= Cardinality(Tried) /\ last \in Nat
        BY Parts DEF ApiInv, Counted
      <3>7. last' <= Cardinality(Tried')
        BY <2>3, <3>4, <3>5, <3>6
      <3> QED BY <2>1, <3>7 DEF Counted
    <2> QED BY <2>2, <2>3
  <1>5. Shared'
    BY <1>1 DEF ApiInv, Shared
  <1>6. ASSUME NEW r \in Requests PROVE Unserved(r)' /\ Repeated(r)' /\ Waits(r)'
    <2>0. Unserved(r) /\ Repeated(r) /\ Waits(r)
      BY DEF ApiInv
    <2>1. Unserved(r)' /\ Waits(r)'
      BY <1>1, <2>0 DEF Unserved, Waits
    <2>2. Repeated(r)'
      BY <1>1, <1>l, <2>0 DEF Repeated
    <2> QED BY <2>1, <2>2
  <1> QED BY <1>2, <1>3, <1>4, <1>5, <1>6 DEF ApiInv

\* Every step keeps the invariant.
LEMMA StepIInv == ApiInv /\ [Next]_vars => ApiInv'
  <1> SUFFICES ASSUME ApiInv, [Next]_vars PROVE ApiInv'
    OBVIOUS
  <1> USE NoneAssumption DEF server, client
  <1>1. ASSUME NEW r \in Requests, Call(r) PROVE ApiInv'
    <2>0. /\ req[r].pc = "idle" /\ net[r].msg = "none" /\ net[r].sid = None /\ executed[r] = 0
          /\ req[r] \in CallState /\ net[r] \in Message
          /\ Unserved(r) /\ Repeated(r)
      BY <1>1, Parts DEF Call, ApiInv, Unserved, Sessions
    <2>1. CASE sessionId # None /\ req' = [req EXCEPT ![r].pc = "sent"]
                  /\ net' = [net EXCEPT ![r] = CallWith(sessionId)]
                  /\ UNCHANGED <<sessionReady, prom>>
      <3> DEFINE q == [req[r] EXCEPT !.pc = "sent"]
                 m == CallWith(sessionId)
      <3>1. q \in CallState /\ q.pc = "sent" /\ q.retried = req[r].retried
        BY <2>0 DEF CallState
      <3>2. sessionId \in 1..last /\ sessionId \in Nat
        BY <2>1, Parts DEF ApiInv, Sessions
      <3>3. m \in Message /\ m.msg = "call" /\ m.sid = sessionId
        BY <3>2, CallMessage
      <3>4. req' = [req EXCEPT ![r] = q] /\ net' = [net EXCEPT ![r] = m]
            /\ executed' = [executed EXCEPT ![r] = 0]
            /\ UNCHANGED <<sessionId, valid, last, executed, restarts>>
        BY <1>1, <2>0, <2>1 DEF Call, ApiInv, ApiTypes
      <3> HIDE DEF q, m
      <3>5. req'[r] = q /\ net'[r] = m
        BY <3>4 DEF ApiInv, ApiTypes
      <3>6. Unserved(r)' /\ Waits(r)'
        BY <2>0, <3>1, <3>3, <3>4, <3>5 DEF Unserved, Waits
      <3>7. Repeated(r)'
        BY <2>0, <3>1, <3>3, <3>4, <3>5 DEF Repeated
      <3> QED BY <2>1, <3>1, <3>2, <3>3, <3>4, <3>6, <3>7, CallKeeps
    <2>2. CASE CreateSession(r, sessionReady, FALSE) /\ UNCHANGED net
      <3>1. net' = [net EXCEPT ![r] = Nothing] /\ UNCHANGED <<sessionId, valid, last, executed, restarts>>
        BY <1>1, <2>0, <2>2 DEF Call, ApiInv, ApiTypes, Message, Nothing
      <3> QED BY <2>0, <2>2, <3>1, JoinKeeps
    <2> QED BY <1>1, <2>1, <2>2 DEF Call
  <1>e. ASSUME NEW r \in Requests, NEW pc \in Ended, req[r].pc \in {"sent", "reading"},
               req' = [req EXCEPT ![r].pc = pc],
               net' = [net EXCEPT ![r] = Nothing] \/ (net' = net /\ pc = "failed"),
               UNCHANGED <<sessionId, sessionReady, prom, valid, last, executed, restarts>>,
               pc = "invalid" => req[r].retried /\ net[r].msg = "invalid"
        PROVE  ApiInv'
    <2> DEFINE q == [req[r] EXCEPT !.pc = pc]
               m == net'[r]
               n == executed[r]
    <2>1. /\ Unserved(r) /\ Repeated(r) /\ req[r] \in CallState /\ net[r] \in Message
          /\ executed[r] \in Nat
      BY Parts DEF ApiInv
    <2>2. q \in CallState /\ q.pc = pc /\ q.retried = req[r].retried
      BY <2>1 DEF CallState
    <2>3. /\ req' = [req EXCEPT ![r] = q] /\ net' = [net EXCEPT ![r] = m]
          /\ executed' = [executed EXCEPT ![r] = n]
          /\ req'[r] = q /\ executed'[r] = executed[r]
          /\ m = Nothing \/ (m = net[r] /\ pc = "failed")
      BY <1>e DEF ApiInv, ApiTypes
    <2>4. Nothing \in Message /\ Nothing.msg = "none" /\ Nothing.sid = None
      BY DEF Nothing, Message
    <2> HIDE DEF q, m
    <2>5. m \in Message /\ IF m.msg = "call" THEN m.sid \in 1..last ELSE m.sid = None
      BY <2>1, <2>3, <2>4 DEF ApiInv, Sessions
    <2>6. Unserved(r)' /\ Waits(r)'
      BY <1>e, <2>1, <2>2, <2>3, <2>4 DEF Unserved, Waits, Ended, m
    <2>7. Repeated(r)'
      BY <1>e, <2>1, <2>2, <2>3, <2>4 DEF Repeated, Ended, m
    <2> QED BY <1>e, <2>1, <2>2, <2>3, <2>5, <2>6, <2>7, CallKeeps
  <1>h. ASSUME NEW r \in Requests, Headers(r) PROVE ApiInv'
    <2>0. /\ req[r].pc = "sent" /\ UNCHANGED <<valid, last, executed, restarts>>
          /\ req[r] \in CallState /\ net[r] \in Message /\ executed[r] \in Nat
          /\ Unserved(r) /\ Repeated(r) /\ Waits(r)
      BY <1>h, Parts DEF Headers, ApiInv
    <2>1. CASE End(r, "done")
      BY <1>e, <2>0, <2>1 DEF End, Ended
    <2>2. CASE /\ req' = [req EXCEPT ![r].pc = "reading"]
               /\ UNCHANGED <<sessionId, sessionReady, prom, net>>
      <3> DEFINE q == [req[r] EXCEPT !.pc = "reading"]
                 m == net[r]
      <3>1. q \in CallState /\ q.pc = "reading" /\ q.retried = req[r].retried
        BY <2>0 DEF CallState
      <3>2. /\ req' = [req EXCEPT ![r] = q] /\ net' = [net EXCEPT ![r] = m]
            /\ executed' = [executed EXCEPT ![r] = executed[r]]
        BY <2>0, <2>2 DEF ApiInv, ApiTypes
      <3>3. m \in Message /\ IF m.msg = "call" THEN m.sid \in 1..last ELSE m.sid = None
        BY <2>0 DEF ApiInv, Sessions
      <3>4. net' = net /\ executed' = executed /\ prom' = prom /\ valid' = valid /\ restarts' = restarts
        BY <2>0, <2>2
      <3> HIDE DEF q
      <3>5. req'[r] = q
        BY <3>2 DEF ApiInv, ApiTypes
      <3>6. Unserved(r)' /\ Waits(r)'
        BY <2>0, <3>1, <3>4, <3>5 DEF Unserved, Waits
      <3>7. Repeated(r)'
        BY <2>0, <3>1, <3>4, <3>5 DEF Repeated
      <3> HIDE DEF m
      <3> QED BY <2>0, <2>2, <3>1, <3>2, <3>3, <3>6, <3>7, CallKeeps
    <2> QED BY <1>h, <2>1, <2>2 DEF Headers
  <1>b. ASSUME NEW r \in Requests, BodyFails(r) PROVE ApiInv'
    <2>1. req[r].pc = "reading" /\ UNCHANGED <<valid, last, executed, restarts>>
      BY <1>b DEF BodyFails
    <2>2. CASE End(r, "failed")
      BY <1>e, <2>1, <2>2 DEF End, Ended
    <2>3. CASE End(r, "refused")
      BY <1>e, <2>1, <2>3 DEF End, Ended
    <2> QED BY <1>b, <2>2, <2>3 DEF BodyFails
  <1>2. ASSUME NEW r \in Requests, Receive(r) PROVE ApiInv'
    <2>1. req[r].pc = "reading" /\ UNCHANGED <<valid, last, executed, restarts>>
      BY <1>2 DEF Receive
    <2>2. CASE net[r].msg = "ok" /\ End(r, "done")
      BY <1>e, <2>1, <2>2 DEF End, Ended
    <2>3. CASE net[r].msg = "error" /\ End(r, "refused")
      BY <1>e, <2>1, <2>3 DEF End, Ended
    <2>4. CASE net[r].msg = "invalid" /\ req[r].retried /\ End(r, "invalid")
      BY <1>e, <2>1, <2>4 DEF End, Ended
    <2>5. CASE net[r].msg = "invalid" /\ Rejected(r)
      <3>1. restarts > 0 /\ executed[r] = 0
        BY <2>5 DEF ApiInv, Repeated, Unserved
      <3>2. /\ CreateSession(r, None, TRUE) /\ sessionId' = None
            /\ net' = [net EXCEPT ![r] = Nothing]
        BY <2>5 DEF Rejected
      <3> QED BY <2>1, <3>1, <3>2, JoinKeeps
    <2> QED BY <1>2, <2>2, <2>3, <2>4, <2>5 DEF Receive
  <1>3. ASSUME NEW r \in Requests, Lost(r) PROVE ApiInv'
    BY <1>3, <1>e DEF Lost, Ended
  <1>4. ASSUME NEW r \in Requests, Serve(r) PROVE ApiInv'
    <2>1. /\ Unserved(r) /\ Repeated(r) /\ Waits(r) /\ req[r] \in CallState /\ executed[r] = 0
          /\ net[r].msg = "call" /\ net[r].sid \in 1..last /\ restarts \in Nat
          /\ UNCHANGED <<sessionId, sessionReady, prom, req, valid, last, restarts>>
      BY <1>4, Parts DEF ApiInv, Unserved, Sessions, Serve
    <2>2. req' = [req EXCEPT ![r] = req[r]]
      BY <2>1 DEF ApiInv, ApiTypes
    <2>3. \A a \in {"ok", "error", "invalid"} :
            Answer(a) \in Message /\ Answer(a).msg = a /\ Answer(a).sid = None
      BY DEF Answer, Answers, Message
    <2>4. ASSUME NEW a \in {"ok", "error"}, net' = [net EXCEPT ![r] = Answer(a)],
                 executed' = [executed EXCEPT ![r] = executed[r] + 1]
          PROVE  ApiInv'
      <3>1. net'[r] = Answer(a) /\ executed'[r] = 1
        BY <2>1, <2>4 DEF ApiInv, ApiTypes
      <3>2. Unserved(r)' /\ Waits(r)'
        BY <2>1, <2>3, <2>4, <3>1 DEF Unserved, Waits
      <3>3. Repeated(r)'
        BY <2>1, <2>3, <2>4, <3>1 DEF Repeated
      <3>4. Answer(a) \in Message /\ Answer(a).msg # "call" /\ Answer(a).sid = None
        BY <2>3
      <3>5. executed' = [executed EXCEPT ![r] = 1]
        BY <2>1, <2>4
      <3> QED BY <2>1, <2>2, <2>4, <3>2, <3>3, <3>4, <3>5, CallKeeps
    <2>5. CASE /\ net[r].sid \notin valid /\ UNCHANGED executed
               /\ net' = [net EXCEPT ![r] = Answer("invalid")]
      <3>1. net'[r] = Answer("invalid") /\ executed' = [executed EXCEPT ![r] = 0]
        BY <2>1, <2>5 DEF ApiInv, ApiTypes
      <3>2. Unserved(r)' /\ Waits(r)'
        BY <2>1, <2>3, <2>5, <3>1 DEF Unserved, Waits
      <3>3. restarts # 0
        BY <2>1, <2>5 DEF ApiInv, Sessions
      <3>4. Repeated(r)'
        BY <2>1, <2>3, <2>5, <3>1, <3>3 DEF Repeated
      <3>5. /\ Answer("invalid") \in Message /\ Answer("invalid").msg # "call"
            /\ Answer("invalid").sid = None
        BY <2>3
      <3> DEFINE m == Answer("invalid")
      <3>6. m \in Message /\ IF m.msg = "call" THEN m.sid \in 1..last ELSE m.sid = None
        BY <3>5
      <3>7. net' = [net EXCEPT ![r] = m] /\ executed' = [executed EXCEPT ![r] = 0] /\ 0 \in Nat
        BY <2>5, <3>1
      <3> HIDE DEF m
      <3> QED BY <2>1, <2>2, <3>2, <3>4, <3>6, <3>7, CallKeeps
    <2> QED BY <1>4, <2>4, <2>5 DEF Serve
  <1>s. ASSUME NEW p \in Creations, SessionHeaders(p) PROVE ApiInv'
    <2>1. /\ prom[p].st \in {"posting", "created"} /\ prom[p] \in Creation
          /\ prom[p].tries < Attempts /\ Carries(prom[p], last)
          /\ UNCHANGED <<sessionId, sessionReady, req, server>>
      BY <1>s, Parts DEF SessionHeaders, ApiInv, Sessions, Counted
    <2>2. PICK s \in {prom[p].sid, None} : prom' = [prom EXCEPT ![p].st = "reading", ![p].sid = s]
      BY <1>s DEF SessionHeaders
    <2> DEFINE c == [prom[p] EXCEPT !.st = "reading", !.sid = s]
    <2>3. c \in Creation /\ c.st = "reading" /\ c.sid = s /\ c.tries = prom[p].tries
      BY <2>1 DEF Creation, Pending
    <2>4. prom' = [prom EXCEPT ![p] = c]
      BY <2>1, <2>2 DEF ApiInv, ApiTypes, Creation
    <2> HIDE DEF c
    <2>5. prom'[p] = c /\ \A x \in Creations : x # p => prom'[x] = prom[x]
      BY <2>4 DEF ApiInv, ApiTypes
    <2>6. Tried \subseteq Tried'
      BY <2>1, <2>3, <2>5 DEF Tried
    <2>7. Carries(c, last)
      BY <2>1, <2>3 DEF Carries
    <2> QED BY <2>1, <2>3, <2>4, <2>6, <2>7, TryKeeps DEF Pending
  <1>5. ASSUME NEW p \in Creations, SessionCreated(p) PROVE ApiInv'
    <2>1. prom[p].st \in Pending
      BY <1>5 DEF SessionCreated, Pending
    <2>2. prom' = [prom EXCEPT ![p] = [@ EXCEPT !.st = "settled", !.sid = None]]
      BY <1>5 DEF SessionCreated
    <2> QED BY <1>5, <2>1, <2>2, SettleKeeps DEF SessionCreated
  <1>6. ASSUME NEW p \in Creations, SettleFailure(p), prom[p].st \in Pending,
               UNCHANGED <<valid, last, executed, restarts>>
        PROVE  ApiInv'
    BY <1>6, SettleKeeps DEF SettleFailure
  <1>7. ASSUME NEW p \in Creations, SessionAttemptFails(p) \/ SessionAnswerFails(p) PROVE ApiInv'
    <2>1. /\ prom[p].st \in {"posting", "created", "reading"} /\ prom[p] \in Creation
          /\ UNCHANGED <<valid, last, executed, restarts>> /\ AttemptFails(p)
      BY <1>7, Parts DEF SessionAttemptFails, SessionAnswerFails, AttemptFails
    <2>2. CASE SettleFailure(p)
      BY <1>6, <2>1, <2>2 DEF Pending
    <2>3. CASE /\ prom[p].tries + 1 < Attempts
               /\ prom' = [prom EXCEPT ![p] = [st |-> "backoff", tries |-> @.tries + 1, sid |-> None]]
               /\ UNCHANGED <<sessionId, sessionReady, req, net>>
      <3> DEFINE c == [st |-> "backoff", tries |-> prom[p].tries + 1, sid |-> None]
      <3>1. c \in Creation /\ c.st = "backoff" /\ c.sid = None /\ c.tries < Attempts
        BY <2>1, <2>3 DEF Creation, Pending, Attempts
      <3>2. prom' = [prom EXCEPT ![p] = c] /\ c.tries = prom[p].tries + 1
        BY <2>3
      <3> HIDE DEF c
      <3>3. prom'[p] = c /\ \A x \in Creations : x # p => prom'[x] = prom[x]
        BY <3>2 DEF ApiInv, ApiTypes
      <3>4. Tried \subseteq Tried'
        <4>1. prom[p].tries \in 0..Attempts
          BY <2>1 DEF Creation
        <4> QED BY <3>2, <3>3, <4>1 DEF Tried, Attempts
      <3>5. Carries(c, last)
        BY <3>1 DEF Carries
      <3> QED BY <2>1, <2>3, <3>1, <3>2, <3>4, <3>5, TryKeeps DEF Pending
    <2> QED BY <2>1, <2>2, <2>3 DEF AttemptFails
  <1>8. ASSUME NEW p \in Creations, SessionRefused(p) PROVE ApiInv'
    BY <1>8, <1>6 DEF SessionRefused, Pending
  <1>9. ASSUME NEW p \in Creations, SessionRetry(p) PROVE ApiInv'
    <2> DEFINE c == [prom[p] EXCEPT !.st = "posting"]
    <2>1. /\ prom[p] \in Creation /\ prom[p].st = "backoff" /\ prom[p].sid = None
          /\ prom[p].tries < Attempts /\ UNCHANGED <<sessionId, sessionReady, req, server>>
      BY <1>9, Parts DEF SessionRetry, ApiInv, Sessions, Carries, Counted
    <2>2. /\ c \in Creation /\ c.st = "posting" /\ c.sid = None /\ c.tries = prom[p].tries
      BY <2>1 DEF Creation, Pending
    <2>3. prom' = [prom EXCEPT ![p] = c]
      BY <1>9 DEF SessionRetry
    <2> HIDE DEF c
    <2>4. prom'[p] = c /\ \A x \in Creations : x # p => prom'[x] = prom[x]
      BY <2>3 DEF ApiInv, ApiTypes
    <2>5. Tried \subseteq Tried'
      BY <2>1, <2>2, <2>4 DEF Tried
    <2>6. Carries(c, last)
      BY <2>1, <2>2 DEF Carries
    <2> QED BY <2>1, <2>2, <2>3, <2>5, <2>6, TryKeeps DEF Pending
  <1>10. ASSUME NEW p \in Creations, MakeSession(p) PROVE ApiInv'
    <2> DEFINE c == [prom[p] EXCEPT !.st = "created", !.sid = last + 1]
    <2>1. /\ prom[p] \in Creation /\ prom[p].st = "posting" /\ last + 1 \in Nat
          /\ prom[p].tries < Attempts
      BY <1>10, Parts DEF MakeSession, ApiInv, Counted
    <2>2. /\ c \in Creation /\ c.st = "created" /\ c.sid = last + 1 /\ c.tries = prom[p].tries
      BY <2>1 DEF Creation, Pending
    <2>3. /\ prom' = [prom EXCEPT ![p] = c] /\ last' = last + 1 /\ valid' = valid \cup {last + 1}
          /\ UNCHANGED <<sessionId, sessionReady, req, net, executed, restarts>>
      BY <1>10 DEF MakeSession
    <2> HIDE DEF c
    <2> QED BY <2>1, <2>2, <2>3, TryKeeps DEF Pending
  <1>11. CASE Restart
    <2>1. restarts \in Nat /\ restarts' = restarts + 1 /\ restarts < MaxRestarts
      BY <1>11, Parts DEF Restart
    <2>2. ApiTypes'
      BY <1>11, <2>1, BoundAssumption DEF Restart, ApiInv, ApiTypes
    <2>3. Sessions'
      BY <1>11, <2>1 DEF Restart, ApiInv, Sessions
    <2>4. Counted' /\ Shared'
      BY <1>11, <2>1 DEF Restart, ApiInv, Counted, Tried, Shared
    <2>5. ASSUME NEW r \in Requests PROVE Unserved(r)' /\ Repeated(r)' /\ Waits(r)'
      <3>1. Unserved(r)' /\ Waits(r)'
        BY <1>11 DEF Restart, ApiInv, Unserved, Waits
      <3>2. Repeated(r)'
        BY <1>11, <2>1 DEF Restart, ApiInv, Repeated
      <3> QED BY <3>1, <3>2
    <2> QED BY <2>2, <2>3, <2>4, <2>5 DEF ApiInv
  <1>12. CASE UNCHANGED vars
    <2>1. ApiTypes' /\ Sessions'
      BY <1>12 DEF vars, ApiInv, ApiTypes, Sessions
    <2>2. Counted' /\ Shared'
      BY <1>12 DEF vars, ApiInv, Counted, Tried, Shared
    <2>3. \A r \in Requests : Unserved(r)' /\ Repeated(r)' /\ Waits(r)'
      BY <1>12 DEF vars, ApiInv, Unserved, Repeated, Waits
    <2> QED BY <2>1, <2>2, <2>3 DEF ApiInv
  <1> QED
    BY <1>1, <1>2, <1>3, <1>4, <1>5, <1>7, <1>8, <1>9, <1>10, <1>11, <1>12, <1>h, <1>b, <1>s
    DEF Next

-----------------------------------------------------------------------------
\* The invariant of every execution.
LEMMA Invariant == Spec => []ApiInv
  BY InitIInv, StepIInv, PTL DEF Spec

\* Type correctness: the server makes three sessions at most for a creation.
THEOREM TypeCorrect == Spec => []TypeOK
  <1>1. ApiInv => TypeOK
    <2> SUFFICES ASSUME ApiInv PROVE TypeOK
      OBVIOUS
    <2>1. last \in Nat /\ last <= Attempts * MaxCreations
      <3>1. Tried \subseteq Creations \X (0..2)
        BY DEF Tried
      <3>2. Cardinality(Tried) \in Nat /\ Cardinality(Tried) <= Attempts * MaxCreations
        BY <3>1, TriesAreFinite
      <3> QED BY <3>2, Parts, BoundAssumption DEF ApiInv, Counted, Attempts
    <2>2. Attempts * MaxCreations \in Nat
      BY BoundAssumption DEF Attempts
    <2>3. 1..last \subseteq Sids /\ last \in 0..(Attempts * MaxCreations)
      BY <2>1, <2>2 DEF Sids
    <2>4. \A p \in Creations : prom[p] \in [st : Pending \cup {"unused", "settled"},
                                            tries : 0..Attempts, sid : Sids \cup {None}]
      BY <2>3, Parts DEF ApiInv, Sessions, Carries, Creation
    <2>5. \A r \in Requests : net[r] \in [msg : {"none", "call"} \cup Answers,
                                          sid : Sids \cup {None}]
      BY <2>3, Parts DEF ApiInv, Sessions, Message
    <2>6. req \in [Requests -> [pc : {"idle", "join", "sent", "reading"} \cup Ended,
                                on : Creations \cup {None}, retried : BOOLEAN]]
      BY DEF ApiInv, ApiTypes, CallState
    <2>7. sessionId \in Sids \cup {None} /\ valid \subseteq Sids
      BY <2>3 DEF ApiInv, Sessions
    <2> QED BY <2>3, <2>4, <2>5, <2>6, <2>7 DEF ApiInv, ApiTypes, TypeOK
  <1> QED BY Invariant, <1>1, PTL

\* fetchWithSession repeats only a call the server has rejected, once, and with a
\* session of its own: it is executed at most once and survives a restart.
THEOREM RepeatsAreSafe == Spec => []RepeatsSafely
  <1>1. ApiInv => RepeatsSafely
    <2> SUFFICES ASSUME ApiInv PROVE AtMostOnce /\ SurvivesRestart
      BY DEF RepeatsSafely
    <2>1. AtMostOnce
      BY DEF ApiInv, Unserved, AtMostOnce
    <2>2. SurvivesRestart
      BY Parts DEF ApiInv, Repeated, SurvivesRestart
    <2> QED BY <2>1, <2>2
  <1> QED BY Invariant, <1>1, PTL

\* createSession shares the creation under way; who waits is woken when it settles.
THEOREM CreationsAreShared == Spec => []SharedCreation
  <1>1. ApiInv => SharedCreation
    <2> SUFFICES ASSUME ApiInv PROVE OneCreation /\ WaitersArePending
      BY DEF SharedCreation
    <2>1. WaitersArePending
      BY DEF ApiInv, Shared, Waits, WaitersArePending
    <2>2. OneCreation
      <3> DEFINE S == {p \in Creations : prom[p].st \in Pending}
      <3> SUFFICES ASSUME restarts = 0 PROVE Cardinality(S) <= 1
        BY DEF OneCreation
      <3>1. \A p \in S : p = sessionReady
        BY DEF ApiInv, Shared
      <3>2. S = {} \/ S = {sessionReady}
        BY <3>1
      <3>3. Cardinality({sessionReady}) = 1 /\ Cardinality({}) = 0
        BY FS_EmptySet, FS_Singleton
      <3>4. Cardinality(S) \in {0, 1}
        BY <3>2, <3>3
      <3> QED BY <3>4
    <2> QED BY <2>1, <2>2
  <1> QED BY Invariant, <1>1, PTL

-----------------------------------------------------------------------------
(* The pages share no state.                                               *)

\* A step is one of the page that is shown.
LEMMA OnePageMoves ==
  ASSUME [PagesNext]_<<pageVars, viewVars, page>>
  PROVE  /\ page' = page
         /\ page = "logs" => Logs!Next \/ UNCHANGED logsVars
         /\ page = "connections" => Connections!Next \/ UNCHANGED connectionVars
         /\ page = "settings" => Settings!Next \/ UNCHANGED settingsVars
         /\ page = "data" => Data!Next \/ UNCHANGED dataVars
         /\ page = "draft" => Draft!Next \/ UNCHANGED draftVars
         /\ page = "structure" => Structure!Next \/ UNCHANGED structureVars
         /\ page = "keys" => Browser!Next \/ UNCHANGED browserVars
  <1>1. CASE UNCHANGED <<pageVars, viewVars, page>>
    BY <1>1 DEF pageVars, viewVars
  <1>2. CASE PageStep
    BY <1>2, Zenon DEF PageStep
  <1>3. CASE ViewStep
    BY <1>3, Zenon DEF ViewStep
  <1> QED BY <1>1, <1>2, <1>3 DEF PagesNext

-----------------------------------------------------------------------------
(* The logs page. A tail that was not aborted is the one the page holds    *)
(* the controller of; an import of all files is its list, a part of which  *)
(* is in the session.                                                      *)

\* A call has the fields of Call, whatever they hold.
CallShape(c) ==
  c = [kind |-> c.kind, n |-> c.n, own |-> c.own, sess |-> c.sess, conn |-> c.conn,
       left |-> c.left, all |-> c.all, st |-> c.st]

Numbered == /\ clicks \in Nat
            /\ \A c \in calls : CallShape(c) /\ c.n \in 0..clicks

OneTailANumber == \A c, d \in calls : Logs!IsTail(c) /\ Logs!IsTail(d) /\ c.n = d.n => c = d

\* Only a tail that was aborted is not the one the page holds the controller of.
HeldTails == /\ \A c \in calls : Logs!IsTail(c) /\ c.st # "aborted" => ref = c.n
             /\ ref \in {Absent, lastTail}

LogsInv == Numbered /\ OneTailANumber /\ HeldTails /\ Logs!TailUnderControl /\ Logs!LinesOfOneTail

Progress(c, k) ==
  /\ k + Len(c.left) = Len(c.all)
  /\ \A i \in 1..Len(c.left) : c.left[i] = c.all[k + i]
  /\ \A i \in 1..k : <<c.sess, c.conn, c.all[i]>> \in imported
  /\ c.kind = "import" /\ c.st = "ok" /\ Len(c.left) > 0 => <<c.sess, c.conn, c.left[1]>> \in imported

BatchCall(c) ==
  /\ c.kind \in {"import", "search", "load"}
  /\ IsSequence(c.all) /\ IsSequence(c.left)
  /\ \E k \in 0..Len(c.all) : Progress(c, k)
  /\ c.kind # "import" => \A i \in DOMAIN c.all : <<c.sess, c.conn, c.all[i]>> \in imported

BatchInv == \A c \in calls : c.own = "batch" => BatchCall(c)

-----------------------------------------------------------------------------

LEMMA FreshShape ==
  ASSUME NEW kind, NEW own, NEW sess, NEW c, NEW files, clicks \in Nat
  PROVE  LET d == Logs!Call(kind, own, sess, c, files) IN
         /\ CallShape(d) /\ d.kind = kind /\ d.n = clicks + 1 /\ d.own = own /\ d.sess = sess
         /\ d.conn = c /\ d.left = files /\ d.all = files /\ d.st = "sent"
  BY DEF Logs!Call, CallShape

LEMMA SetState ==
  ASSUME NEW c, CallShape(c), NEW x
  PROVE  LET d == [c EXCEPT !.st = x] IN
         CallShape(d) /\ d.st = x /\ d.kind = c.kind /\ d.n = c.n /\ d.own = c.own /\ d.sess = c.sess /\ d.conn = c.conn /\ d.left = c.left /\ d.all = c.all
  BY DEF CallShape

LEMMA SetKind ==
  ASSUME NEW c, CallShape(c), NEW x
  PROVE  LET d == [c EXCEPT !.kind = x] IN
         CallShape(d) /\ d.kind = x /\ d.n = c.n /\ d.own = c.own /\ d.sess = c.sess /\ d.conn = c.conn /\ d.left = c.left /\ d.all = c.all /\ d.st = c.st
  BY DEF CallShape

LEMMA SetLeft ==
  ASSUME NEW c, CallShape(c), NEW x
  PROVE  LET d == [c EXCEPT !.left = x] IN
         CallShape(d) /\ d.left = x /\ d.kind = c.kind /\ d.n = c.n /\ d.own = c.own /\ d.sess = c.sess /\ d.conn = c.conn /\ d.all = c.all /\ d.st = c.st
  BY DEF CallShape

LEMMA SetSession ==
  ASSUME NEW c, CallShape(c), NEW x
  PROVE  LET d == [c EXCEPT !.sess = x] IN
         CallShape(d) /\ d.sess = x /\ d.kind = c.kind /\ d.n = c.n /\ d.own = c.own /\ d.conn = c.conn /\ d.left = c.left /\ d.all = c.all /\ d.st = c.st
  BY DEF CallShape

LEMMA ThenShape ==
  ASSUME NEW c, CallShape(c), NEW kind
  PROVE  LET d == Logs!Then(c, kind) IN
         /\ CallShape(d) /\ d.kind = kind /\ d.n = c.n /\ d.own = c.own /\ d.sess = c.sess
         /\ d.conn = c.conn /\ d.left = c.left /\ d.all = c.all /\ d.st = "sent"
  <1> DEFINE e == [c EXCEPT !.kind = kind]
  <1>1. /\ CallShape(e) /\ e.kind = kind /\ e.n = c.n /\ e.own = c.own /\ e.sess = c.sess
        /\ e.conn = c.conn /\ e.left = c.left /\ e.all = c.all
    BY SetKind
  <1>2. Logs!Then(c, kind) = [e EXCEPT !.st = "sent"]
    BY DEF Logs!Then
  <1> HIDE DEF e
  <1> QED BY <1>1, <1>2, SetState

LEMMA NextFileShape ==
  ASSUME NEW c, CallShape(c)
  PROVE  LET d == [Logs!Then(c, "import") EXCEPT !.left = Tail(@)] IN
         /\ CallShape(d) /\ d.kind = "import" /\ d.n = c.n /\ d.own = c.own /\ d.sess = c.sess
         /\ d.conn = c.conn /\ d.left = Tail(c.left) /\ d.all = c.all /\ d.st = "sent"
  <1> DEFINE e == Logs!Then(c, "import")
  <1>1. /\ CallShape(e) /\ e.kind = "import" /\ e.n = c.n /\ e.own = c.own /\ e.sess = c.sess
        /\ e.conn = c.conn /\ e.left = c.left /\ e.all = c.all /\ e.st = "sent"
    BY ThenShape
  <1> DEFINE rest == Tail(c.left)
  <1> HIDE DEF e
  <1>2. [Logs!Then(c, "import") EXCEPT !.left = Tail(@)] = [e EXCEPT !.left = rest]
    BY <1>1, Zenon DEF e
  <1>3. rest = Tail(c.left)
    OBVIOUS
  <1> HIDE DEF rest
  <1> DEFINE d == [e EXCEPT !.left = rest]
  <1>4. /\ CallShape(d) /\ d.kind = "import" /\ d.n = c.n /\ d.own = c.own /\ d.sess = c.sess
        /\ d.conn = c.conn /\ d.left = rest /\ d.all = c.all /\ d.st = "sent"
    BY <1>1, SetLeft
  <1> QED BY <1>2, <1>3, <1>4, Zenon

LEMMA ServedShape ==
  ASSUME NEW c, CallShape(c)
  PROVE  LET d == [c EXCEPT !.st = "ok", !.sess = IF c.kind = "create" THEN made + 1 ELSE @] IN
         /\ CallShape(d) /\ d.kind = c.kind /\ d.n = c.n /\ d.own = c.own
         /\ d.sess = (IF c.kind = "create" THEN made + 1 ELSE c.sess)
         /\ d.conn = c.conn /\ d.left = c.left /\ d.all = c.all /\ d.st = "ok"
  <1> DEFINE e == [c EXCEPT !.st = "ok"]
  <1>1. /\ CallShape(e) /\ e.kind = c.kind /\ e.n = c.n /\ e.own = c.own /\ e.sess = c.sess
        /\ e.conn = c.conn /\ e.left = c.left /\ e.all = c.all /\ e.st = "ok"
    BY SetState
  <1> DEFINE now == IF c.kind = "create" THEN made + 1 ELSE c.sess
  <1> HIDE DEF e
  <1>2. [c EXCEPT !.st = "ok", !.sess = IF c.kind = "create" THEN made + 1 ELSE @] = [e EXCEPT !.sess = now]
    BY <1>1, Zenon DEF e
  <1>3. now = IF c.kind = "create" THEN made + 1 ELSE c.sess
    OBVIOUS
  <1> HIDE DEF now
  <1> DEFINE d == [e EXCEPT !.sess = now]
  <1>4. /\ CallShape(d) /\ d.kind = c.kind /\ d.n = c.n /\ d.own = c.own /\ d.sess = now
        /\ d.conn = c.conn /\ d.left = c.left /\ d.all = c.all /\ d.st = "ok"
    BY <1>1, SetSession
  <1> QED BY <1>2, <1>3, <1>4, Zenon

LEMMA LogsInit == ASSUME Logs!Init PROVE LogsInv
  BY DEF Logs!Init, LogsInv, Numbered, OneTailANumber, HeldTails, Logs!TailUnderControl,
         Logs!LinesOfOneTail, Logs!IsTail, CallShape

\* A step that leaves the tails alone.
LEMMA QuietStep ==
  ASSUME LogsInv, UNCHANGED <<tailStatus, ref, tailLines, lastTail, mounted>>,
         clicks' \in {clicks, clicks + 1},
         \A c \in calls' : c \in calls \/ (CallShape(c) /\ c.n \in 0..clicks' /\ c.kind # "tail")
  PROVE  LogsInv'
  BY DEF LogsInv, Numbered, OneTailANumber, HeldTails, Logs!TailUnderControl,
         Logs!LinesOfOneTail, Logs!IsTail

\* Clicks that begin a call, and those that begin none.
LEMMA QuietClicks ==
  ASSUME LogsInv,
         \/ \E s \in 1..MaxSessions : Logs!SelectSession(s)
         \/ Logs!Search \/ Logs!CreateSession \/ Logs!Upload \/ Logs!ImportVisibleFiles
         \/ \E c \in Conns : Logs!SelectConnection(c)
         \/ \E kind \in {"test", "browse", "scan"} : Logs!Ssh(kind)
         \/ \E f \in Files : Logs!ImportRemoteFile(f)
  PROVE  LogsInv'
  <1>n. clicks \in Nat
    BY DEF LogsInv, Numbered
  <1>1. \/ calls' = calls
        \/ \E kind \in {"search", "create", "upload", "import", "test", "browse", "scan"} :
             \E own, sess, c, files : calls' = calls \cup {Logs!Call(kind, own, sess, c, files)}
    BY DEF Logs!SelectSession, Logs!Search, Logs!CreateSession, Logs!Upload, Logs!ImportVisibleFiles,
           Logs!SelectConnection, Logs!Ssh, Logs!ImportRemoteFile
  <1>2. /\ clicks' = clicks + 1
        /\ UNCHANGED <<tailStatus, ref, tailLines, lastTail, mounted>>
    BY DEF Logs!SelectSession, Logs!Search, Logs!CreateSession, Logs!Upload, Logs!ImportVisibleFiles,
           Logs!SelectConnection, Logs!Ssh, Logs!ImportRemoteFile, Logs!Click, Logs!tailVars
  <1>3. \A d \in calls' : d \in calls \/ (CallShape(d) /\ d.n \in 0..clicks' /\ d.kind # "tail")
    <2>1. CASE calls' = calls
      BY <2>1
    <2>2. ASSUME NEW kind \in {"search", "create", "upload", "import", "test", "browse", "scan"},
                 NEW own, NEW sess, NEW c, NEW files,
                 calls' = calls \cup {Logs!Call(kind, own, sess, c, files)}
          PROVE  \A d \in calls' : d \in calls \/ (CallShape(d) /\ d.n \in 0..clicks' /\ d.kind # "tail")
      <3>1. LET d == Logs!Call(kind, own, sess, c, files) IN CallShape(d) /\ d.n = clicks + 1 /\ d.kind = kind
        BY <1>n, FreshShape
      <3> QED BY <1>n, <1>2, <2>2, <3>1
    <2> QED BY <1>1, <2>1, <2>2
  <1> QED BY <1>2, <1>3, QuietStep

LEMMA QuietAnswers ==
  ASSUME LogsInv, NEW c \in calls, Logs!Answered(c) \/ Logs!Serve(c)
  PROVE  LogsInv'
  <1>n. clicks \in Nat /\ CallShape(c) /\ c.n \in 0..clicks
    BY DEF LogsInv, Numbered
  <1>1. \/ calls' = calls \ {c}
        \/ \E kind \in {"load", "search"} : calls' = (calls \ {c}) \cup {Logs!Then(c, kind)}
        \/ calls' = (calls \ {c}) \cup {[Logs!Then(c, "import") EXCEPT !.left = Tail(@)]}
        \/ /\ c.kind # "tail"
           /\ calls' = (calls \ {c}) \cup
                {[c EXCEPT !.st = "ok", !.sess = IF c.kind = "create" THEN made + 1 ELSE @]}
    <2>1. CASE Logs!Serve(c)
      BY <2>1 DEF Logs!Serve, Logs!IsTail
    <2>2. CASE Logs!Answered(c)
      BY <2>2 DEF Logs!Answered, Logs!LoadAnswered, Logs!SearchAnswered, Logs!CreateAnswered,
                  Logs!SshAnswered, Logs!Stored
    <2> QED BY <2>1, <2>2
  <1>2. clicks' = clicks /\ UNCHANGED <<tailStatus, ref, tailLines, lastTail, mounted>>
    BY DEF Logs!Answered, Logs!Serve, Logs!tailVars
  <1>3. \A d \in calls' : d \in calls \/ (CallShape(d) /\ d.n \in 0..clicks' /\ d.kind # "tail")
    <2>1. CASE calls' = calls \ {c}
      BY <2>1
    <2>2. ASSUME NEW kind \in {"load", "search"}, calls' = (calls \ {c}) \cup {Logs!Then(c, kind)}
          PROVE  \A d \in calls' : d \in calls \/ (CallShape(d) /\ d.n \in 0..clicks' /\ d.kind # "tail")
      <3>1. LET d == Logs!Then(c, kind) IN CallShape(d) /\ d.n = c.n /\ d.kind = kind
        BY <1>n, ThenShape
      <3> QED BY <1>n, <1>2, <2>2, <3>1
    <2>3. CASE calls' = (calls \ {c}) \cup {[Logs!Then(c, "import") EXCEPT !.left = Tail(@)]}
      <3> DEFINE e == [Logs!Then(c, "import") EXCEPT !.left = Tail(@)]
      <3>1. CallShape(e) /\ e.n = c.n /\ e.kind = "import"
        BY <1>n, NextFileShape
      <3>2. calls' = (calls \ {c}) \cup {e}
        BY <2>3
      <3> HIDE DEF e
      <3> QED BY <1>n, <1>2, <3>1, <3>2
    <2>4. CASE /\ c.kind # "tail"
               /\ calls' = (calls \ {c}) \cup
                    {[c EXCEPT !.st = "ok", !.sess = IF c.kind = "create" THEN made + 1 ELSE @]}
      <3> DEFINE e == [c EXCEPT !.st = "ok", !.sess = IF c.kind = "create" THEN made + 1 ELSE @]
      <3>1. CallShape(e) /\ e.n = c.n /\ e.kind = c.kind
        BY <1>n, ServedShape, Zenon
      <3>2. calls' = (calls \ {c}) \cup {e}
        BY <2>4
      <3> HIDE DEF e
      <3> QED BY <1>n, <1>2, <2>4, <3>1, <3>2
    <2> QED BY <1>1, <2>1, <2>2, <2>3, <2>4
  <1> QED BY <1>2, <1>3, QuietStep

\* What an abort makes of the calls: the one whose controller the page holds is aborted.
LEMMA AbortedCalls ==
  ASSUME LogsInv, NEW d \in Logs!Aborted
  PROVE  /\ CallShape(d) /\ d.n \in 0..clicks
         /\ Logs!IsTail(d) => d.st = "aborted"
         /\ \E c \in calls : c.kind = d.kind /\ c.n = d.n
                             /\ d = IF Logs!IsTail(c) /\ c.n = ref THEN [c EXCEPT !.st = "aborted"] ELSE c
  <1>1. PICK c \in calls : d = IF Logs!IsTail(c) /\ c.n = ref THEN [c EXCEPT !.st = "aborted"] ELSE c
    BY DEF Logs!Aborted
  <1>2. CallShape(c) /\ c.n \in 0..clicks
    BY DEF LogsInv, Numbered
  <1>3. CASE Logs!IsTail(c) /\ c.n = ref
    <2> DEFINE e == [c EXCEPT !.st = "aborted"]
    <2>1. CallShape(e) /\ e.n = c.n /\ e.kind = c.kind /\ e.st = "aborted"
      BY <1>2, SetState
    <2>2. d = e
      BY <1>1, <1>3
    <2> HIDE DEF e
    <2> QED BY <1>1, <1>2, <2>1, <2>2
  <1>4. CASE ~(Logs!IsTail(c) /\ c.n = ref)
    <2>1. d = c
      BY <1>1, <1>4
    <2> QED BY <1>1, <1>2, <1>4, <2>1 DEF LogsInv, HeldTails
  <1> QED BY <1>3, <1>4

LEMMA AbortKeepsNumbers ==
  ASSUME LogsInv, NEW d \in Logs!Aborted, NEW e \in Logs!Aborted,
         Logs!IsTail(d), Logs!IsTail(e), d.n = e.n
  PROVE  d = e
  <1>1. PICK c \in calls : /\ c.kind = d.kind /\ c.n = d.n
                           /\ d = IF Logs!IsTail(c) /\ c.n = ref THEN [c EXCEPT !.st = "aborted"] ELSE c
    BY AbortedCalls
  <1>2. PICK b \in calls : /\ b.kind = e.kind /\ b.n = e.n
                           /\ e = IF Logs!IsTail(b) /\ b.n = ref THEN [b EXCEPT !.st = "aborted"] ELSE b
    BY AbortedCalls
  <1>3. b = c
    BY <1>1, <1>2 DEF LogsInv, OneTailANumber, Logs!IsTail
  <1> QED BY <1>1, <1>2, <1>3

LEMMA TailSteps ==
  ASSUME LogsInv, Logs!StopTail \/ Logs!Leave \/ \E f \in Files : Logs!StartTail(f)
  PROVE  LogsInv'
  <1>n. /\ clicks \in Nat /\ clicks' = clicks + 1
        /\ \A d \in Logs!Aborted : CallShape(d) /\ d.n \in 0..clicks /\ (Logs!IsTail(d) => d.st = "aborted")
        /\ \A d, e \in Logs!Aborted : Logs!IsTail(d) /\ Logs!IsTail(e) /\ d.n = e.n => d = e
    <2>1. clicks \in Nat
      BY DEF LogsInv, Numbered
    <2>2. clicks' = clicks + 1
      BY DEF Logs!StopTail, Logs!Leave, Logs!StartTail, Logs!Click
    <2> QED BY <2>1, <2>2, AbortedCalls, AbortKeepsNumbers
  <1>1. CASE calls' = Logs!Aborted /\ ref' \in {Absent, ref} /\ UNCHANGED <<lastTail, tailLines>>
    <2>1. Numbered' /\ OneTailANumber'
      BY <1>n, <1>1 DEF Numbered, OneTailANumber, Logs!IsTail, CallShape
    <2>2. HeldTails'
      BY <1>n, <1>1 DEF HeldTails, LogsInv, Logs!IsTail
    <2>3. Logs!TailUnderControl' /\ Logs!LinesOfOneTail'
      BY <1>n, <1>1 DEF LogsInv, Logs!IsTail, Logs!TailUnderControl, Logs!LinesOfOneTail
    <2> QED BY <2>1, <2>2, <2>3 DEF LogsInv
  <1>2. ASSUME NEW f \in Files, Logs!StartTail(f)
        PROVE  LogsInv'
    <2> DEFINE new == Logs!Call("tail", "tail", Logs!Selected, conn, <<f>>)
    <2>1. CallShape(new) /\ new.kind = "tail" /\ new.n = clicks + 1 /\ new.st = "sent"
      BY <1>n, FreshShape
    <2>2. /\ calls' = Logs!Aborted \cup {new} /\ mounted /\ UNCHANGED mounted
          /\ ref' = clicks + 1 /\ lastTail' = clicks + 1 /\ tailStatus' = "connecting" /\ tailLines' = {}
      BY <1>2 DEF Logs!StartTail, Logs!Click
    <2> HIDE DEF new
    <2>3. Numbered'
      BY <1>n, <2>1, <2>2 DEF Numbered, CallShape
    <2>4. OneTailANumber'
      BY <1>n, <2>1, <2>2 DEF OneTailANumber, Logs!IsTail
    <2>5. HeldTails'
      BY <1>n, <2>1, <2>2 DEF HeldTails, Logs!IsTail
    <2>6. Logs!TailUnderControl' /\ Logs!LinesOfOneTail'
      BY <1>n, <2>1, <2>2 DEF Logs!IsTail, Logs!TailUnderControl, Logs!LinesOfOneTail
    <2> QED BY <2>3, <2>4, <2>5, <2>6 DEF LogsInv
  <1> QED BY <1>1, <1>2 DEF Logs!StopTail, Logs!Leave, Logs!tailVars

\* A call that is replaced by one of the same number.
LEMMA ReplacedCall ==
  ASSUME LogsInv, NEW c \in calls, NEW d, CallShape(d), d.n = c.n,
         d.kind = "tail" => c.kind = "tail" /\ d.st # "sent" /\ (d.st # "aborted" => c.st # "aborted"),
         calls' = (calls \ {c}) \cup {d}, UNCHANGED <<lastTail, tailLines, mounted>>,
         clicks' \in {clicks, clicks + 1},
         ref' = ref \/ (ref' = Absent /\ ref = c.n /\ d.kind # "tail" /\ c.kind = "tail"),
         tailStatus' = tailStatus \/ (c.kind = "tail" /\ c.st # "aborted")
  PROVE  LogsInv'
  <1>1. /\ clicks \in Nat
        /\ \A e \in calls : CallShape(e) /\ e.n \in 0..clicks
    BY DEF LogsInv, Numbered
  <1>2. /\ \A a, b \in calls : a.kind = "tail" /\ b.kind = "tail" /\ a.n = b.n => a = b
        /\ \A a \in calls : a.kind = "tail" /\ a.st # "aborted" => ref = a.n
        /\ ref \in {Absent, lastTail}
    BY DEF LogsInv, OneTailANumber, HeldTails, Logs!IsTail
  <1>3. Numbered'
    BY <1>1 DEF Numbered, CallShape
  <1>4. OneTailANumber'
    BY <1>2 DEF OneTailANumber, Logs!IsTail
  <1>5. HeldTails'
    BY <1>2 DEF HeldTails, Logs!IsTail
  <1>6. Logs!TailUnderControl'
    BY <1>2 DEF LogsInv, Logs!TailUnderControl, Logs!IsTail
  <1>7. Logs!LinesOfOneTail'
    BY DEF LogsInv, Logs!LinesOfOneTail
  <1> QED BY <1>3, <1>4, <1>5, <1>6, <1>7 DEF LogsInv

LEMMA TailAnswers ==
  ASSUME LogsInv, NEW c \in calls,
         \/ \E e \in {"ready", "line", "error", "idle", "stopped"} : Logs!TailEvent(c, e)
         \/ Logs!TailStops(c) \/ Logs!Fault(c)
  PROVE  LogsInv'
  <1>n. clicks \in Nat /\ CallShape(c) /\ c.n \in 0..clicks
    BY DEF LogsInv, Numbered
  <1>1. CASE Logs!TailStops(c)
    <2> DEFINE d == Logs!Then(c, "load")
    <2>1. CallShape(d) /\ d.n = c.n /\ d.kind = "load"
      BY <1>n, ThenShape
    <2>2. /\ calls' = (calls \ {c}) \cup {d} /\ c.kind = "tail"
          /\ UNCHANGED <<lastTail, tailLines, mounted, clicks>>
          /\ ref' = ref \/ (ref' = Absent /\ ref = c.n)
          /\ tailStatus' = tailStatus \/ c.st # "aborted"
      BY <1>1 DEF Logs!TailStops, Logs!IsTail
    <2> HIDE DEF d
    <2> QED BY <2>1, <2>2, ReplacedCall
  <1>2. CASE Logs!Fault(c)
    <2> DEFINE st == IF Logs!IsTail(c) THEN "broken" ELSE "error"
    <2> DEFINE d == [c EXCEPT !.st = st]
    <2>1. CallShape(d) /\ d.n = c.n /\ d.kind = c.kind /\ d.st = st
      BY <1>n, SetState
    <2>2. /\ calls' = (calls \ {c}) \cup {d} /\ c.st # "aborted"
          /\ UNCHANGED <<lastTail, tailLines, mounted, ref, tailStatus>> /\ clicks' = clicks + 1
      BY <1>2 DEF Logs!Fault, Logs!tailVars
    <2>3. st # "sent"
      OBVIOUS
    <2> HIDE DEF d, st
    <2> QED BY <2>1, <2>2, <2>3, ReplacedCall
  <1>3. ASSUME NEW e \in {"error", "idle", "stopped"}, Logs!TailEvent(c, e)
        PROVE  LogsInv'
    <2> DEFINE d == [c EXCEPT !.st = "over"]
    <2>1. CallShape(d) /\ d.n = c.n /\ d.kind = c.kind /\ d.st = "over"
      BY <1>n, SetState
    <2>2. /\ calls' = (calls \ {c}) \cup {d} /\ c.kind = "tail" /\ c.st = "sent"
          /\ UNCHANGED <<lastTail, tailLines, mounted, ref, clicks>>
      BY <1>3 DEF Logs!TailEvent, Logs!IsTail
    <2> HIDE DEF d
    <2> QED BY <2>1, <2>2, ReplacedCall
  <1>4. CASE Logs!TailEvent(c, "ready")
    <2>1. UNCHANGED <<calls, lastTail, tailLines, mounted, ref, clicks>> /\ tailStatus' = "live"
      BY <1>4 DEF Logs!TailEvent
    <2> QED BY <2>1 DEF LogsInv, Numbered, OneTailANumber, HeldTails, Logs!TailUnderControl,
                        Logs!LinesOfOneTail, Logs!IsTail, CallShape
  <1>5. CASE Logs!TailEvent(c, "line")
    <2>1. /\ UNCHANGED <<calls, lastTail, mounted, ref, clicks, tailStatus>>
          /\ tailLines' = tailLines \cup {c.n}
          /\ Logs!IsTail(c) /\ c.st = "sent"
      BY <1>5 DEF Logs!TailEvent
    <2>2. c.n = lastTail
      BY <1>n, <2>1, AbsentAssumption DEF LogsInv, HeldTails
    <2> QED BY <2>1, <2>2 DEF LogsInv, Numbered, OneTailANumber, HeldTails, Logs!TailUnderControl,
                              Logs!LinesOfOneTail, Logs!IsTail, CallShape
  <1> QED BY <1>1, <1>2, <1>3, <1>4, <1>5

LEMMA LogsStep == ASSUME LogsInv, Logs!Next PROVE LogsInv'
  BY QuietClicks, QuietAnswers, TailSteps, TailAnswers, Zenon DEF Logs!Next

-----------------------------------------------------------------------------

LEMMA SameCardinality == \A S : Logs!Cardinality(S) = Cardinality(S)
  BY DEF Logs!Cardinality, Cardinality, Logs!IsFiniteSet, IsFiniteSet

LEMMA FilesInOrder == IsSequence(Logs!InOrder(Files))
  <1> DEFINE n == Cardinality(Files)
  <1> DEFINE e(i) == CHOOSE f \in Files : Logs!Rank(f, Files) = i
  <1>1. n \in Nat
    BY FilesAssumption, FS_CardinalityType
  <1>2. Logs!InOrder(Files) = [i \in 1..n |-> e(i)]
    BY SameCardinality, Zenon DEF Logs!InOrder
  <1> HIDE DEF n, e
  <1>3. [i \in 1..n |-> e(i)] \in Seq({e(i) : i \in 1..n})
    BY <1>1
  <1> QED BY <1>2, <1>3 DEF IsSequence

LEMMA BatchKept ==
  ASSUME BatchInv, imported \subseteq imported',
         \A d \in calls' : d \in calls \/ d.own # "batch" \/ BatchCall(d)'
  PROVE  BatchInv'
  <1>1. ASSUME NEW d, BatchCall(d)
        PROVE  BatchCall(d)'
    <2>1. PICK k \in 0..Len(d.all) : Progress(d, k)
      BY <1>1 DEF BatchCall
    <2>2. Progress(d, k)'
      BY <2>1 DEF Progress
    <2> QED BY <1>1, <2>1, <2>2 DEF BatchCall, IsSequence
  <1> QED BY <1>1 DEF BatchInv

\* A call that goes on as it is, or is said to have failed.
LEMMA BatchStays ==
  ASSUME BatchInv, UNCHANGED imported, NEW c \in calls, NEW d, CallShape(c), CallShape(d),
         d.own = c.own, d.kind = c.kind, d.sess = c.sess, d.conn = c.conn, d.left = c.left, d.all = c.all,
         d.st # "ok" \/ c.st = "ok"
  PROVE  d.own # "batch" \/ BatchCall(d)'
  <1> SUFFICES ASSUME d.own = "batch" PROVE BatchCall(d)'
    OBVIOUS
  <1>1. BatchCall(c)
    BY DEF BatchInv
  <1>2. PICK k \in 0..Len(c.all) : Progress(c, k)
    BY <1>1 DEF BatchCall
  <1>3. Progress(d, k)'
    BY <1>2 DEF Progress
  <1> QED BY <1>1, <1>2, <1>3 DEF BatchCall, IsSequence

LEMMA BatchClicks ==
  ASSUME LogsInv, BatchInv,
         \/ \E s \in 1..MaxSessions : Logs!SelectSession(s)
         \/ Logs!Search \/ Logs!CreateSession \/ Logs!Upload
         \/ \E c \in Conns : Logs!SelectConnection(c)
         \/ \E kind \in {"test", "browse", "scan"} : Logs!Ssh(kind)
         \/ \E f \in Files : Logs!ImportRemoteFile(f)
  PROVE  BatchInv'
  <1>n. clicks \in Nat
    BY DEF LogsInv, Numbered
  <1>1. \/ calls' = calls
        \/ \E own \in {"page", "create", "upload", "import"} :
             \E kind, sess, c, files : calls' = calls \cup {Logs!Call(kind, own, sess, c, files)}
    BY DEF Logs!SelectSession, Logs!Search, Logs!CreateSession, Logs!Upload,
           Logs!SelectConnection, Logs!Ssh, Logs!ImportRemoteFile
  <1>2. UNCHANGED imported
    BY DEF Logs!SelectSession, Logs!Search, Logs!CreateSession, Logs!Upload,
           Logs!SelectConnection, Logs!Ssh, Logs!ImportRemoteFile, Logs!serverVars
  <1>3. ASSUME NEW own \in {"page", "create", "upload", "import"}, NEW kind, NEW sess, NEW c, NEW files,
               calls' = calls \cup {Logs!Call(kind, own, sess, c, files)}
        PROVE  BatchInv'
    <2>1. Logs!Call(kind, own, sess, c, files).own = own
      BY <1>n, FreshShape
    <2> QED BY <1>2, <1>3, <2>1, BatchKept
  <1>4. CASE calls' = calls
    BY <1>2, <1>4, BatchKept
  <1> QED BY <1>1, <1>3, <1>4

LEMMA BatchBegins ==
  ASSUME LogsInv, BatchInv, Logs!ImportVisibleFiles
  PROVE  BatchInv'
  <1>n. clicks \in Nat
    BY DEF LogsInv, Numbered
  <1>1. PICK d : d = Logs!Call("import", "batch", Logs!Selected, conn, Logs!InOrder(Files))
    OBVIOUS
  <1>2. calls' = calls \cup {d} /\ UNCHANGED imported
    BY <1>1, Zenon DEF Logs!ImportVisibleFiles, Logs!serverVars
  <1>3. d.kind = "import" /\ d.st = "sent" /\ d.left = Logs!InOrder(Files) /\ d.all = Logs!InOrder(Files)
    BY <1>n, <1>1, FreshShape
  <1>4. IsSequence(d.all) /\ d.left = d.all
    BY <1>3, FilesInOrder
  <1>5. Progress(d, 0)' /\ 0 \in 0..Len(d.all)
    BY <1>3, <1>4 DEF Progress, IsSequence
  <1>6. BatchCall(d)'
    BY <1>3, <1>4, <1>5 DEF BatchCall, IsSequence
  <1> QED BY <1>2, <1>6, BatchKept

\* Tails are no imports.
LEMMA BatchTails ==
  ASSUME LogsInv, BatchInv,
         \/ Logs!StopTail \/ Logs!Leave
         \/ \E f \in Files : Logs!StartTail(f)
         \/ \E c \in calls : \/ \E e \in {"ready", "line", "error", "idle", "stopped"} : Logs!TailEvent(c, e)
                             \/ Logs!TailStops(c)
  PROVE  BatchInv'
  <1>n. clicks \in Nat /\ \A c \in calls : CallShape(c)
    BY DEF LogsInv, Numbered
  <1>m. UNCHANGED imported
    BY DEF Logs!StopTail, Logs!Leave, Logs!StartTail, Logs!TailEvent, Logs!TailStops, Logs!serverVars
  <1>t. \A c \in calls : Logs!IsTail(c) => c.own # "batch"
    BY DEF BatchInv, BatchCall, Logs!IsTail
  <1>a. \A d \in Logs!Aborted : d \in calls \/ d.own # "batch"
    <2> SUFFICES ASSUME NEW d \in Logs!Aborted, d \notin calls PROVE d.own # "batch"
      OBVIOUS
    <2>1. PICK c \in calls : Logs!IsTail(c) /\ d = [c EXCEPT !.st = "aborted"]
      BY DEF Logs!Aborted
    <2>2. [c EXCEPT !.st = "aborted"].own = c.own
      BY <1>n, SetState
    <2> QED BY <1>t, <2>1, <2>2
  <1>1. CASE Logs!StopTail \/ Logs!Leave
    <2>1. calls' = Logs!Aborted
      BY <1>1 DEF Logs!StopTail, Logs!Leave
    <2> QED BY <1>m, <1>a, <2>1, BatchKept
  <1>2. ASSUME NEW f \in Files, Logs!StartTail(f)
        PROVE  BatchInv'
    <2> DEFINE new == Logs!Call("tail", "tail", Logs!Selected, conn, <<f>>)
    <2>1. new.own = "tail"
      BY <1>n, FreshShape
    <2>2. calls' = Logs!Aborted \cup {new}
      BY <1>2 DEF Logs!StartTail
    <2> HIDE DEF new
    <2> QED BY <1>m, <1>a, <2>1, <2>2, BatchKept
  <1>3. ASSUME NEW c \in calls, NEW e \in {"ready", "line", "error", "idle", "stopped"}, Logs!TailEvent(c, e)
        PROVE  BatchInv'
    <2>1. [c EXCEPT !.st = "over"].own = c.own /\ c.own # "batch"
      BY <1>3, <1>n, <1>t, SetState DEF Logs!TailEvent
    <2>2. calls' = calls \/ calls' = (calls \ {c}) \cup {[c EXCEPT !.st = "over"]}
      BY <1>3 DEF Logs!TailEvent
    <2> QED BY <1>m, <2>1, <2>2, BatchKept
  <1>4. ASSUME NEW c \in calls, Logs!TailStops(c)
        PROVE  BatchInv'
    <2>1. Logs!Then(c, "load").own = c.own /\ c.own # "batch"
      BY <1>4, <1>n, <1>t, ThenShape DEF Logs!TailStops
    <2>2. calls' = (calls \ {c}) \cup {Logs!Then(c, "load")}
      BY <1>4 DEF Logs!TailStops
    <2> QED BY <1>m, <2>1, <2>2, BatchKept
  <1> QED BY <1>1, <1>2, <1>3, <1>4

LEMMA BatchFault ==
  ASSUME LogsInv, BatchInv, NEW c \in calls, Logs!Fault(c)
  PROVE  BatchInv'
  <1>n. CallShape(c)
    BY DEF LogsInv, Numbered
  <1> DEFINE st == IF Logs!IsTail(c) THEN "broken" ELSE "error"
  <1> DEFINE d == [c EXCEPT !.st = st]
  <1>1. /\ CallShape(d) /\ d.kind = c.kind /\ d.own = c.own /\ d.sess = c.sess
        /\ d.conn = c.conn /\ d.left = c.left /\ d.all = c.all /\ d.st = st
    BY <1>n, SetState
  <1>2. calls' = (calls \ {c}) \cup {d} /\ UNCHANGED imported
    BY DEF Logs!Fault, Logs!serverVars
  <1>3. st # "ok"
    OBVIOUS
  <1> HIDE DEF d, st
  <1>4. d.own # "batch" \/ BatchCall(d)'
    BY <1>n, <1>1, <1>2, <1>3, BatchStays
  <1> QED BY <1>2, <1>4, BatchKept

\* The server puts the first file that is left into the session.
LEMMA BatchServed ==
  ASSUME LogsInv, BatchInv, NEW c \in calls, Logs!Serve(c)
  PROVE  BatchInv'
  <1>n. CallShape(c)
    BY DEF LogsInv, Numbered
  <1>d. PICK d : d = [c EXCEPT !.st = "ok", !.sess = IF c.kind = "create" THEN made + 1 ELSE @]
    OBVIOUS
  <1>1. /\ CallShape(d) /\ d.kind = c.kind /\ d.own = c.own
        /\ d.conn = c.conn /\ d.left = c.left /\ d.all = c.all /\ d.st = "ok"
        /\ d.sess = IF c.kind = "create" THEN made + 1 ELSE c.sess
    BY <1>n, <1>d, ServedShape, Zenon
  <1>2. /\ calls' = (calls \ {c}) \cup {d}
        /\ imported' = IF c.kind = "import" THEN imported \cup {<<c.sess, c.conn, Head(c.left)>>} ELSE imported
    BY <1>d, Zenon DEF Logs!Serve
  <1>3. ASSUME c.own = "batch" PROVE BatchCall(d)'
    <2>1. BatchCall(c)
      BY <1>3 DEF BatchInv
    <2>2. PICK k \in 0..Len(c.all) : Progress(c, k)
      BY <2>1 DEF BatchCall
    <2>3. d.sess = c.sess /\ imported \subseteq imported'
      BY <1>1, <1>2, <2>1 DEF BatchCall
    <2>4. c.kind = "import" /\ Len(c.left) > 0 => <<c.sess, c.conn, c.left[1]>> \in imported'
      <3>1. IsSequence(c.left) /\ Len(c.left) > 0 => Head(c.left) = c.left[1]
        BY DEF IsSequence
      <3> QED BY <1>2, <2>1, <3>1 DEF BatchCall
    <2>5. Progress(d, k)'
      BY <1>1, <2>2, <2>3, <2>4 DEF Progress
    <2> QED BY <1>1, <2>1, <2>2, <2>3, <2>5 DEF BatchCall, IsSequence
  <1>4. imported \subseteq imported'
    BY <1>2
  <1> QED BY <1>1, <1>2, <1>3, <1>4, BatchKept

LEMMA BatchAnswered ==
  ASSUME LogsInv, BatchInv, NEW c \in calls, Logs!Answered(c)
  PROVE  BatchInv'
  <1>n. CallShape(c) /\ UNCHANGED imported
    BY DEF LogsInv, Numbered, Logs!Answered, Logs!serverVars
  <1>b. c.own = "batch" => BatchCall(c)
    BY DEF BatchInv
  <1>1. CASE calls' = calls \ {c}
    BY <1>1, <1>n, BatchKept
  <1>2. CASE Logs!SearchAnswered(c) /\ calls' = (calls \ {c}) \cup {Logs!Then(c, "load")}
    <2> DEFINE d == Logs!Then(c, "load")
    <2>1. /\ CallShape(d) /\ d.kind = "load" /\ d.own = c.own /\ d.sess = c.sess /\ d.conn = c.conn
          /\ d.left = c.left /\ d.all = c.all /\ d.st = "sent"
      BY <1>n, ThenShape
    <2>2. calls' = (calls \ {c}) \cup {d} /\ c.kind = "search"
      BY <1>2 DEF Logs!SearchAnswered
    <2> HIDE DEF d
    <2>3. ASSUME c.own = "batch" PROVE BatchCall(d)'
      <3>1. PICK k \in 0..Len(c.all) : Progress(c, k)
        BY <1>b, <2>3 DEF BatchCall
      <3>2. Progress(d, k)'
        BY <1>n, <2>1, <3>1 DEF Progress
      <3> QED BY <1>b, <1>n, <2>1, <2>2, <2>3, <3>1, <3>2 DEF BatchCall, IsSequence
    <2> QED BY <1>n, <2>1, <2>2, <2>3, BatchKept
  <1>3. CASE Logs!Stored(c)
    <2>1. CASE /\ c.st = "ok" /\ Len(c.left) <= 1
               /\ calls' = (calls \ {c}) \cup {Logs!Then(c, "search")}
      <3> DEFINE d == Logs!Then(c, "search")
      <3>1. /\ CallShape(d) /\ d.kind = "search" /\ d.own = c.own /\ d.sess = c.sess /\ d.conn = c.conn
            /\ d.left = c.left /\ d.all = c.all /\ d.st = "sent"
        BY <1>n, ThenShape
      <3>2. calls' = (calls \ {c}) \cup {d}
        BY <2>1
      <3> HIDE DEF d
      <3>3. ASSUME c.own = "batch" PROVE BatchCall(d)'
        <4>1. c.kind = "import" /\ IsSequence(c.all) /\ IsSequence(c.left)
          BY <1>b, <1>3, <3>3 DEF BatchCall, Logs!Stored
        <4>2. PICK k \in 0..Len(c.all) : Progress(c, k)
          BY <1>b, <3>3 DEF BatchCall
        <4>3. Progress(d, k)'
          BY <1>n, <3>1, <4>2 DEF Progress
        <4>4. \A i \in DOMAIN c.all : <<c.sess, c.conn, c.all[i]>> \in imported
          <5>0. Len(c.all) \in Nat /\ DOMAIN c.all = 1..Len(c.all) /\ Len(c.left) \in Nat
            BY <4>1 DEF IsSequence
          <5>1. Len(c.left) <= 1 /\ k + Len(c.left) = Len(c.all)
            BY <2>1, <4>2, Zenon DEF Progress
          <5>2. \A i \in 1..Len(c.all) : i \in 1..k \/ (i = k + 1 /\ Len(c.left) = 1)
            <6>1. PICK m \in Nat, n \in Nat : m = Len(c.left) /\ n = Len(c.all)
              BY <5>0
            <6>2. m <= 1 /\ k \in Nat /\ k + m = n
              BY <5>0, <5>1, <6>1
            <6>3. \A i \in 1..n : i \in 1..k \/ (i = k + 1 /\ m = 1)
              BY <6>2
            <6> QED BY <6>1, <6>3, Zenon
          <5>3. Len(c.left) = 1 => c.left[1] = c.all[k + 1] /\ <<c.sess, c.conn, c.left[1]>> \in imported
            BY <2>1, <4>1, <4>2 DEF Progress
          <5> QED BY <5>0, <5>1, <5>2, <5>3, <4>2 DEF Progress
        <4> QED BY <1>n, <3>1, <4>1, <4>2, <4>3, <4>4 DEF BatchCall, IsSequence
      <3> QED BY <1>n, <3>1, <3>2, <3>3, BatchKept
    <2>2. CASE /\ c.st = "ok" /\ Len(c.left) > 1
               /\ calls' = (calls \ {c}) \cup {[Logs!Then(c, "import") EXCEPT !.left = Tail(@)]}
      <3> DEFINE d == [Logs!Then(c, "import") EXCEPT !.left = Tail(@)]
      <3>1. /\ CallShape(d) /\ d.kind = "import" /\ d.own = c.own /\ d.sess = c.sess /\ d.conn = c.conn
            /\ d.left = Tail(c.left) /\ d.all = c.all /\ d.st = "sent"
        BY <1>n, NextFileShape
      <3>2. calls' = (calls \ {c}) \cup {d}
        BY <2>2
      <3> HIDE DEF d
      <3>3. ASSUME c.own = "batch" PROVE BatchCall(d)'
        <4>1. c.kind = "import" /\ IsSequence(c.all) /\ IsSequence(c.left)
          BY <1>b, <1>3, <3>3 DEF BatchCall, Logs!Stored
        <4>2. PICK k \in 0..Len(c.all) : Progress(c, k)
          BY <1>b, <3>3 DEF BatchCall
        <4>3. /\ IsSequence(Tail(c.left)) /\ Len(Tail(c.left)) = Len(c.left) - 1
              /\ \A i \in 1..Len(Tail(c.left)) : Tail(c.left)[i] = c.left[i + 1]
              /\ Len(c.left) \in Nat /\ Len(c.all) \in Nat
          BY <2>2, <4>1 DEF IsSequence
        <4>4. k + 1 \in 0..Len(c.all)
          BY <2>2, <4>2, <4>3 DEF Progress
        <4>5. (k + 1) + Len(d.left) = Len(d.all)
          <5>1. Len(d.left) = Len(c.left) - 1 /\ d.all = c.all
            BY <3>1, <4>3
          <5>2. k \in Nat /\ k + Len(c.left) = Len(c.all)
            BY <4>2, <4>3 DEF Progress
          <5> QED BY <4>3, <5>1, <5>2
        <4>6. \A i \in 1..Len(d.left) : d.left[i] = d.all[(k + 1) + i]
          <5> SUFFICES ASSUME NEW i \in 1..Len(d.left) PROVE d.left[i] = d.all[(k + 1) + i]
            OBVIOUS
          <5>1. d.left[i] = c.left[i + 1] /\ i + 1 \in 1..Len(c.left)
            BY <3>1, <4>3
          <5>2. c.left[i + 1] = c.all[k + (i + 1)] /\ k + (i + 1) = (k + 1) + i
            BY <4>2, <5>1 DEF Progress
          <5> QED BY <3>1, <5>1, <5>2
        <4>7. \A i \in 1..(k + 1) : <<d.sess, d.conn, d.all[i]>> \in imported
          <5>1. <<c.sess, c.conn, c.left[1]>> \in imported /\ c.left[1] = c.all[k + 1]
            BY <2>2, <4>1, <4>2, <4>3 DEF Progress
          <5>2. \A i \in 1..k : <<c.sess, c.conn, c.all[i]>> \in imported
            BY <4>2 DEF Progress
          <5>3. k \in Nat /\ \A i \in 1..(k + 1) : i \in 1..k \/ i = k + 1
            BY <4>2, <4>3
          <5> QED BY <3>1, <5>1, <5>2, <5>3
        <4>8. Progress(d, k + 1)'
          BY <1>n, <3>1, <4>5, <4>6, <4>7 DEF Progress
        <4> QED BY <1>n, <3>1, <4>1, <4>3, <4>4, <4>8 DEF BatchCall, IsSequence
      <3> QED BY <1>n, <3>1, <3>2, <3>3, BatchKept
    <2> QED BY <1>1, <1>3, <2>1, <2>2 DEF Logs!Stored
  <1> QED BY <1>1, <1>2, <1>3 DEF Logs!Answered, Logs!LoadAnswered, Logs!SearchAnswered, Logs!CreateAnswered,
                                  Logs!SshAnswered

LEMMA BatchInit == ASSUME Logs!Init PROVE BatchInv
  BY DEF Logs!Init, BatchInv

LEMMA BatchStep == ASSUME LogsInv, BatchInv, Logs!Next PROVE BatchInv'
  BY BatchClicks, BatchBegins, BatchTails, BatchFault, BatchServed, BatchAnswered, Zenon DEF Logs!Next

-----------------------------------------------------------------------------

\* The logs page is shown and both of its invariants hold, or another page is.
LogsShown == page = "logs" => LogsInv /\ BatchInv

LEMMA LogsAlways == PagesSpec => []LogsShown
  <1>1. PagesInit => LogsShown
    BY LogsInit, BatchInit DEF PagesInit, LogsShown
  <1>2. LogsShown /\ [PagesNext]_<<pageVars, viewVars, page>> => LogsShown'
    <2> SUFFICES ASSUME LogsInv, BatchInv, page = "logs", [PagesNext]_<<pageVars, viewVars, page>>
                 PROVE  LogsInv' /\ BatchInv'
      BY OnePageMoves DEF LogsShown
    <2>1. CASE Logs!Next
      BY <2>1, LogsStep, BatchStep
    <2>2. CASE UNCHANGED logsVars
      <3>1. LogsInv'
        BY <2>2 DEF LogsInv, Numbered, OneTailANumber, HeldTails, Logs!TailUnderControl,
                    Logs!LinesOfOneTail, logsVars, Logs!IsTail, CallShape
      <3>2. BatchInv'
        BY <2>2, BatchKept DEF logsVars
      <3> QED BY <3>1, <3>2
    <2> QED BY <2>1, <2>2, OnePageMoves
  <1> QED BY <1>1, <1>2, PTL DEF PagesSpec

\* A tail that runs is the one the stop button aborts, and the lines on the screen are of
\* the tail started last, however many were started, ended or aborted (LogsPage.tsx
\* 175-177 and 300-369).
THEOREM TailsAreInHand == PagesSpec => []TailInHand
  <1>1. LogsShown => TailInHand
    BY DEF LogsShown, TailInHand, Logs!TailInHand, LogsInv
  <1> QED BY <1>1, LogsAlways, PTL

\* An import of all files that goes on to the search has stored every one of them in the
\* session of the click, for any number of files and whatever else is selected or imported
\* meanwhile (LogsPage.tsx 401-428).
THEOREM BatchesAreComplete == PagesSpec => []BatchIsComplete
  <1>1. LogsShown => BatchIsComplete
    BY DEF LogsShown, BatchIsComplete, Logs!BatchIsComplete, BatchInv, BatchCall
  <1> QED BY <1>1, LogsAlways, PTL

-----------------------------------------------------------------------------
(* The connection page. What is typed belongs to the form that is open,    *)
(* and goes with its request to the registry.                              *)

Secrets == [what : SUBSET Connections!Fields, typedFor : Nat]
Inputs == [kind : Connections!Kinds, team : Teams \cup {Absent}, secret : Secrets]

\* A request has the fields of Request.
IsRequest(r) ==
  r \in [op : {"list", "create", "update", "remove"}, id : {r.id}, input : Inputs, after : {r.after},
         n : {r.n}, st : {"sent", "ok", "error"}, items : SUBSET Connections!Item, teams : SUBSET Teams]

ConnectionTypes ==
  /\ created \in Nat /\ DOMAIN registry \subseteq 1..created /\ registry \in [DOMAIN registry -> Inputs]
  /\ admins \subseteq Teams /\ adminTeams \subseteq Teams /\ listed \subseteq Connections!Item
  /\ formMode \in {"none", "create", "edit"}
  /\ form \in [kind : Connections!Kinds, scope : {"personal", "team"}, team : Teams \cup {Absent}, secret : Secrets]
  /\ \A r \in requests : IsRequest(r)

\* What is typed belongs to the form that is open.
TypedHere ==
  /\ formMode = "edit" => editing \in Connections!Item /\ editing # Absent
  /\ formMode = "create" => editing = Absent
  /\ formMode # "none" /\ form.secret.what # {} =>
       form.secret.typedFor = IF formMode = "edit" THEN editing.id ELSE 0

\* A request carries what was typed for it, and enough of it to log in.
SentAsTyped ==
  \A r \in requests : r.op \in {"create", "update"} /\ r.input.secret.what # {} =>
    /\ Connections!LoginFields(r.input.secret.what) # {}
    /\ r.input.secret.typedFor = IF r.op = "update" THEN r.id ELSE 0

StoredAsTyped ==
  \A i \in DOMAIN registry : /\ registry[i].secret.typedFor = i
                             /\ Connections!LoginFields(registry[i].secret.what) # {}

ConnectionInv == ConnectionTypes /\ TypedHere /\ SentAsTyped /\ StoredAsTyped

-----------------------------------------------------------------------------

LEMMA ConnectionInit == ASSUME Connections!Init PROVE ConnectionInv
  <1> DEFINE start == Connections!Load("page", 0)
  <1>1. requests = {start} /\ start.op = "list" /\ IsRequest(start)
    BY DEF Connections!Init, Connections!Load, Connections!Request, Connections!NoInput, Connections!NoSecret,
           IsRequest, Inputs, Secrets, Connections!Kinds, Connections!Fields
  <1> HIDE DEF start
  <1>2. PICK t \in Teams \cup {Absent} :
       registry = [i \in 1..2 |->
         IF i = 1 THEN [kind |-> "database", team |-> Absent,
                        secret |-> [what |-> {"password"}, typedFor |-> 1]]
         ELSE [kind |-> "ssh", team |-> t, secret |-> [what |-> {"privateKey"}, typedFor |-> 2]]]
    BY DEF Connections!Init
  <1>3. DOMAIN registry = 1..2 /\ registry \in [1..2 -> Inputs]
    BY <1>2 DEF Inputs, Secrets, Connections!Kinds, Connections!Fields
  <1>4. StoredAsTyped
    BY <1>2 DEF StoredAsTyped, Connections!LoginFields
  <1>5. form \in [kind : Connections!Kinds, scope : {"personal", "team"}, team : Teams \cup {Absent}, secret : Secrets]
    BY DEF Connections!Init, Connections!EmptyForm, Connections!NoSecret, Secrets, Connections!Kinds, Connections!Fields
  <1>6. ConnectionTypes
    <2>1. created = 2 /\ admins \subseteq Teams /\ adminTeams \subseteq Teams /\ listed = {} /\ formMode = "none"
      BY DEF Connections!Init
    <2> QED BY <1>1, <1>3, <1>5, <2>1 DEF ConnectionTypes
  <1>7. TypedHere
    BY DEF Connections!Init, TypedHere
  <1>8. SentAsTyped
    BY <1>1 DEF SentAsTyped
  <1> QED BY <1>4, <1>6, <1>7, <1>8 DEF ConnectionInv

\* A request of the page is well formed.
LEMMA RequestShape ==
  ASSUME NEW op \in {"list", "create", "update", "remove"}, NEW id, NEW input \in Inputs, NEW after
  PROVE  LET r == Connections!Request(op, id, input, after) IN
         IsRequest(r) /\ r.op = op /\ r.id = id /\ r.input = input
  BY DEF Connections!Request, IsRequest

LEMMA LoadShape ==
  ASSUME NEW after, NEW n
  PROVE  LET r == Connections!Load(after, n) IN IsRequest(r) /\ r.op = "list"
  BY DEF Connections!Load, Connections!Request, Connections!NoInput, Connections!NoSecret,
         IsRequest, Inputs, Secrets, Connections!Kinds, Connections!Fields

LEMMA AnswerShape ==
  ASSUME NEW r, IsRequest(r), NEW st \in {"ok", "error"}
  PROVE  LET q == [r EXCEPT !.st = st] IN
         IsRequest(q) /\ q.op = r.op /\ q.id = r.id /\ q.input = r.input
  BY DEF IsRequest

\* The calls change, and nothing else that the invariant is about but the list.
LEMMA RequestsChange ==
  ASSUME ConnectionInv, UNCHANGED <<registry, created, formMode, editing, form>>,
         admins' \subseteq Teams, adminTeams' \subseteq Teams, listed' \subseteq Connections!Item,
         \A r \in requests' : \/ r \in requests
                              \/ /\ IsRequest(r)
                                 /\ r.op \in {"list", "remove"}
                              \/ /\ IsRequest(r)
                                 /\ \E q \in requests : r.op = q.op /\ r.id = q.id /\ r.input = q.input
  PROVE  ConnectionInv'
  <1>1. ConnectionTypes'
    BY DEF ConnectionInv, ConnectionTypes
  <1>2. TypedHere'
    BY DEF ConnectionInv, TypedHere
  <1>3. SentAsTyped'
    BY DEF ConnectionInv, SentAsTyped
  <1>4. StoredAsTyped'
    BY DEF ConnectionInv, StoredAsTyped
  <1> QED BY <1>1, <1>2, <1>3, <1>4 DEF ConnectionInv

LEMMA ListSteps ==
  ASSUME ConnectionInv,
         \/ \E f \in Connections!Kinds \cup {"all"} : Connections!SetKind(f)
         \/ \E c \in listed : Connections!Select(c)
         \/ Connections!AskDelete \/ Connections!CancelDelete \/ Connections!ConfirmDelete
  PROVE  ConnectionInv'
  <1>1. /\ UNCHANGED <<registry, created, formMode, editing, form, admins, adminTeams, listed>>
        /\ \/ requests' = requests
           \/ requests' = requests \cup
                {Connections!Request("remove", deleteTarget, Connections!NoInput, "delete")}
    BY DEF Connections!SetKind, Connections!Select, Connections!AskDelete, Connections!CancelDelete,
           Connections!ConfirmDelete, Connections!serverVars, Connections!pageVars, Connections!formVars
  <1>2. Connections!NoInput \in Inputs
    BY DEF Connections!NoInput, Connections!NoSecret, Inputs, Secrets, Connections!Kinds, Connections!Fields
  <1>3. LET r == Connections!Request("remove", deleteTarget, Connections!NoInput, "delete") IN
        IsRequest(r) /\ r.op = "remove"
    BY <1>2, RequestShape
  <1>4. admins \subseteq Teams /\ adminTeams \subseteq Teams /\ listed \subseteq Connections!Item
    BY DEF ConnectionInv, ConnectionTypes
  <1> QED BY <1>1, <1>3, <1>4, RequestsChange

\* A form is opened, edited or closed.
LEMMA FormChange ==
  ASSUME ConnectionInv, UNCHANGED <<registry, created, admins, adminTeams, listed, requests>>,
         formMode' \in {"none", "create", "edit"},
         form' \in [kind : Connections!Kinds, scope : {"personal", "team"}, team : Teams \cup {Absent}, secret : Secrets],
         TypedHere'
  PROVE  ConnectionInv'
  <1>1. ConnectionTypes'
    BY DEF ConnectionInv, ConnectionTypes
  <1>2. SentAsTyped'
    BY DEF ConnectionInv, SentAsTyped
  <1>3. StoredAsTyped'
    BY DEF ConnectionInv, StoredAsTyped
  <1> QED BY <1>1, <1>2, <1>3 DEF ConnectionInv

LEMMA OpenFormSteps ==
  ASSUME ConnectionInv,
         \/ \E c \in listed : Connections!OpenEdit(c)
         \/ Connections!OpenCreate \/ Connections!Cancel
  PROVE  ConnectionInv'
  <1>t. ConnectionTypes
    BY DEF ConnectionInv
  <1>1. ASSUME NEW c \in listed, Connections!OpenEdit(c)
        PROVE  ConnectionInv'
    <2>1. /\ formMode' = "edit" /\ editing' = c /\ form' = Connections!FormOf(c)
          /\ UNCHANGED <<registry, created, admins, adminTeams, listed, requests>>
      BY <1>1 DEF Connections!OpenEdit, Connections!serverVars, Connections!pageVars
    <2>2. c \in Connections!Item /\ c # Absent
      BY <1>t, AbsentAssumption DEF ConnectionTypes
    <2>3. /\ form' \in [kind : Connections!Kinds, scope : {"personal", "team"}, team : Teams \cup {Absent}, secret : Secrets]
          /\ form'.secret.what = {}
      BY <2>1, <2>2 DEF Connections!FormOf, Connections!NoSecret, Connections!Item, Secrets
    <2>4. TypedHere'
      BY <2>1, <2>2, <2>3 DEF TypedHere
    <2> QED BY <2>1, <2>3, <2>4, FormChange
  <1>2. CASE Connections!OpenCreate
    <2>1. /\ formMode' = "create" /\ editing' = Absent /\ form' = Connections!EmptyForm("database")
          /\ UNCHANGED <<registry, created, admins, adminTeams, listed, requests>>
      BY <1>2 DEF Connections!OpenCreate, Connections!serverVars, Connections!pageVars
    <2>2. /\ form' \in [kind : Connections!Kinds, scope : {"personal", "team"}, team : Teams \cup {Absent}, secret : Secrets]
          /\ form'.secret.what = {}
      BY <2>1 DEF Connections!EmptyForm, Connections!NoSecret, Connections!Kinds, Secrets
    <2>3. TypedHere'
      BY <2>1, <2>2 DEF TypedHere
    <2> QED BY <2>1, <2>2, <2>3, FormChange
  <1>3. CASE Connections!Cancel
    <2>1. /\ formMode' = "none" /\ form' = form
          /\ UNCHANGED <<registry, created, admins, adminTeams, listed, requests>>
      BY <1>3 DEF Connections!Cancel, Connections!serverVars, Connections!pageVars
    <2>2. TypedHere'
      BY <2>1 DEF TypedHere
    <2> QED BY <1>t, <2>1, <2>2, FormChange DEF ConnectionTypes
  <1> QED BY <1>1, <1>2, <1>3

LEMMA EditSteps ==
  ASSUME ConnectionInv, Connections!EditForm
  PROVE  ConnectionInv'
  <1> DEFINE Forms == [kind : Connections!Kinds, scope : {"personal", "team"}, team : Teams \cup {Absent}, secret : Secrets]
  <1>t. ConnectionTypes /\ TypedHere /\ form \in Forms /\ adminTeams \subseteq Teams
    BY DEF ConnectionInv, ConnectionTypes
  <1>1. /\ formMode # "none"
        /\ UNCHANGED <<registry, created, admins, adminTeams, listed, requests, formMode, editing>>
    BY DEF Connections!EditForm, Connections!serverVars, Connections!pageVars
  <1>2. form' \in Forms /\ (form'.secret = form.secret \/
          form'.secret.typedFor = IF formMode = "edit" THEN editing.id ELSE 0)
    <2>1. ASSUME NEW k \in Connections!Kinds, Connections!SetFormKind(k)
          PROVE  form' \in Forms /\ form'.secret = form.secret
      BY <1>t, <2>1 DEF Connections!SetFormKind
    <2>2. ASSUME NEW s \in {"personal", "team"}, Connections!SetFormScope(s)
          PROVE  form' \in Forms /\ form'.secret = form.secret
      <3> DEFINE team == IF s = "personal" THEN Absent
                ELSE IF form.team # Absent \/ adminTeams = {} THEN form.team
                ELSE CHOOSE t \in adminTeams : TRUE
      <3>1. team \in Teams \cup {Absent}
        <4>1. adminTeams # {} => (CHOOSE t \in adminTeams : TRUE) \in adminTeams
          OBVIOUS
        <4> QED BY <1>t, <4>1
      <3>2. form' = [form EXCEPT !.scope = s, !.team = team]
        BY <2>2 DEF Connections!SetFormScope
      <3> HIDE DEF team
      <3> QED BY <1>t, <3>1, <3>2
    <2>3. ASSUME NEW t \in Teams, Connections!SelectTeam(t)
          PROVE  form' \in Forms /\ form'.secret = form.secret
      BY <1>t, <2>3 DEF Connections!SelectTeam
    <2>4. ASSUME NEW f \in Connections!Fields, Connections!Type(f)
          PROVE  form' \in Forms /\ form'.secret.typedFor = IF formMode = "edit" THEN editing.id ELSE 0
      <3> DEFINE what == IF f \in form.secret.what THEN form.secret.what \ {f} ELSE form.secret.what \cup {f}
                 owner == IF formMode = "edit" THEN editing.id ELSE 0
      <3>1. what \in SUBSET Connections!Fields /\ owner \in Nat
        BY <1>t DEF Secrets, TypedHere, Connections!Item
      <3>2. form' = [form EXCEPT !.secret = [what |-> what, typedFor |-> owner]]
        BY <2>4 DEF Connections!Type
      <3> HIDE DEF what
      <3>3. [what |-> what, typedFor |-> owner] \in Secrets
        BY <3>1 DEF Secrets
      <3> QED BY <1>t, <3>2, <3>3
    <2> QED BY <2>1, <2>2, <2>3, <2>4 DEF Connections!EditForm
  <1>3. TypedHere'
    BY <1>t, <1>1, <1>2 DEF TypedHere
  <1> QED BY <1>t, <1>1, <1>2, <1>3, FormChange DEF ConnectionTypes

LEMMA SubmitStep ==
  ASSUME ConnectionInv, Connections!Submit
  PROVE  ConnectionInv'
  <1>t. ConnectionTypes /\ TypedHere /\ SentAsTyped /\ StoredAsTyped
    BY DEF ConnectionInv
  <1> DEFINE input == [kind |-> form.kind, team |-> form.team, secret |-> Connections!Secret]
             new == IF formMode = "edit" /\ editing # Absent
                    THEN Connections!Request("update", editing.id, input, "save")
                    ELSE Connections!Request("create", 0, input, "save")
  <1>1. /\ formMode # "none" /\ requests' = requests \cup {new}
        /\ UNCHANGED <<registry, created, admins, adminTeams, listed, formMode, editing, form>>
    BY DEF Connections!Submit, Connections!serverVars, Connections!pageVars, Connections!formVars
  <1>2. /\ Connections!Secret \in Secrets
        /\ Connections!Secret.what # {} => /\ Connections!LoginFields(Connections!Secret.what) # {}
                                           /\ Connections!Secret.typedFor = form.secret.typedFor
                                           /\ form.secret.what # {}
    <2> DEFINE sent == IF form.kind = "database" THEN form.secret.what \cap {"password"} ELSE form.secret.what
    <2>0. Connections!Secret = IF Connections!LoginFields(sent) = {} THEN [what |-> {}, typedFor |-> 0]
                               ELSE [form.secret EXCEPT !.what = sent]
      BY DEF Connections!Secret, Connections!NoSecret
    <2>1. form.secret \in Secrets /\ sent \in SUBSET Connections!Fields /\ sent \subseteq form.secret.what
      BY <1>t DEF ConnectionTypes, Secrets
    <2> HIDE DEF sent
    <2>2. CASE Connections!LoginFields(sent) = {}
      BY <2>0, <2>2 DEF Secrets
    <2>3. CASE Connections!LoginFields(sent) # {}
      <3>1. Connections!Secret = [form.secret EXCEPT !.what = sent]
        BY <2>0, <2>3
      <3>2. /\ Connections!Secret \in Secrets /\ Connections!Secret.what = sent
            /\ Connections!Secret.typedFor = form.secret.typedFor
        BY <2>1, <3>1 DEF Secrets
      <3>3. sent # {}
        BY <2>3 DEF Connections!LoginFields
      <3> QED BY <2>1, <2>3, <3>2, <3>3
    <2> QED BY <2>2, <2>3
  <1>3. input \in Inputs /\ input.secret = Connections!Secret
    BY <1>2, <1>t DEF ConnectionTypes, Inputs
  <1> HIDE DEF input
  <1>4. /\ IsRequest(new) /\ new.input = input
        /\ IF formMode = "edit" THEN new.op = "update" /\ new.id = editing.id ELSE new.op = "create"
    <2>1. formMode = "edit" => editing # Absent
      BY <1>t DEF TypedHere
    <2>2. CASE formMode = "edit"
      <3>1. new = Connections!Request("update", editing.id, input, "save")
        BY <2>1, <2>2
      <3> HIDE DEF new
      <3> QED BY <1>3, <2>2, <3>1, RequestShape
    <2>3. CASE formMode # "edit"
      <3>1. new = Connections!Request("create", 0, input, "save")
        BY <2>3
      <3> HIDE DEF new
      <3> QED BY <1>3, <2>3, <3>1, RequestShape
    <2> QED BY <2>2, <2>3
  <1> HIDE DEF new
  <1>5. ConnectionTypes'
    BY <1>1, <1>4, <1>t DEF ConnectionTypes
  <1>6. TypedHere' /\ StoredAsTyped'
    BY <1>1, <1>t DEF TypedHere, StoredAsTyped
  <1>7. SentAsTyped'
    BY <1>1, <1>2, <1>3, <1>4, <1>t DEF SentAsTyped, TypedHere
  <1> QED BY <1>5, <1>6, <1>7 DEF ConnectionInv

LEMMA RequestAnswered ==
  ASSUME ConnectionInv, NEW r \in requests, Connections!Answered(r)
  PROVE  ConnectionInv'
  <1>t. ConnectionTypes /\ TypedHere /\ SentAsTyped /\ StoredAsTyped
    BY DEF ConnectionInv
  <1>s. UNCHANGED <<registry, created, admins>>
    BY DEF Connections!Answered, Connections!serverVars
  <1>1. CASE Connections!ListAnswered(r)
    <2>1. /\ requests' = requests \ {r} /\ UNCHANGED <<formMode, editing, form>>
          /\ (listed' = r.items /\ adminTeams' = r.teams) \/ UNCHANGED <<listed, adminTeams>>
      BY <1>1 DEF Connections!ListAnswered, Connections!formVars
    <2>2. r.items \subseteq Connections!Item /\ r.teams \subseteq Teams
      BY <1>t DEF ConnectionTypes, IsRequest
    <2>3. admins' \subseteq Teams /\ adminTeams' \subseteq Teams /\ listed' \subseteq Connections!Item
      BY <1>s, <1>t, <2>1, <2>2 DEF ConnectionTypes
    <2> QED BY <1>s, <2>1, <2>3, RequestsChange
  <1>2. CASE Connections!SaveAnswered(r)
    <2>1. /\ UNCHANGED <<listed, adminTeams, form>>
          /\ \/ formMode' = "none" /\ requests' = (requests \ {r}) \cup {Connections!Load("save", r.n)}
             \/ requests' = requests \ {r} /\ UNCHANGED <<formMode, editing>>
      BY <1>2 DEF Connections!SaveAnswered, Connections!pageVars
    <2>2. IsRequest(Connections!Load("save", r.n)) /\ Connections!Load("save", r.n).op = "list"
      BY LoadShape
    <2>3. \A q \in requests' : q \in requests \/ (IsRequest(q) /\ q.op = "list")
      BY <2>1, <2>2
    <2>4. ConnectionTypes'
      BY <1>s, <1>t, <2>1, <2>3 DEF ConnectionTypes
    <2>5. TypedHere'
      BY <1>t, <2>1 DEF TypedHere
    <2>6. SentAsTyped' /\ StoredAsTyped'
      BY <1>s, <1>t, <2>3 DEF SentAsTyped, StoredAsTyped
    <2> QED BY <2>4, <2>5, <2>6 DEF ConnectionInv
  <1>3. CASE Connections!DeleteAnswered(r)
    <2>1. /\ UNCHANGED <<listed, adminTeams, form, formMode, editing>>
          /\ \/ requests' = (requests \ {r}) \cup {Connections!Load("delete", r.n)}
             \/ requests' = requests \ {r}
      BY <1>3 DEF Connections!DeleteAnswered, Connections!pageVars, Connections!formVars
    <2>2. IsRequest(Connections!Load("delete", r.n)) /\ Connections!Load("delete", r.n).op = "list"
      BY LoadShape
    <2>3. admins' \subseteq Teams /\ adminTeams' \subseteq Teams /\ listed' \subseteq Connections!Item
      BY <1>s, <1>t, <2>1 DEF ConnectionTypes
    <2> QED BY <1>s, <2>1, <2>2, <2>3, RequestsChange
  <1> QED BY <1>1, <1>2, <1>3 DEF Connections!Answered

\* The call of r has an answer; nothing else about the calls changes.
LEMMA OtherAnswers ==
  ASSUME ConnectionInv, NEW r \in requests, NEW st \in {"ok", "error"}, Connections!Answer(r, st)
  PROVE  \A q \in requests' : \/ q \in requests
                              \/ IsRequest(q) /\ q.op = r.op /\ q.id = r.id /\ q.input = r.input
  <1>1. IsRequest(r)
    BY DEF ConnectionInv, ConnectionTypes
  <1> DEFINE a == [r EXCEPT !.st = st]
  <1>2. IsRequest(a) /\ a.op = r.op /\ a.id = r.id /\ a.input = r.input
    BY <1>1, AnswerShape
  <1>3. requests' = {q \in requests : q.n # r.n \/ q.op # r.op} \cup {a}
    BY DEF Connections!Answer
  <1> HIDE DEF a
  <1> QED BY <1>2, <1>3

LEMMA ListServed ==
  ASSUME ConnectionInv, NEW r \in requests, Connections!List(r)
  PROVE  \A q \in requests' : \/ q \in requests
                              \/ IsRequest(q) /\ q.op = r.op /\ q.id = r.id /\ q.input = r.input
  <1>t. ConnectionTypes /\ IsRequest(r)
    BY DEF ConnectionInv, ConnectionTypes
  <1>1. Connections!Items \subseteq Connections!Item
    <2>1. \A i \in DOMAIN registry : i \in Nat /\ registry[i].kind \in Connections!Kinds
                                     /\ registry[i].team \in Teams \cup {Absent}
      BY <1>t DEF ConnectionTypes, Inputs
    <2> QED BY <2>1 DEF Connections!Items, Connections!Item
  <1> DEFINE items == Connections!Items
             a == [r EXCEPT !.items = items, !.teams = admins]
  <1>2. requests' = {q \in requests : q.n # a.n \/ q.op # a.op} \cup {[a EXCEPT !.st = "ok"]}
    BY DEF Connections!List, Connections!Answer
  <1>3. items \subseteq Connections!Item /\ admins \subseteq Teams
    BY <1>1, <1>t DEF ConnectionTypes
  <1> HIDE DEF items
  <1>4. IsRequest(a) /\ a.op = r.op /\ a.id = r.id /\ a.input = r.input
    BY <1>t, <1>3 DEF IsRequest
  <1> HIDE DEF a
  <1>5. LET b == [a EXCEPT !.st = "ok"] IN IsRequest(b) /\ b.op = a.op /\ b.id = a.id /\ b.input = a.input
    BY <1>4, AnswerShape
  <1> DEFINE b == [a EXCEPT !.st = "ok"]
  <1> HIDE DEF b
  <1>6. requests' = {q \in requests : q.n # a.n \/ q.op # a.op} \cup {b}
    BY <1>2 DEF b
  <1>7. IsRequest(b) /\ b.op = a.op /\ b.id = a.id /\ b.input = a.input
    BY <1>5 DEF b
  <1> QED BY <1>4, <1>6, <1>7

\* The registry changes, and the answer of a call.
LEMMA RegistryChange ==
  ASSUME ConnectionInv, UNCHANGED <<formMode, editing, form, adminTeams, listed>>, admins' \subseteq Teams,
         created' \in Nat, DOMAIN registry' \subseteq 1..created', registry' \in [DOMAIN registry' -> Inputs],
         StoredAsTyped',
         \A q \in requests' : \/ q \in requests
                              \/ /\ IsRequest(q)
                                 /\ \E r \in requests : q.op = r.op /\ q.id = r.id /\ q.input = r.input
  PROVE  ConnectionInv'
  <1>1. ConnectionTypes'
    BY DEF ConnectionInv, ConnectionTypes
  <1>2. TypedHere'
    BY DEF ConnectionInv, TypedHere
  <1>3. SentAsTyped'
    BY DEF ConnectionInv, SentAsTyped
  <1> QED BY <1>1, <1>2, <1>3 DEF ConnectionInv

LEMMA FewerStored ==
  ASSUME ConnectionInv, NEW i, registry' = [j \in DOMAIN registry \ {i} |-> registry[j]], created' = created
  PROVE  /\ created' \in Nat /\ DOMAIN registry' \subseteq 1..created' /\ registry' \in [DOMAIN registry' -> Inputs]
         /\ StoredAsTyped'
  BY DEF ConnectionInv, ConnectionTypes, StoredAsTyped

LEMMA CreateServed ==
  ASSUME ConnectionInv, NEW r \in requests, r.op = "create", r.input.secret.what # {}, created' = created + 1,
         registry' = [i \in DOMAIN registry \cup {created + 1} |->
               IF i \in DOMAIN registry THEN registry[i]
               ELSE [r.input EXCEPT !.secret.typedFor = IF @ = 0 THEN created + 1 ELSE @]]
  PROVE  /\ created' \in Nat /\ DOMAIN registry' \subseteq 1..created' /\ registry' \in [DOMAIN registry' -> Inputs]
         /\ StoredAsTyped'
  <1>t. ConnectionTypes /\ SentAsTyped /\ StoredAsTyped
    BY DEF ConnectionInv
  <1>1. /\ r.input \in Inputs /\ r.input.secret \in Secrets
        /\ Connections!LoginFields(r.input.secret.what) # {} /\ r.input.secret.typedFor = 0
    BY <1>t DEF ConnectionTypes, SentAsTyped, IsRequest, Inputs
  <1>2. created \in Nat /\ created + 1 \in Nat /\ created + 1 \notin DOMAIN registry
    BY <1>t DEF ConnectionTypes
  <1> DEFINE new == [r.input EXCEPT !.secret.typedFor = IF @ = 0 THEN created + 1 ELSE @]
  <1>3. PICK m \in Nat : m = created + 1
    BY <1>2
  <1>4. new = [r.input EXCEPT !.secret = [r.input.secret EXCEPT !.typedFor = m]]
    BY <1>1, <1>3
  <1>5. LET s == [r.input.secret EXCEPT !.typedFor = m] IN
        s \in Secrets /\ s.typedFor = m /\ s.what = r.input.secret.what
    BY <1>1 DEF Secrets
  <1> DEFINE s == [r.input.secret EXCEPT !.typedFor = m]
  <1>6. s \in Secrets /\ s.typedFor = m /\ s.what = r.input.secret.what /\ new = [r.input EXCEPT !.secret = s]
    BY <1>4, <1>5
  <1>7. /\ DOMAIN registry' = DOMAIN registry \cup {created + 1}
        /\ \A i \in DOMAIN registry : registry'[i] = registry[i]
        /\ registry'[created + 1] = new /\ registry' \in [DOMAIN registry' -> {registry'[i] : i \in DOMAIN registry'}]
    BY <1>2
  <1> HIDE DEF s, new
  <1>8. new \in Inputs /\ new.secret = s
    BY <1>1, <1>6 DEF Inputs
  <1>9. DOMAIN registry' \subseteq 1..created' /\ registry' \in [DOMAIN registry' -> Inputs] /\ created' \in Nat
    <2>1. \A i \in DOMAIN registry : i \in 1..created /\ registry[i] \in Inputs
      BY <1>t DEF ConnectionTypes
    <2>2. \A i \in DOMAIN registry' : i \in 1..(created + 1) /\ registry'[i] \in Inputs
      BY <1>2, <1>7, <1>8, <2>1
    <2> QED BY <1>2, <1>7, <2>2
  <1>10. StoredAsTyped'
    <2>1. registry'[created + 1].secret.typedFor = created + 1
      BY <1>3, <1>6, <1>7, <1>8
    <2>2. Connections!LoginFields(registry'[created + 1].secret.what) # {}
      BY <1>1, <1>6, <1>7, <1>8
    <2> QED BY <1>7, <1>t, <2>1, <2>2 DEF StoredAsTyped
  <1> QED BY <1>9, <1>10

LEMMA UpdateServed ==
  ASSUME ConnectionInv, NEW r \in requests, r.op = "update", r.id \in DOMAIN registry, created' = created,
         registry' = [registry EXCEPT ![r.id].kind = r.input.kind,
               ![r.id].secret = IF r.input.secret.what = {} THEN @ ELSE r.input.secret]
  PROVE  /\ created' \in Nat /\ DOMAIN registry' \subseteq 1..created' /\ registry' \in [DOMAIN registry' -> Inputs]
         /\ StoredAsTyped'
  <1>t. ConnectionTypes /\ SentAsTyped /\ StoredAsTyped
    BY DEF ConnectionInv
  <1>1. r.input.kind \in Connections!Kinds /\ r.input.secret \in Secrets
    BY <1>t DEF ConnectionTypes, IsRequest, Inputs
  <1>2. registry[r.id] \in Inputs
    BY <1>t DEF ConnectionTypes
  <1> DEFINE s == IF r.input.secret.what = {} THEN registry[r.id].secret ELSE r.input.secret
             old == registry[r.id]
             new == [old EXCEPT !.kind = r.input.kind, !.secret = s]
  <1>3. s \in Secrets /\ s.typedFor = r.id /\ Connections!LoginFields(s.what) # {}
    BY <1>1, <1>2, <1>t DEF SentAsTyped, StoredAsTyped, Inputs
  <1>4. registry' = [registry EXCEPT ![r.id] = new]
    BY <1>2, <1>t DEF ConnectionTypes, Inputs
  <1> HIDE DEF s
  <1>5. new \in Inputs /\ new.secret = s
    BY <1>1, <1>2, <1>3 DEF Inputs
  <1> HIDE DEF new, old
  <1>6. /\ DOMAIN registry' = DOMAIN registry /\ registry' \in [DOMAIN registry -> Inputs]
        /\ \A i \in DOMAIN registry : registry'[i] = IF i = r.id THEN new ELSE registry[i]
    <2>1. registry \in [DOMAIN registry -> Inputs]
      BY <1>t DEF ConnectionTypes
    <2> QED BY <1>4, <1>5, <2>1
  <1>7. StoredAsTyped'
    BY <1>3, <1>5, <1>6, <1>t DEF StoredAsTyped
  <1> QED BY <1>6, <1>7, <1>t DEF ConnectionTypes

LEMMA ServedStep ==
  ASSUME ConnectionInv, NEW r \in requests, Connections!Serve(r)
  PROVE  ConnectionInv'
  <1>t. ConnectionTypes /\ StoredAsTyped
    BY DEF ConnectionInv
  <1>0. UNCHANGED <<formMode, editing, form, adminTeams, listed, admins>> /\ admins' \subseteq Teams
    BY <1>t DEF Connections!Serve, Connections!pageVars, Connections!formVars, ConnectionTypes
  <1>a. \A q \in requests' : \/ q \in requests
                             \/ IsRequest(q) /\ q.op = r.op /\ q.id = r.id /\ q.input = r.input
    BY OtherAnswers, ListServed DEF Connections!Serve, Connections!Create, Connections!Update, Connections!Remove
  <1>1. CASE UNCHANGED <<registry, created>>
    <2>1. StoredAsTyped'
      BY <1>1, <1>t DEF StoredAsTyped
    <2>2. created' \in Nat /\ DOMAIN registry' \subseteq 1..created' /\ registry' \in [DOMAIN registry' -> Inputs]
      BY <1>1, <1>t DEF ConnectionTypes
    <2> QED BY <1>0, <1>a, <2>1, <2>2, RegistryChange
  <1>2. CASE Connections!Create(r)
    BY <1>0, <1>1, <1>2, <1>a, CreateServed, RegistryChange DEF Connections!Create
  <1>3. CASE Connections!Update(r)
    BY <1>0, <1>1, <1>3, <1>a, UpdateServed, RegistryChange DEF Connections!Update, Connections!MayChange
  <1>4. CASE Connections!Remove(r)
    BY <1>0, <1>1, <1>4, <1>a, FewerStored, RegistryChange DEF Connections!Remove
  <1> QED BY <1>1, <1>2, <1>3, <1>4 DEF Connections!Serve, Connections!List

LEMMA RequestFaults ==
  ASSUME ConnectionInv, \/ \E r \in requests : Connections!Fault(r)
                        \/ Connections!Meanwhile
  PROVE  ConnectionInv'
  <1>t. ConnectionTypes /\ StoredAsTyped
    BY DEF ConnectionInv
  <1>1. ASSUME NEW r \in requests, Connections!Fault(r)
        PROVE  ConnectionInv'
    <2>1. \A q \in requests' : \/ q \in requests
                               \/ IsRequest(q) /\ q.op = r.op /\ q.id = r.id /\ q.input = r.input
      BY <1>1, OtherAnswers DEF Connections!Fault
    <2>2. UNCHANGED <<registry, created, formMode, editing, form, admins, adminTeams, listed>>
      BY <1>1 DEF Connections!Fault, Connections!serverVars, Connections!pageVars, Connections!formVars
    <2>3. admins' \subseteq Teams /\ adminTeams' \subseteq Teams /\ listed' \subseteq Connections!Item
      BY <1>t, <2>2 DEF ConnectionTypes
    <2> QED BY <2>1, <2>2, <2>3, RequestsChange
  <1>2. CASE Connections!Meanwhile
    <2>1. /\ created' = created /\ UNCHANGED <<formMode, editing, form, adminTeams, listed, requests>>
          /\ \/ registry' = registry /\ \E t \in admins : admins' = admins \ {t}
             \/ admins' = admins /\ \E i \in DOMAIN registry :
                  registry' = [j \in DOMAIN registry \ {i} |-> registry[j]]
      BY <1>2 DEF Connections!Meanwhile, Connections!pageVars, Connections!formVars
    <2>2. admins' \subseteq Teams
      BY <1>t, <2>1 DEF ConnectionTypes
    <2>3. CASE registry' = registry
      <3>1. adminTeams' \subseteq Teams /\ listed' \subseteq Connections!Item
        BY <1>t, <2>1 DEF ConnectionTypes
      <3> QED BY <2>1, <2>2, <2>3, <3>1, RequestsChange
    <2>4. CASE \E i \in DOMAIN registry : registry' = [j \in DOMAIN registry \ {i} |-> registry[j]]
      <3>1. /\ created' \in Nat /\ DOMAIN registry' \subseteq 1..created' /\ registry' \in [DOMAIN registry' -> Inputs]
            /\ StoredAsTyped'
        BY <2>1, <2>4, FewerStored
      <3> QED BY <2>1, <2>2, <3>1, RegistryChange
    <2> QED BY <2>1, <2>3, <2>4
  <1> QED BY <1>1, <1>2

LEMMA ConnectionStep == ASSUME ConnectionInv, Connections!Next PROVE ConnectionInv'
  BY ListSteps, OpenFormSteps, EditSteps, SubmitStep, RequestAnswered, ServedStep, RequestFaults, Zenon DEF Connections!Next

ConnectionsShown == page = "connections" => ConnectionInv

LEMMA ConnectionsAlways == PagesSpec => []ConnectionsShown
  <1>1. PagesInit => ConnectionsShown
    BY ConnectionInit DEF PagesInit, ConnectionsShown
  <1>2. ConnectionsShown /\ [PagesNext]_<<pageVars, viewVars, page>> => ConnectionsShown'
    <2> SUFFICES ASSUME ConnectionInv, page = "connections", [PagesNext]_<<pageVars, viewVars, page>>
                 PROVE  ConnectionInv'
      BY OnePageMoves DEF ConnectionsShown
    <2>1. CASE Connections!Next
      BY <2>1, ConnectionStep
    <2>2. CASE UNCHANGED connectionVars
      <3>1. admins' \subseteq Teams /\ adminTeams' \subseteq Teams /\ listed' \subseteq Connections!Item
        BY <2>2 DEF connectionVars, ConnectionInv, ConnectionTypes
      <3> QED BY <2>2, <3>1, RequestsChange DEF connectionVars
    <2> QED BY <2>1, <2>2, OnePageMoves
  <1> QED BY <1>1, <1>2, PTL DEF PagesSpec

\* Whatever forms of the connection page were opened, left and saved, and whichever calls
\* failed or crossed, the credentials a connection holds were typed into its own form, and
\* an SSH connection has a password or a key to log in with (ConnectionsPage.tsx 64-79
\* and 182-198, connectionForm.ts 84-97).
THEOREM CredentialsStayInPlace == PagesSpec => []CredentialsInPlace
  <1>1. ConnectionsShown => CredentialsInPlace
    BY DEF ConnectionsShown, CredentialsInPlace, Connections!CredentialsInPlace, ConnectionInv, StoredAsTyped
  <1> QED BY <1>1, ConnectionsAlways, PTL

-----------------------------------------------------------------------------
(* The settings pages. Calls under way are about users and teams that are  *)
(* known; a save follows its plan.                                         *)

Roles == [TeamIds -> [UserIds -> Settings!Role]]

\* Users and teams there were at the start or that have been created.
KnownUser(u) == u \in UserIds /\ (u \in FirstUsers \/ <<"created", u>> \in past)
KnownTeam(t) == t \in TeamIds /\ (t = FirstTeam \/ <<"created", t>> \in past)

\* Created, and not shown as deleted.
Fresh(x) == <<"created", x>> \in past /\ <<"deleted", x>> \notin past

OpsOf ==
  [load |-> {"list", "members"}, create |-> {"create", "setTeams", "members"},
   edit |-> {"update", "setTeams", "members"}, toggle |-> {"update"}, delete |-> {"delete"},
   deleteTeam |-> {"deleteTeam"}, rename |-> {"rename"}, newTeam |-> {"newTeam", "members"},
   members |-> {"add", "role", "remove", "members"}]

\* A call of a handler is about users and teams that are known; what is being created
\* has not been deleted.
OpKnown(kind, o) ==
  /\ o.op \in OpsOf[kind]
  /\ kind = "create" /\ o.op # "members" => KnownUser(o.u) /\ Fresh(o.u)
  /\ o.op = "newTeam" => KnownTeam(o.t)
  /\ kind = "newTeam" /\ o.op = "members" => \A t \in DOMAIN o.assign : KnownTeam(t) /\ Fresh(t)
  /\ o.op = "delete" => KnownUser(o.u)
  /\ o.op = "deleteTeam" => KnownTeam(o.t)
  /\ o.op = "setTeams" => o.u \in UserIds /\ o.assign \in [DOMAIN o.assign -> Settings!Role]
  /\ o.op \in {"add", "role", "remove"} =>
       o.u \in UserIds /\ o.t \in TeamIds /\ o.assign[o.t] \in Settings!Role

JobShape(j) ==
  /\ j \in [kind : DOMAIN OpsOf, n : {j.n}, plan : {j.plan}, st : {"sent", "ok", "error", "lastAdmin"},
            got : {j.got}, was : [UserIds -> Settings!Role], next : [UserIds -> Settings!Role],
            alone : BOOLEAN]
  /\ j.got \in [off : {j.got.off}, accounts : {j.got.accounts}, disabled : {j.got.disabled},
                groups : {j.got.groups}, members : Roles]
  /\ IsSequence(j.plan) /\ Len(j.plan) >= 1

JobKnown(j) ==
  /\ \A i \in 1..Len(j.plan) : OpKnown(j.kind, j.plan[i])
  /\ j.kind = "load" => /\ \A u \in j.got.accounts : KnownUser(u)
                        /\ \A t \in j.got.groups : KnownTeam(t)

DialogKnown(d) ==
  \/ d.kind = "create" /\ d \in [kind : {"create"}, off : {d.off}, draft : {d.draft}]
  \/ d.kind = "edit" /\ d \in [kind : {"edit"}, id : {d.id}, off : {d.off}, draft : {d.draft}] /\ KnownUser(d.id)
  \/ d.kind = "members" /\ d \in [kind : {"members"}, id : {d.id}, draft : {d.draft}] /\ KnownTeam(d.id)
  \/ d.kind = "delete" /\ d \in [kind : {"delete"}, id : {d.id}] /\ KnownUser(d.id)
  \/ d.kind \in {"rename", "deleteTeam"} /\ d \in [kind : {d.kind}, id : {d.id}] /\ KnownTeam(d.id)
  \/ d.kind = "newTeam" /\ d \in [kind : {"newTeam"}]

DraftTyped(d) ==
  d.kind \in {"create", "edit", "members"} => d.draft \in [DOMAIN d.draft -> Settings!Role]

ListsKnown ==
  /\ roles \in Roles /\ teamMembers \in Roles
  /\ \A u \in accounts : KnownUser(u)
  /\ \A t \in groups : KnownTeam(t)
  /\ \A x \in users : KnownUser(x.id)
  /\ \A t \in teams : KnownTeam(t)
  /\ dialog # Absent => DialogKnown(dialog) /\ DraftTyped(dialog)

JobsKnown == \A j \in jobs : JobShape(j) /\ JobKnown(j)

\* Only what was known is deleted, and nothing counts as deleted before the lists
\* have been loaded.
DeletedKnown ==
  /\ \A x : <<"deleted", x>> \in past => KnownUser(x) \/ KnownTeam(x)
  /\ \A j \in jobs : j.kind = "load" => \A x : <<"deleted", x>> \notin past

SettingsInv == ListsKnown /\ JobsKnown /\ DeletedKnown /\ Settings!DeletedStaysGone

-----------------------------------------------------------------------------

-----------------------------------------------------------------------------

\* What is added to the past: creations, and deletions of what no handler creates.
PastGrows ==
  /\ past \subseteq past'
  /\ \A x : <<"deleted", x>> \in past' =>
       \/ <<"deleted", x>> \in past
       \/ \A j \in jobs : /\ j.kind # "load"
                          /\ <<"created", x>> \in past => j.kind \notin {"create", "newTeam"}

LEMMA StillKnown ==
  ASSUME PastGrows
  PROVE  /\ \A u : KnownUser(u) => KnownUser(u)'
         /\ \A t : KnownTeam(t) => KnownTeam(t)'
  BY DEF PastGrows, KnownUser, KnownTeam

LEMMA StillFresh ==
  ASSUME PastGrows, NEW j \in jobs, j.kind \in {"create", "newTeam"}
  PROVE  \A x : Fresh(x) => Fresh(x)'
  BY DEF PastGrows, Fresh

LEMMA OpStillKnown ==
  ASSUME PastGrows, NEW j \in jobs, NEW o, OpKnown(j.kind, o)
  PROVE  OpKnown(j.kind, o)'
  BY StillKnown, StillFresh DEF OpKnown

LEMMA JobStillKnown ==
  ASSUME PastGrows, NEW j \in jobs, JobKnown(j)
  PROVE  JobKnown(j)'
  BY StillKnown, OpStillKnown DEF JobKnown

LEMMA DialogStillKnown ==
  ASSUME PastGrows, NEW d, DialogKnown(d)
  PROVE  DialogKnown(d)'
  BY StillKnown DEF DialogKnown

\* A job that goes on with some of the calls of another.
LEMMA JobGoesOn ==
  ASSUME NEW j, JobKnown(j), NEW d, d.kind = j.kind,
         d.kind = "load" => /\ \A u \in d.got.accounts : KnownUser(u)
                            /\ \A t \in d.got.groups : KnownTeam(t),
         \A i \in 1..Len(d.plan) : \E k \in 1..Len(j.plan) : d.plan[i] = j.plan[k]
  PROVE  JobKnown(d)
  BY DEF JobKnown

LEMMA JobKinds ==
  /\ DOMAIN OpsOf = {"load", "create", "edit", "toggle", "delete", "deleteTeam", "rename", "newTeam", "members"}
  /\ OpsOf["load"] = {"list", "members"} /\ OpsOf["create"] = {"create", "setTeams", "members"}
  /\ OpsOf["edit"] = {"update", "setTeams", "members"} /\ OpsOf["toggle"] = {"update"}
  /\ OpsOf["delete"] = {"delete"} /\ OpsOf["deleteTeam"] = {"deleteTeam"} /\ OpsOf["rename"] = {"rename"}
  /\ OpsOf["newTeam"] = {"newTeam", "members"} /\ OpsOf["members"] = {"add", "role", "remove", "members"}
  BY DEF OpsOf

LEMMA FreshJob ==
  ASSUME NEW kind \in DOMAIN OpsOf, NEW plan, IsSequence(plan), Len(plan) >= 1
  PROVE  LET j == Settings!Job(kind, plan) IN
         /\ JobShape(j) /\ j.kind = kind /\ j.plan = plan /\ j.st = "sent"
         /\ j.got.accounts = {} /\ j.got.groups = {}
  <1>1. Settings!Nobody \in [UserIds -> Settings!Role]
    BY DEF Settings!Nobody, Settings!Role
  <1>2. LET g == Settings!NoAnswer IN
        /\ g \in [off : {g.off}, accounts : {g.accounts}, disabled : {g.disabled},
                  groups : {g.groups}, members : Roles]
        /\ g.accounts = {} /\ g.groups = {}
    BY <1>1 DEF Settings!NoAnswer, Roles
  <1> DEFINE j == Settings!Job(kind, plan)
  <1>3. /\ j = [kind |-> kind, n |-> acts + 1, plan |-> plan, st |-> "sent", got |-> Settings!NoAnswer,
                was |-> Settings!Nobody, next |-> Settings!Nobody, alone |-> FALSE]
    BY DEF Settings!Job
  <1> HIDE DEF j
  <1>4. /\ j \in [kind : DOMAIN OpsOf, n : {j.n}, plan : {j.plan}, st : {"sent", "ok", "error", "lastAdmin"},
                  got : {j.got}, was : [UserIds -> Settings!Role], next : [UserIds -> Settings!Role],
                  alone : BOOLEAN]
        /\ j.kind = kind /\ j.plan = plan /\ j.st = "sent" /\ j.got = Settings!NoAnswer
    BY <1>1, <1>3
  <1>5. JobShape(j)
    BY <1>2, <1>4 DEF JobShape
  <1> QED BY <1>2, <1>4, <1>5 DEF j

-----------------------------------------------------------------------------

LEMMA SettingsInit == ASSUME Settings!Init PROVE SettingsInv
  <1> DEFINE plan == <<Settings!OnUser("list", Self), Settings!ReadMembers(TeamIds)>>
             load == Settings!Job("load", plan)
  <1>1. IsSequence(plan) /\ Len(plan) = 2 /\ plan[1].op = "list" /\ plan[2].op = "members"
    <2>1. plan \in Seq({Settings!OnUser("list", Self), Settings!ReadMembers(TeamIds)})
      OBVIOUS
    <2>2. IsSequence(plan)
      BY <2>1 DEF IsSequence
    <2>3. Settings!OnUser("list", Self).op = "list" /\ Settings!ReadMembers(TeamIds).op = "members"
      BY DEF Settings!OnUser, Settings!Op, Settings!ReadMembers
    <2> QED BY <2>2, <2>3
  <1> HIDE DEF plan
  <1>2. JobShape(load) /\ load.kind = "load" /\ load.plan = plan /\ load.got.accounts = {} /\ load.got.groups = {}
    BY <1>1, FreshJob, JobKinds
  <1>3. jobs = {load}
    BY DEF Settings!Init, plan
  <1> HIDE DEF load
  <1>4. JobsKnown
    <2>2. \A i \in 1..2 : OpKnown("load", plan[i])
      BY <1>1, JobKinds DEF OpKnown
    <2> QED BY <1>1, <1>2, <1>3, <2>2 DEF JobsKnown, JobKnown
  <1>5. Settings!Nobody \in [UserIds -> Settings!Role]
    BY DEF Settings!Nobody, Settings!Role
  <1>6. roles \in Roles /\ teamMembers \in Roles
    BY <1>5 DEF Settings!Init, Roles, Settings!Role
  <1>7. ListsKnown
    BY <1>6, SettingsAssumption DEF Settings!Init, ListsKnown, KnownUser, KnownTeam
  <1>8. DeletedKnown /\ Settings!DeletedStaysGone
    BY DEF Settings!Init, DeletedKnown, Settings!DeletedStaysGone
  <1> QED BY <1>4, <1>7, <1>8 DEF SettingsInv

\* What a step has to keep.
LEMMA SettingsKept ==
  ASSUME SettingsInv, PastGrows, ListsKnown', Settings!DeletedStaysGone',
         \A j \in jobs' : j \in jobs \/ (JobShape(j) /\ JobKnown(j)'),
         \A j \in jobs' : j.kind = "load" => \E i \in jobs : i.kind = "load",
         \A x : <<"deleted", x>> \in past' => <<"deleted", x>> \in past \/ KnownUser(x) \/ KnownTeam(x)
  PROVE  SettingsInv'
  <1>1. JobsKnown'
    BY JobStillKnown DEF SettingsInv, JobsKnown
  <1>2. \A x : <<"deleted", x>> \in past' => KnownUser(x)' \/ KnownTeam(x)'
    BY StillKnown DEF SettingsInv, DeletedKnown
  <1>3. \A j \in jobs' : j.kind = "load" => \A x : <<"deleted", x>> \notin past'
    <2> SUFFICES ASSUME NEW i \in jobs, i.kind = "load", NEW x, <<"deleted", x>> \in past' PROVE FALSE
      OBVIOUS
    <2> QED BY DEF SettingsInv, DeletedKnown, PastGrows
  <1> QED BY <1>1, <1>2, <1>3 DEF SettingsInv, DeletedKnown

LEMMA PastStays == ASSUME past' = past PROVE PastGrows
  BY DEF PastGrows

\* A step that changes no list.
LEMMA ListsStay ==
  ASSUME SettingsInv, PastGrows, UNCHANGED <<accounts, groups, roles, users, teams, teamMembers>>,
         dialog' # Absent => (DialogKnown(dialog) /\ DraftTyped(dialog))'
  PROVE  ListsKnown'
  BY StillKnown DEF SettingsInv, ListsKnown

LEMMA GoneStays ==
  ASSUME SettingsInv, UNCHANGED <<users, teams>>, \A x : <<"deleted", x>> \in past' => <<"deleted", x>> \in past
  PROVE  Settings!DeletedStaysGone'
  BY DEF SettingsInv, Settings!DeletedStaysGone

\* The dialog changes, and nothing else.
LEMMA DialogChange ==
  ASSUME SettingsInv, UNCHANGED <<accounts, groups, roles, users, teams, teamMembers, jobs, past>>,
         dialog' # Absent => (DialogKnown(dialog) /\ DraftTyped(dialog))'
  PROVE  SettingsInv'
  BY PastStays, ListsStay, GoneStays, SettingsKept

LEMMA OpenSteps ==
  ASSUME SettingsInv,
         \/ Settings!OpenCreateUser \/ Settings!OpenCreateTeam
         \/ \E u \in users : Settings!OpenEditUser(u) \/ Settings!OpenDeleteUser(u)
         \/ \E t \in teams : Settings!OpenMembers(t) \/ Settings!OpenRename(t) \/ Settings!OpenDeleteTeam(t)
  PROVE  SettingsInv'
  <1>t. ListsKnown
    BY DEF SettingsInv
  <1>0. ASSUME NEW d, Settings!Open(d), DialogKnown(d), DraftTyped(d)
        PROVE  SettingsInv'
    <2>1. dialog' = d /\ UNCHANGED <<accounts, groups, roles, users, teams, teamMembers, jobs, past>>
      BY <1>0 DEF Settings!Open, Settings!serverVars, Settings!dataVars
    <2>2. PastGrows
      BY <2>1, PastStays
    <2>3. DialogKnown(d)'
      BY <1>0, <2>2, DialogStillKnown
    <2>4. (DialogKnown(dialog) /\ DraftTyped(dialog))'
      BY <1>0, <2>1, <2>3
    <2> QED BY <2>1, <2>4, DialogChange
  <1>1. CASE Settings!OpenCreateUser
    <2> DEFINE d == [kind |-> "create", off |-> FALSE, draft |-> [t \in teams |-> "none"]]
    <2>1. DialogKnown(d) /\ DraftTyped(d)
      BY DEF DialogKnown, DraftTyped, Settings!Role
    <2>2. Settings!Open(d)
      BY <1>1 DEF Settings!OpenCreateUser
    <2> HIDE DEF d
    <2> QED BY <1>0, <2>1, <2>2
  <1>2. CASE Settings!OpenCreateTeam
    <2>1. DialogKnown([kind |-> "newTeam"]) /\ DraftTyped([kind |-> "newTeam"])
      BY DEF DialogKnown, DraftTyped
    <2> QED BY <1>0, <1>2, <2>1 DEF Settings!OpenCreateTeam
  <1>3. ASSUME NEW u \in users, Settings!OpenEditUser(u)
        PROVE  SettingsInv'
    <2> DEFINE d == [kind |-> "edit", id |-> u.id, off |-> u.disabled, draft |-> Settings!TeamDraft(u.id)]
    <2>1. KnownUser(u.id) /\ u.id \in UserIds /\ \A t \in teams : t \in TeamIds
      BY <1>t DEF ListsKnown, KnownUser, KnownTeam
    <2>2. Settings!TeamDraft(u.id) \in [teams -> Settings!Role]
      BY <1>t, <2>1 DEF Settings!TeamDraft, ListsKnown, Roles
    <2>3. DialogKnown(d) /\ DraftTyped(d)
      BY <2>1, <2>2 DEF DialogKnown, DraftTyped
    <2>4. Settings!Open(d)
      BY <1>3 DEF Settings!OpenEditUser
    <2> HIDE DEF d
    <2> QED BY <1>0, <2>3, <2>4
  <1>4. ASSUME NEW u \in users, Settings!OpenDeleteUser(u)
        PROVE  SettingsInv'
    <2> DEFINE d == [kind |-> "delete", id |-> u.id]
    <2>1. KnownUser(u.id)
      BY <1>t DEF ListsKnown
    <2>2. DialogKnown(d) /\ DraftTyped(d) /\ Settings!Open(d)
      BY <1>4, <2>1 DEF DialogKnown, DraftTyped, Settings!OpenDeleteUser
    <2> HIDE DEF d
    <2> QED BY <1>0, <2>2
  <1>5. ASSUME NEW t \in teams, Settings!OpenMembers(t)
        PROVE  SettingsInv'
    <2> DEFINE draft0 == Settings!MemberDraft(teamMembers[t])
               d == [kind |-> "members", id |-> t, draft |-> draft0]
    <2>1. KnownTeam(t) /\ t \in TeamIds /\ \A x \in users : x.id \in UserIds
      BY <1>t DEF ListsKnown, KnownUser, KnownTeam
    <2>2. draft0 \in [DOMAIN draft0 -> Settings!Role]
      BY <1>t, <2>1 DEF Settings!MemberDraft, ListsKnown, Roles
    <2>4. Settings!Open(d)
      BY <1>5 DEF Settings!OpenMembers
    <2> HIDE DEF draft0
    <2>3. DialogKnown(d) /\ DraftTyped(d)
      BY <2>1, <2>2 DEF DialogKnown, DraftTyped
    <2> HIDE DEF d
    <2> QED BY <1>0, <2>3, <2>4
  <1>6. ASSUME NEW t \in teams, Settings!OpenRename(t) \/ Settings!OpenDeleteTeam(t)
        PROVE  SettingsInv'
    <2>1. KnownTeam(t)
      BY <1>t DEF ListsKnown
    <2>2. PICK kind \in {"rename", "deleteTeam"} : Settings!Open([kind |-> kind, id |-> t])
      BY <1>6 DEF Settings!OpenRename, Settings!OpenDeleteTeam
    <2> DEFINE d == [kind |-> kind, id |-> t]
    <2>3. DialogKnown(d) /\ DraftTyped(d) /\ Settings!Open(d)
      BY <2>1, <2>2 DEF DialogKnown, DraftTyped
    <2> HIDE DEF d
    <2> QED BY <1>0, <2>3
  <1> QED BY <1>1, <1>2, <1>3, <1>4, <1>5, <1>6

LEMMA DialogSteps ==
  ASSUME SettingsInv,
         \/ \E x \in UserIds \cup TeamIds, r \in Settings!Role : Settings!SetRole(x, r)
         \/ Settings!SetStatus \/ Settings!Close
  PROVE  SettingsInv'
  <1>0. UNCHANGED <<accounts, groups, roles, users, teams, teamMembers, jobs, past>>
    BY DEF Settings!SetRole, Settings!SetStatus, Settings!Close, Settings!serverVars, Settings!dataVars
  <1>t. dialog # Absent => DialogKnown(dialog) /\ DraftTyped(dialog)
    BY DEF SettingsInv, ListsKnown
  <1>p. PastGrows
    BY <1>0, PastStays
  <1>1. ASSUME NEW x, NEW r \in Settings!Role, Settings!SetRole(x, r)
        PROVE  SettingsInv'
    <2>1. PICK e : e = [dialog.draft EXCEPT ![x] = r]
      OBVIOUS
    <2>2. /\ dialog # Absent /\ dialog.kind \in {"create", "edit", "members"}
          /\ dialog' = [dialog EXCEPT !.draft = e]
      BY <1>1, <2>1 DEF Settings!SetRole
    <2>3. e \in [DOMAIN e -> Settings!Role]
      BY <1>t, <2>1, <2>2 DEF DraftTyped
    <2>4. DialogKnown(dialog') /\ DraftTyped(dialog')
      BY <1>t, <2>2, <2>3 DEF DialogKnown, DraftTyped
    <2>5. PICK d : d = dialog'
      OBVIOUS
    <2>6. DialogKnown(d)'
      BY <1>p, <2>4, <2>5, DialogStillKnown
    <2>7. (DialogKnown(dialog) /\ DraftTyped(dialog))'
      BY <2>4, <2>5, <2>6
    <2> QED BY <1>0, <2>7, DialogChange
  <1>2. CASE Settings!SetStatus
    <2>1. PICK e : e = ~dialog.off
      OBVIOUS
    <2>2. dialog # Absent /\ dialog.kind = "edit" /\ dialog' = [dialog EXCEPT !.off = e]
      BY <1>2, <2>1 DEF Settings!SetStatus
    <2>4. DialogKnown(dialog') /\ DraftTyped(dialog')
      BY <1>t, <2>2 DEF DialogKnown, DraftTyped
    <2>5. PICK d : d = dialog'
      OBVIOUS
    <2>6. DialogKnown(d)'
      BY <1>p, <2>4, <2>5, DialogStillKnown
    <2>7. (DialogKnown(dialog) /\ DraftTyped(dialog))'
      BY <2>4, <2>5, <2>6
    <2> QED BY <1>0, <2>7, DialogChange
  <1>3. CASE Settings!Close
    BY <1>0, <1>3, DialogChange DEF Settings!Close
  <1> QED BY <1>1, <1>2, <1>3

-----------------------------------------------------------------------------

LEMMA OpFields ==
  ASSUME NEW op, NEW u, NEW t, NEW off, NEW assign
  PROVE  LET o == Settings!Op(op, u, t, off, assign) IN
         o.op = op /\ o.u = u /\ o.t = t /\ o.off = off /\ o.assign = assign
  BY DEF Settings!Op

LEMMA CallFields ==
  ASSUME NEW op, NEW x
  PROVE  /\ Settings!OnUser(op, x).op = op /\ Settings!OnUser(op, x).u = x
         /\ Settings!OnTeam(op, x).op = op /\ Settings!OnTeam(op, x).t = x
         /\ Settings!ReadMembers(x).op = "members" /\ DOMAIN Settings!ReadMembers(x).assign = x
  BY DEF Settings!Op, Settings!OnUser, Settings!OnTeam, Settings!ReadMembers

LEMMA SameKnown ==
  ASSUME past' = past, NEW j, JobKnown(j)
  PROVE  JobKnown(j)'
  BY DEF JobKnown, OpKnown, KnownUser, KnownTeam, Fresh

\* A handler starts.
LEMMA JobStarts ==
  ASSUME SettingsInv, PastGrows, UNCHANGED <<accounts, groups, roles, users, teams, teamMembers, dialog>>,
         \A x : <<"deleted", x>> \in past' => <<"deleted", x>> \in past,
         NEW j, jobs' = jobs \cup {j}, JobShape(j), JobKnown(j)', j.kind # "load"
  PROVE  SettingsInv'
  <1>1. dialog' # Absent => (DialogKnown(dialog) /\ DraftTyped(dialog))'
    <2>1. dialog # Absent => DialogKnown(dialog) /\ DraftTyped(dialog)
      BY DEF SettingsInv, ListsKnown
    <2>2. PICK d : d = dialog
      OBVIOUS
    <2>3. d # Absent => DialogKnown(d)'
      BY <2>1, <2>2, DialogStillKnown
    <2> QED BY <2>1, <2>2, <2>3
  <1>2. ListsKnown'
    BY <1>1, ListsStay
  <1>3. Settings!DeletedStaysGone'
    BY GoneStays
  <1> QED BY <1>2, <1>3, SettingsKept

LEMMA JoinedTyped ==
  ASSUME NEW d, d \in [DOMAIN d -> Settings!Role]
  PROVE  Settings!Joined(d) \in [DOMAIN Settings!Joined(d) -> Settings!Role]
  BY DEF Settings!Joined

LEMMA OneCall ==
  ASSUME SettingsInv, UNCHANGED <<accounts, groups, roles, users, teams, teamMembers, dialog, past>>,
         NEW kind \in DOMAIN OpsOf \ {"load"}, NEW o, OpKnown(kind, o), jobs' = jobs \cup {Settings!Job(kind, <<o>>)}
  PROVE  SettingsInv'
  <1>1. PICK j : j = Settings!Job(kind, <<o>>)
    OBVIOUS
  <1>2. JobShape(j) /\ j.kind = kind /\ j.plan = <<o>>
    BY <1>1, FreshJob, OneIsSequence
  <1>3. JobKnown(j)
    BY <1>2, OneIsSequence DEF JobKnown
  <1>4. JobKnown(j)'
    BY <1>3, SameKnown
  <1> QED BY <1>1, <1>2, <1>4, JobStarts, PastStays

LEMMA SingleCallSteps ==
  ASSUME SettingsInv,
         \/ \E u \in users : Settings!ToggleDisabled(u)
         \/ Settings!ConfirmDelete \/ Settings!SaveTeamName
  PROVE  SettingsInv'
  <1>t. ListsKnown
    BY DEF SettingsInv
  <1>0. UNCHANGED <<accounts, groups, roles, users, teams, teamMembers, dialog, past>>
    BY DEF Settings!ToggleDisabled, Settings!ConfirmDelete, Settings!SaveTeamName, Settings!Submit,
           Settings!serverVars, Settings!dataVars
  <1>1. ASSUME NEW u \in users, Settings!ToggleDisabled(u)
        PROVE  SettingsInv'
    <2> DEFINE o == Settings!Op("update", u.id, FirstTeam, ~u.disabled, <<>>)
    <2>1. o.op = "update"
      BY OpFields
    <2>2. jobs' = jobs \cup {Settings!Job("toggle", <<o>>)}
      BY <1>1 DEF Settings!ToggleDisabled, Settings!Start
    <2> HIDE DEF o
    <2>3. OpKnown("toggle", o)
      BY <2>1, JobKinds DEF OpKnown
    <2>4. "toggle" \in DOMAIN OpsOf \ {"load"}
      BY JobKinds
    <2> QED BY <1>0, <2>2, <2>3, <2>4, OneCall
  <1>2. CASE Settings!ConfirmDelete
    <2>0. dialog # Absent /\ dialog.kind \in {"delete", "deleteTeam"} /\ DialogKnown(dialog)
      BY <1>2, <1>t DEF Settings!ConfirmDelete, ListsKnown
    <2>1. CASE dialog.kind = "delete"
      <3> DEFINE o == Settings!OnUser("delete", dialog.id)
      <3>1. o.op = "delete" /\ o.u = dialog.id
        BY CallFields
      <3>2. jobs' = jobs \cup {Settings!Job("delete", <<o>>)}
        BY <1>2, <2>1 DEF Settings!ConfirmDelete, Settings!Start
      <3> HIDE DEF o
      <3>3. OpKnown("delete", o)
        BY <2>0, <2>1, <3>1, JobKinds DEF OpKnown, DialogKnown
      <3>4. "delete" \in DOMAIN OpsOf \ {"load"}
        BY JobKinds
      <3> QED BY <1>0, <3>2, <3>3, <3>4, OneCall
    <2>2. CASE dialog.kind = "deleteTeam"
      <3> DEFINE o == Settings!OnTeam("deleteTeam", dialog.id)
      <3>1. o.op = "deleteTeam" /\ o.t = dialog.id
        BY CallFields
      <3>2. jobs' = jobs \cup {Settings!Job("deleteTeam", <<o>>)}
        BY <1>2, <2>2 DEF Settings!ConfirmDelete, Settings!Start
      <3> HIDE DEF o
      <3>3. OpKnown("deleteTeam", o)
        BY <2>0, <2>2, <3>1, JobKinds DEF OpKnown, DialogKnown
      <3>4. "deleteTeam" \in DOMAIN OpsOf \ {"load"}
        BY JobKinds
      <3> QED BY <1>0, <3>2, <3>3, <3>4, OneCall
    <2> QED BY <2>0, <2>1, <2>2
  <1>3. CASE Settings!SaveTeamName
    <2> DEFINE o == Settings!OnTeam("rename", dialog.id)
    <2>1. o.op = "rename"
      BY CallFields
    <2>2. jobs' = jobs \cup {Settings!Job("rename", <<o>>)}
      BY <1>3 DEF Settings!SaveTeamName, Settings!Submit, Settings!Start
    <2> HIDE DEF o
    <2>3. OpKnown("rename", o)
      BY <2>1, JobKinds DEF OpKnown
    <2>4. "rename" \in DOMAIN OpsOf \ {"load"}
      BY JobKinds
    <2> QED BY <1>0, <2>2, <2>3, <2>4, OneCall
  <1> QED BY <1>1, <1>2, <1>3

LEMMA SubmitEditStep ==
  ASSUME SettingsInv, Settings!SubmitEdit
  PROVE  SettingsInv'
  <1>0. UNCHANGED <<accounts, groups, roles, users, teams, teamMembers, dialog, past>>
    BY DEF Settings!SubmitEdit, Settings!Submit, Settings!serverVars, Settings!dataVars
  <1>1. PICK o1, o2, o3 : /\ o1 = Settings!Op("update", dialog.id, FirstTeam, dialog.off, <<>>)
                          /\ o2 = Settings!Op("setTeams", dialog.id, FirstTeam, FALSE, Settings!Joined(dialog.draft))
                          /\ o3 = Settings!Refresh
    OBVIOUS
  <1>2. /\ o1.op = "update" /\ o2.op = "setTeams" /\ o2.u = dialog.id
        /\ o2.assign = Settings!Joined(dialog.draft) /\ o3.op = "members"
    BY <1>1 DEF Settings!Op, Settings!Refresh, Settings!ReadMembers
  <1>3. dialog.id \in UserIds /\ o2.assign \in [DOMAIN o2.assign -> Settings!Role]
    <2>1. dialog # Absent /\ dialog.kind = "edit" /\ DialogKnown(dialog) /\ DraftTyped(dialog)
      BY DEF Settings!SubmitEdit, Settings!Shows, SettingsInv, ListsKnown
    <2>2. dialog.id \in UserIds /\ dialog.draft \in [DOMAIN dialog.draft -> Settings!Role]
      BY <2>1 DEF DialogKnown, DraftTyped, KnownUser
    <2> QED BY <1>2, <2>2, JoinedTyped
  <1> DEFINE plan == <<o1, o2, o3>>
  <1>4. IsSequence(plan) /\ Len(plan) = 3 /\ plan[1] = o1 /\ plan[2] = o2 /\ plan[3] = o3
    <2>1. plan \in Seq({o1, o2, o3})
      OBVIOUS
    <2> QED BY <2>1 DEF IsSequence
  <1>5. jobs' = jobs \cup {Settings!Job("edit", plan)}
    BY <1>1 DEF Settings!SubmitEdit, Settings!Submit, Settings!Start
  <1> HIDE DEF plan
  <1>6. PICK j : j = Settings!Job("edit", plan)
    OBVIOUS
  <1>7. JobShape(j) /\ j.kind = "edit" /\ j.plan = plan
    BY <1>4, <1>6, FreshJob, JobKinds
  <1>8. OpKnown("edit", o1) /\ OpKnown("edit", o2) /\ OpKnown("edit", o3)
    BY <1>2, <1>3, JobKinds DEF OpKnown
  <1>9. JobKnown(j)
    <2>1. Len(j.plan) = 3 /\ \A i \in 1..3 : j.plan[i] = o1 \/ j.plan[i] = o2 \/ j.plan[i] = o3
      BY <1>4, <1>7
    <2> QED BY <1>7, <1>8, <2>1 DEF JobKnown
  <1>10. JobKnown(j)'
    BY <1>0, <1>9, SameKnown
  <1> QED BY <1>0, <1>5, <1>6, <1>7, <1>10, JobStarts, PastStays

\* An identifier that is new has not been deleted.
LEMMA NewIsFresh ==
  ASSUME SettingsInv, NEW x, Settings!New(x), x \notin FirstUsers, x # FirstTeam
  PROVE  /\ PastGrows /\ Fresh(x)' /\ \A y : <<"deleted", y>> \in past' => <<"deleted", y>> \in past
         /\ <<"created", x>> \in past'
  <1>1. <<"created", x>> \notin past /\ past' = past \cup {<<"created", x>>}
    BY DEF Settings!New
  <1>2. <<"deleted", x>> \notin past
    BY <1>1 DEF SettingsInv, DeletedKnown, KnownUser, KnownTeam
  <1>3. \A y : <<"deleted", y>> \in past' => <<"deleted", y>> \in past
    BY <1>1
  <1> QED BY <1>1, <1>2, <1>3 DEF PastGrows, Fresh

LEMMA SubmitCreateStep ==
  ASSUME SettingsInv, NEW u \in UserIds, Settings!SubmitCreate(u)
  PROVE  SettingsInv'
  <1>0. UNCHANGED <<accounts, groups, roles, users, teams, teamMembers, dialog>>
    BY DEF Settings!SubmitCreate, Settings!Submit, Settings!serverVars, Settings!dataVars
  <1>1. /\ PastGrows /\ Fresh(u)' /\ \A y : <<"deleted", y>> \in past' => <<"deleted", y>> \in past
        /\ KnownUser(u)'
    <2>1. u \notin FirstUsers /\ u # FirstTeam /\ Settings!New(u)
      BY SettingsAssumption DEF Settings!SubmitCreate
    <2> QED BY <2>1, NewIsFresh DEF KnownUser
  <1>2. PICK o1, o2, o3 : /\ o1 = Settings!OnUser("create", u)
                          /\ o2 = Settings!Op("setTeams", u, FirstTeam, FALSE, Settings!Joined(dialog.draft))
                          /\ o3 = Settings!Refresh
    OBVIOUS
  <1>3. /\ o1.op = "create" /\ o1.u = u /\ o2.op = "setTeams" /\ o2.u = u
        /\ o2.assign = Settings!Joined(dialog.draft) /\ o3.op = "members"
    BY <1>2 DEF Settings!Op, Settings!Refresh, Settings!ReadMembers, Settings!OnUser
  <1>4. o2.assign \in [DOMAIN o2.assign -> Settings!Role]
    <2>1. dialog # Absent /\ dialog.kind = "create" /\ DraftTyped(dialog)
      BY DEF Settings!SubmitCreate, Settings!Shows, SettingsInv, ListsKnown
    <2> QED BY <1>3, <2>1, JoinedTyped DEF DraftTyped
  <1>5. PICK middle \in {<<o2>>, <<>>} :
          jobs' = jobs \cup {Settings!Job("create", <<o1>> \o middle \o <<o3>>)}
    BY <1>2 DEF Settings!SubmitCreate, Settings!Submit, Settings!Start
  <1>6. IsSequence(middle) /\ \A i \in 1..Len(middle) : middle[i] = o2
    <2>1. IsSequence(<<>>) /\ Len(<<>>) = 0
      BY DEF IsSequence
    <2> QED BY <1>5, <2>1, OneIsSequence
  <1> DEFINE plan == <<o1>> \o middle \o <<o3>>
  <1>7. /\ IsSequence(plan) /\ Len(plan) >= 1
        /\ \A i \in 1..Len(plan) : plan[i] = o1 \/ plan[i] = o2 \/ plan[i] = o3
    <2> DEFINE a == <<o1>>  c == <<o3>>  front == a \o middle
    <2>1. IsSequence(a) /\ Len(a) = 1 /\ a[1] = o1 /\ IsSequence(c) /\ Len(c) = 1 /\ c[1] = o3
      BY OneIsSequence
    <2>2. plan = front \o c
      OBVIOUS
    <2> HIDE DEF a, c, plan
    <2> DEFINE E == {o1, o2, o3}
    <2>3. IsSequence(front) /\ Len(front) = 1 + Len(middle) /\ Len(middle) \in Nat
          /\ \A i \in 1..Len(front) : front[i] \in E
      <3>1. (\A i \in 1..Len(a) : a[i] \in E) /\ \A i \in 1..Len(middle) : middle[i] \in E
        BY <1>6, <2>1
      <3> QED BY <1>6, <2>1, <3>1, JoinElements
    <2> HIDE DEF front
    <2>4. IsSequence(plan) /\ Len(plan) = Len(front) + 1 /\ \A i \in 1..Len(plan) : plan[i] \in E
      <3>1. \A i \in 1..Len(c) : c[i] \in E
        BY <2>1
      <3> HIDE DEF E
      <3>2. IsSequence(front \o c) /\ Len(front \o c) = Len(front) + Len(c)
            /\ \A i \in 1..Len(front \o c) : (front \o c)[i] \in E
        BY <2>1, <2>3, <3>1, JoinElements
      <3> QED BY <2>1, <2>2, <3>2, Zenon
    <2> QED BY <2>3, <2>4
  <1>8. PICK j : j = Settings!Job("create", plan)
    OBVIOUS
  <1>9. jobs' = jobs \cup {j}
    BY <1>5, <1>8
  <1> HIDE DEF plan
  <1>10. JobShape(j) /\ j.kind = "create" /\ j.plan = plan
    BY <1>7, <1>8, FreshJob, JobKinds
  <1>11. OpKnown("create", o1)' /\ OpKnown("create", o2)' /\ OpKnown("create", o3)'
    BY <1>1, <1>3, <1>4, JobKinds DEF OpKnown
  <1>12. JobKnown(j)'
    BY <1>7, <1>10, <1>11 DEF JobKnown
  <1> QED BY <1>0, <1>1, <1>9, <1>10, <1>12, JobStarts

LEMMA SubmitTeamStep ==
  ASSUME SettingsInv, NEW t \in TeamIds, Settings!SubmitTeam(t)
  PROVE  SettingsInv'
  <1>0. UNCHANGED <<accounts, groups, roles, users, teams, teamMembers, dialog>>
    BY DEF Settings!SubmitTeam, Settings!Submit, Settings!serverVars, Settings!dataVars
  <1>1. /\ PastGrows /\ Fresh(t)' /\ \A y : <<"deleted", y>> \in past' => <<"deleted", y>> \in past
        /\ KnownTeam(t)'
    <2>1. t \notin FirstUsers /\ t # FirstTeam /\ Settings!New(t)
      BY SettingsAssumption DEF Settings!SubmitTeam
    <2> QED BY <2>1, NewIsFresh DEF KnownTeam
  <1>2. PICK o1, o2 : o1 = Settings!OnTeam("newTeam", t) /\ o2 = Settings!ReadMembers({t})
    OBVIOUS
  <1>3. o1.op = "newTeam" /\ o1.t = t /\ o2.op = "members" /\ DOMAIN o2.assign = {t}
    BY <1>2, CallFields
  <1> DEFINE plan == <<o1, o2>>
  <1>4. IsSequence(plan) /\ Len(plan) = 2 /\ plan[1] = o1 /\ plan[2] = o2
    <2>1. plan \in Seq({o1, o2})
      OBVIOUS
    <2> QED BY <2>1 DEF IsSequence
  <1>5. jobs' = jobs \cup {Settings!Job("newTeam", plan)}
    BY <1>2 DEF Settings!SubmitTeam, Settings!Submit, Settings!Start
  <1> HIDE DEF plan
  <1>6. PICK j : j = Settings!Job("newTeam", plan)
    OBVIOUS
  <1>7. JobShape(j) /\ j.kind = "newTeam" /\ j.plan = plan
    BY <1>4, <1>6, FreshJob, JobKinds
  <1>8. OpKnown("newTeam", o1)' /\ OpKnown("newTeam", o2)'
    BY <1>1, <1>3, JobKinds DEF OpKnown
  <1>9. JobKnown(j)'
    <2>1. Len(j.plan) = 2 /\ \A i \in 1..2 : j.plan[i] = o1 \/ j.plan[i] = o2
      BY <1>4, <1>7
    <2> QED BY <1>7, <1>8, <2>1 DEF JobKnown
  <1> QED BY <1>0, <1>1, <1>5, <1>6, <1>7, <1>9, JobStarts

-----------------------------------------------------------------------------

\* Some of the users, in their order.
LEMMA UsersInOrder ==
  ASSUME NEW S, S \subseteq UserIds
  PROVE  LET us == Settings!InOrder(S) IN
         /\ IsSequence(us) /\ Len(us) \in Nat /\ \A i \in 1..Len(us) : us[i] \in S
         /\ \A i, k \in 1..Len(us) : i # k => us[i] # us[k]
         /\ \A u \in S : \E i \in 1..Len(us) : us[i] = u
  <1> DEFINE us == InOrder(S)  n == Cardinality(S)
  <1>1. IsFiniteSet(S) /\ S \subseteq Nat
    BY SettingsAssumption, FS_Subset
  <1>2. /\ n \in Nat /\ us \in [1..n -> S]
        /\ \A i, k \in 1..n : i < k => us[i] < us[k]
        /\ \A u \in S : \E i \in 1..n : us[i] = u
    BY <1>1, InOrderEnumerates
  <1> HIDE DEF us, n
  <1>3. us \in Seq(S) /\ Len(us) = n
    BY <1>2
  <1>4. \A i, k \in 1..n : i # k => us[i] # us[k]
    <2> SUFFICES ASSUME NEW i \in 1..n, NEW k \in 1..n, i # k PROVE us[i] # us[k]
      OBVIOUS
    <2>1. i < k \/ k < i
      BY <1>2
    <2>2. us[i] \in Nat /\ us[k] \in Nat
      BY <1>1, <1>2
    <2> QED BY <1>2, <2>1, <2>2
  <1>5. Settings!InOrder(S) = us
    BY SettingsInOrder DEF us
  <1> QED BY <1>2, <1>3, <1>4, <1>5 DEF IsSequence

\* A row of changes of the members of team t, and the users it is about.
RowOf(row, kinds, t, next, S) ==
  /\ IsSequence(row)
  /\ \A i \in 1..Len(row) : /\ row[i].op \in kinds /\ row[i].u \in S /\ row[i].t = t
                            /\ row[i].assign[t] = next[row[i].u]
  /\ \A i, k \in 1..Len(row) : i # k => row[i].u # row[k].u
  /\ \A u \in S : \E i \in 1..Len(row) : row[i].u = u

LEMMA ChangeFields ==
  ASSUME NEW kind, NEW u, NEW next
  PROVE  LET o == Settings!Change(kind, u, next) IN
         o.op = kind /\ o.u = u /\ o.t = dialog.id /\ o.assign[dialog.id] = next[u]
  BY DEF Settings!Change, Settings!Op

Added(was, next) == {u \in UserIds : next[u] \notin {"none", was[u]}}
Dropped(was, next) == {u \in UserIds : next[u] = "none" /\ was[u] # "none"}

LEMMA AdditionsRow ==
  ASSUME NEW was, NEW next
  PROVE  RowOf(Settings!Additions(was, next), {"add", "role"}, dialog.id, next, Added(was, next))
  <1> DEFINE S == Added(was, next)
             us == Settings!InOrder(S)
             c(i) == Settings!Change(IF was[us[i]] = "none" THEN "add" ELSE "role", us[i], next)
             row == [i \in 1..Len(us) |-> c(i)]
  <1>1. Settings!Additions(was, next) = row
    BY DEF Settings!Additions, Added
  <1>2. S \subseteq UserIds
    BY DEF Added
  <1> HIDE DEF S
  <1>3. /\ Len(us) \in Nat /\ \A i \in 1..Len(us) : us[i] \in S
        /\ \A i, k \in 1..Len(us) : i # k => us[i] # us[k]
        /\ \A u \in S : \E i \in 1..Len(us) : us[i] = u
    BY <1>2, UsersInOrder
  <1> HIDE DEF us
  <1>4. \A i \in 1..Len(us) : /\ c(i).op \in {"add", "role"} /\ c(i).u = us[i] /\ c(i).t = dialog.id
                              /\ c(i).assign[dialog.id] = next[us[i]]
    BY ChangeFields
  <1> HIDE DEF c
  <1>5. row \in Seq({c(i) : i \in 1..Len(us)}) /\ Len(row) = Len(us) /\ \A i \in 1..Len(us) : row[i] = c(i)
    BY <1>3
  <1> HIDE DEF row
  <1>6. RowOf(row, {"add", "role"}, dialog.id, next, S)
    <2>1. IsSequence(row)
      BY <1>5 DEF IsSequence
    <2>2. \A i \in 1..Len(row) : /\ row[i].op \in {"add", "role"} /\ row[i].u = us[i] /\ us[i] \in S
                                 /\ row[i].t = dialog.id /\ row[i].assign[dialog.id] = next[us[i]]
      BY <1>3, <1>4, <1>5
    <2>3. ASSUME NEW i \in 1..Len(row), NEW k \in 1..Len(row), i # k
          PROVE  row[i].u # row[k].u
      <3>1. row[i].u = us[i] /\ row[k].u = us[k] /\ i \in 1..Len(us) /\ k \in 1..Len(us)
        BY <1>5, <2>2
      <3>2. us[i] # us[k]
        BY <1>3, <2>3, <3>1
      <3> QED BY <3>1, <3>2
    <2>4. \A u \in S : \E i \in 1..Len(row) : row[i].u = u
      BY <1>3, <1>5, <2>2
    <2>5. \A i \in 1..Len(row) : /\ row[i].op \in {"add", "role"} /\ row[i].u \in S /\ row[i].t = dialog.id
                                 /\ row[i].assign[dialog.id] = next[row[i].u]
      BY <2>2, Zenon
    <2> QED BY <2>1, <2>3, <2>4, <2>5 DEF RowOf
  <1> QED BY <1>1, <1>6 DEF S

LEMMA RemovalsRow ==
  ASSUME NEW was, NEW next
  PROVE  RowOf(Settings!Removals(was, next), {"remove"}, dialog.id, next, Dropped(was, next))
  <1> DEFINE S == Dropped(was, next)
             us == Settings!InOrder(S)
             c(i) == Settings!Change("remove", us[i], next)
             row == [i \in 1..Len(us) |-> c(i)]
  <1>1. Settings!Removals(was, next) = row
    BY DEF Settings!Removals, Dropped
  <1>2. S \subseteq UserIds
    BY DEF Dropped
  <1> HIDE DEF S
  <1>3. /\ Len(us) \in Nat /\ \A i \in 1..Len(us) : us[i] \in S
        /\ \A i, k \in 1..Len(us) : i # k => us[i] # us[k]
        /\ \A u \in S : \E i \in 1..Len(us) : us[i] = u
    BY <1>2, UsersInOrder
  <1> HIDE DEF us
  <1>4. \A i \in 1..Len(us) : /\ c(i).op = "remove" /\ c(i).u = us[i] /\ c(i).t = dialog.id
                              /\ c(i).assign[dialog.id] = next[us[i]]
    BY ChangeFields
  <1> HIDE DEF c
  <1>5. row \in Seq({c(i) : i \in 1..Len(us)}) /\ Len(row) = Len(us) /\ \A i \in 1..Len(us) : row[i] = c(i)
    BY <1>3
  <1> HIDE DEF row
  <1>6. RowOf(row, {"remove"}, dialog.id, next, S)
    <2>1. IsSequence(row)
      BY <1>5 DEF IsSequence
    <2>2. \A i \in 1..Len(row) : /\ row[i].op \in {"remove"} /\ row[i].u = us[i] /\ us[i] \in S
                                 /\ row[i].t = dialog.id /\ row[i].assign[dialog.id] = next[us[i]]
      BY <1>3, <1>4, <1>5
    <2>3. ASSUME NEW i \in 1..Len(row), NEW k \in 1..Len(row), i # k
          PROVE  row[i].u # row[k].u
      <3>1. row[i].u = us[i] /\ row[k].u = us[k] /\ i \in 1..Len(us) /\ k \in 1..Len(us)
        BY <1>5, <2>2
      <3>2. us[i] # us[k]
        BY <1>3, <2>3, <3>1
      <3> QED BY <3>1, <3>2
    <2>4. \A u \in S : \E i \in 1..Len(row) : row[i].u = u
      BY <1>3, <1>5, <2>2
    <2>5. \A i \in 1..Len(row) : /\ row[i].op \in {"remove"} /\ row[i].u \in S /\ row[i].t = dialog.id
                                 /\ row[i].assign[dialog.id] = next[row[i].u]
      BY <2>2, Zenon
    <2> QED BY <2>1, <2>3, <2>4, <2>5 DEF RowOf
  <1> QED BY <1>1, <1>6 DEF S

\* The calls of a save of members: each about one user, additions and changes of role
\* before removals, and the reading of the members at the end.
OpPlanned(o, t, was, next) ==
  /\ o.op \in {"add", "role", "remove", "members"}
  /\ o.op # "members" =>
       /\ o.u \in UserIds /\ o.t = t /\ o.assign[t] = next[o.u]
       /\ IF o.op = "remove" THEN next[o.u] = "none" ELSE next[o.u] \notin {"none", was[o.u]}

Before(o, p) ==
  /\ o.op # "members"
  /\ p.op # "members" => o.u # p.u
  /\ o.op = "remove" => p.op \in {"remove", "members"}

Planned(plan, t, was, next) ==
  /\ IsSequence(plan)
  /\ \A i \in 1..Len(plan) : OpPlanned(plan[i], t, was, next)
  /\ \A i, k \in 1..Len(plan) : i < k => Before(plan[i], plan[k])

CallsOfSave(t, was, next) == Settings!Plan(was, next) \o <<Settings!ReadMembers({t})>>

LEMMA PlanIsPlanned ==
  ASSUME NEW was, NEW next, NEW t, t = dialog.id, NEW plan, plan = CallsOfSave(t, was, next)
  PROVE  /\ Planned(plan, t, was, next) /\ Len(plan) >= 1
         /\ \A u \in UserIds : next[u] # was[u] =>
              \E i \in 1..Len(plan) : plan[i].op # "members" /\ plan[i].u = u
  <1>1. PICK a, b, o : /\ a = Settings!Additions(was, next) /\ b = Settings!Removals(was, next)
                       /\ o = Settings!ReadMembers({t})
    OBVIOUS
  <1>2. RowOf(a, {"add", "role"}, t, next, Added(was, next)) /\ RowOf(b, {"remove"}, t, next, Dropped(was, next))
    BY <1>1, AdditionsRow, RemovalsRow
  <1>3. o.op = "members"
    BY <1>1, CallFields
  <1>5. PICK ab, c : ab = a \o b /\ c = <<o>>
    OBVIOUS
  <1>4. ab = a \o b /\ c = <<o>> /\ plan = ab \o c
    BY <1>1, <1>5, Zenon DEF Settings!Plan, CallsOfSave
  <1>6. /\ IsSequence(ab) /\ Len(a) \in Nat /\ Len(b) \in Nat /\ Len(ab) = Len(a) + Len(b)
        /\ \A i \in 1..Len(a) : ab[i] = a[i]
        /\ \A i \in 1..Len(b) : ab[Len(a) + i] = b[i]
        /\ \A i \in 1..Len(ab) : \/ i \in 1..Len(a) /\ ab[i] = a[i]
                                 \/ \E k \in 1..Len(b) : i = Len(a) + k /\ ab[i] = b[k]
    BY <1>2, <1>4, JoinIsSequence DEF RowOf
  <1>7. IsSequence(c) /\ Len(c) = 1 /\ c[1] = o
    BY <1>4, OneIsSequence
  <1>8. /\ IsSequence(plan) /\ Len(plan) = Len(ab) + 1
        /\ \A i \in 1..Len(ab) : plan[i] = ab[i]
        /\ \A i \in 1..Len(plan) : \/ i \in 1..Len(ab) /\ plan[i] = ab[i]
                                   \/ i = Len(ab) + 1 /\ plan[i] = o
    <2>1. /\ IsSequence(plan) /\ Len(plan) = Len(ab) + Len(c)
          /\ \A i \in 1..Len(ab) : plan[i] = ab[i]
          /\ \A i \in 1..Len(plan) : \/ i \in 1..Len(ab) /\ plan[i] = ab[i]
                                     \/ \E k \in 1..Len(c) : i = Len(ab) + k /\ plan[i] = c[k]
      <3>1. IsSequence(ab) /\ IsSequence(c)
        BY <1>6, <1>7
      <3>2. PICK p : p = ab \o c
        OBVIOUS
      <3>3. /\ IsSequence(p) /\ Len(p) = Len(ab) + Len(c)
            /\ \A i \in 1..Len(ab) : p[i] = ab[i]
            /\ \A i \in 1..Len(p) : \/ i \in 1..Len(ab) /\ p[i] = ab[i]
                                    \/ \E k \in 1..Len(c) : i = Len(ab) + k /\ p[i] = c[k]
        BY <3>1, <3>2, JoinIsSequence
      <3>4. p = plan
        BY <1>4, <3>2, Zenon
      <3> QED BY <3>3, <3>4, Zenon
    <2> QED BY <1>7, <2>1
  <1>9. \A i \in 1..Len(plan) :
          \/ i \in 1..Len(a) /\ plan[i] = a[i]
          \/ \E k \in 1..Len(b) : i = Len(a) + k /\ plan[i] = b[k]
          \/ i = Len(a) + Len(b) + 1 /\ plan[i] = o
    BY <1>6, <1>8
  <1>10. /\ \A i \in 1..Len(a) : OpPlanned(a[i], t, was, next) /\ a[i].op \in {"add", "role"} /\ a[i].u \in Added(was, next)
         /\ \A i \in 1..Len(b) : OpPlanned(b[i], t, was, next) /\ b[i].op = "remove" /\ b[i].u \in Dropped(was, next)
         /\ OpPlanned(o, t, was, next)
    BY <1>2, <1>3 DEF RowOf, OpPlanned, Added, Dropped
  <1>11. \A i \in 1..Len(plan) : OpPlanned(plan[i], t, was, next)
    BY <1>9, <1>10
  <1>12. ASSUME NEW i \in 1..Len(plan), NEW k \in 1..Len(plan), i < k
         PROVE  Before(plan[i], plan[k])
    <2>1. \A m \in 1..Len(a), n \in 1..Len(b) : a[m].u # b[n].u
      BY <1>10 DEF Added, Dropped
    <2>2. CASE i \in 1..Len(a) /\ plan[i] = a[i]
      <3>1. CASE k \in 1..Len(a) /\ plan[k] = a[k]
        BY <1>2, <1>10, <1>12, <2>2, <3>1 DEF RowOf, Before
      <3>2. CASE \E n \in 1..Len(b) : k = Len(a) + n /\ plan[k] = b[n]
        BY <1>10, <2>1, <2>2, <3>2 DEF Before
      <3>3. CASE plan[k] = o
        BY <1>3, <1>10, <2>2, <3>3 DEF Before
      <3> QED BY <1>9, <3>1, <3>2, <3>3
    <2>3. ASSUME NEW m \in 1..Len(b), i = Len(a) + m, plan[i] = b[m]
          PROVE  Before(plan[i], plan[k])
      <3>1. CASE k \in 1..Len(a) /\ plan[k] = a[k]
        BY <1>6, <1>12, <2>3, <3>1
      <3>2. ASSUME NEW n \in 1..Len(b), k = Len(a) + n, plan[k] = b[n]
            PROVE  Before(plan[i], plan[k])
        <4>1. m # n
          BY <1>6, <1>12, <2>3, <3>2
        <4> QED BY <1>2, <1>10, <2>3, <3>2, <4>1 DEF RowOf, Before
      <3>3. CASE plan[k] = o
        BY <1>3, <1>10, <2>3, <3>3 DEF Before
      <3> QED BY <1>9, <3>1, <3>2, <3>3
    <2>4. CASE i = Len(a) + Len(b) + 1
      BY <1>6, <1>8, <1>12, <2>4
    <2> QED BY <1>9, <2>2, <2>3, <2>4
  <1>13. ASSUME NEW u \in UserIds, next[u] # was[u]
         PROVE  \E i \in 1..Len(plan) : plan[i].op # "members" /\ plan[i].u = u
    <2>1. u \in Added(was, next) \/ u \in Dropped(was, next)
      BY <1>13 DEF Added, Dropped
    <2>2. CASE u \in Added(was, next)
      <3>1. PICK i \in 1..Len(a) : a[i].u = u
        BY <1>2, <2>2 DEF RowOf
      <3>2. i \in 1..Len(ab) /\ i \in 1..Len(plan) /\ plan[i] = a[i]
        BY <1>6, <1>8
      <3> QED BY <1>10, <3>1, <3>2
    <2>3. CASE u \in Dropped(was, next)
      <3>1. PICK k \in 1..Len(b) : b[k].u = u
        BY <1>2, <2>3 DEF RowOf
      <3>2. Len(a) + k \in 1..Len(ab) /\ Len(a) + k \in 1..Len(plan) /\ plan[Len(a) + k] = b[k]
        BY <1>6, <1>8
      <3> QED BY <1>10, <3>1, <3>2
    <2> QED BY <2>1, <2>2, <2>3
  <1>14. Planned(plan, t, was, next) /\ Len(plan) >= 1
    BY <1>6, <1>8, <1>11, <1>12 DEF Planned
  <1> QED BY <1>13, <1>14

LEMMA MembersJob ==
  ASSUME SettingsInv, Settings!SaveTeamMembers
  PROVE  \E j, t : /\ jobs' = jobs \cup {j} /\ t \in TeamIds
                   /\ JobShape(j) /\ JobKnown(j) /\ j.kind = "members" /\ j.st = "sent"
                   /\ Planned(j.plan, t, j.was, j.next)
                   /\ \A u \in UserIds : j.next[u] # j.was[u] =>
                        \E i \in 1..Len(j.plan) : j.plan[i].op # "members" /\ j.plan[i].u = u
                   /\ j.alone => j.was = roles[t]
  <1>1. /\ dialog # Absent /\ dialog.kind = "members" /\ DialogKnown(dialog) /\ DraftTyped(dialog)
        /\ teamMembers \in Roles
    BY DEF Settings!SaveTeamMembers, Settings!Shows, SettingsInv, ListsKnown
  <1>2. PICK t, was, next, plan :
          /\ t = dialog.id /\ was = teamMembers[t]
          /\ next = [u \in UserIds |-> IF u \in DOMAIN dialog.draft THEN dialog.draft[u] ELSE "none"]
          /\ plan = Settings!Plan(was, next) \o <<Settings!ReadMembers({t})>>
    OBVIOUS
  <1>3. t \in TeamIds /\ was \in [UserIds -> Settings!Role] /\ next \in [UserIds -> Settings!Role]
    <2>1. t \in TeamIds
      BY <1>1, <1>2 DEF DialogKnown, KnownTeam
    <2>2. dialog.draft \in [DOMAIN dialog.draft -> Settings!Role]
      BY <1>1 DEF DraftTyped
    <2> QED BY <1>1, <1>2, <2>1, <2>2 DEF Roles, Settings!Role
  <1>4. /\ Planned(plan, t, was, next) /\ Len(plan) >= 1
        /\ \A u \in UserIds : next[u] # was[u] => \E i \in 1..Len(plan) : plan[i].op # "members" /\ plan[i].u = u
    <2>1. t = dialog.id /\ plan = CallsOfSave(t, was, next)
      BY <1>2, Zenon DEF CallsOfSave
    <2> QED BY <2>1, PlanIsPlanned
  <1>5. PICK e, alone : e = Settings!Job("members", plan) /\ alone = Settings!Alone(t)
    OBVIOUS
  <1>6. /\ JobShape(e) /\ e.kind = "members" /\ e.plan = plan /\ e.st = "sent" /\ alone \in BOOLEAN
        /\ alone => was = roles[t]
    <2>1. JobShape(e) /\ e.kind = "members" /\ e.plan = plan /\ e.st = "sent"
      BY <1>4, <1>5, FreshJob, JobKinds DEF Planned
    <2>2. alone \in BOOLEAN /\ (alone => was = roles[t])
      BY <1>2, <1>5, Zenon DEF Settings!Alone
    <2> QED BY <2>1, <2>2
  <1>7. PICK j : j = [e EXCEPT !.was = was, !.next = next, !.alone = alone]
    OBVIOUS
  <1>8. jobs' = jobs \cup {j}
    BY <1>2, <1>5, <1>7, Zenon DEF Settings!SaveTeamMembers, Settings!Submit, Settings!Start
  <1>9. /\ JobShape(j) /\ j.kind = "members" /\ j.plan = plan /\ j.st = "sent" /\ j.was = was /\ j.next = next
        /\ j.alone = alone
    BY <1>3, <1>6, <1>7 DEF JobShape
  <1>10. JobKnown(j)
    <2>1. ASSUME NEW i \in 1..Len(plan) PROVE OpKnown("members", plan[i])
      <3>1. OpPlanned(plan[i], t, was, next)
        BY <1>4 DEF Planned
      <3> QED BY <1>3, <3>1, JobKinds DEF OpPlanned, OpKnown
    <2> QED BY <1>9, <2>1 DEF JobKnown
  <1>11. /\ Planned(j.plan, t, j.was, j.next) /\ (j.alone => j.was = roles[t])
         /\ \A u \in UserIds : j.next[u] # j.was[u] =>
              \E i \in 1..Len(j.plan) : j.plan[i].op # "members" /\ j.plan[i].u = u
    BY <1>4, <1>6, <1>9, Zenon
  <1> QED BY <1>3, <1>8, <1>9, <1>10, <1>11, Zenon

LEMMA SaveMembersStep ==
  ASSUME SettingsInv, Settings!SaveTeamMembers
  PROVE  SettingsInv'
  <1>0. UNCHANGED <<accounts, groups, roles, users, teams, teamMembers, dialog, past>>
    BY DEF Settings!SaveTeamMembers, Settings!Submit, Settings!serverVars, Settings!dataVars
  <1>1. PICK j : jobs' = jobs \cup {j} /\ JobShape(j) /\ JobKnown(j) /\ j.kind = "members"
    BY MembersJob
  <1>2. JobKnown(j)'
    BY <1>0, <1>1, SameKnown
  <1> QED BY <1>0, <1>1, <1>2, JobStarts, PastStays

-----------------------------------------------------------------------------

\* A handler goes on with its next call, or ends.
LEMMA JobAdvances ==
  ASSUME JobsKnown, NEW j \in jobs, NEW i \in Settings!GoesOn(j)
  PROVE  i \in jobs \/ /\ JobShape(i) /\ JobKnown(i) /\ i.kind = j.kind /\ i.plan = Tail(j.plan)
                       /\ i.st = "sent" /\ i.was = j.was /\ i.next = j.next /\ i.alone = j.alone
                       /\ i.got = j.got /\ Len(j.plan) > 1
  <1>1. JobShape(j) /\ JobKnown(j)
    BY DEF JobsKnown
  <1>2. CASE i \in jobs
    BY <1>2
  <1>3. CASE i \notin jobs
    <2>1. PICK rest : rest = Tail(j.plan)
      OBVIOUS
    <2>2. i = [j EXCEPT !.plan = rest, !.st = "sent"] /\ Len(j.plan) # 1
      BY <1>3, <2>1 DEF Settings!GoesOn
    <2>3. /\ Len(j.plan) \in Nat /\ Len(j.plan) > 1 /\ IsSequence(rest) /\ Len(rest) >= 1
          /\ \A n \in 1..Len(rest) : \E k \in 1..Len(j.plan) : rest[n] = j.plan[k]
      <3>1. IsSequence(j.plan) /\ Len(j.plan) >= 1
        BY <1>1 DEF JobShape
      <3>2. /\ Len(j.plan) \in Nat /\ IsSequence(rest) /\ Len(rest) = Len(j.plan) - 1
            /\ \A n \in 1..Len(rest) : n + 1 \in 1..Len(j.plan) /\ rest[n] = j.plan[n + 1]
        BY <2>1, <3>1, TailIsSequence
      <3>3. PICK m \in Nat : m = Len(j.plan)
        BY <3>2
      <3>6. m >= 1 /\ m # 1 /\ Len(rest) = m - 1
        BY <2>2, <3>1, <3>2, <3>3, Zenon
      <3>4. m > 1 /\ Len(rest) = m - 1
        BY <3>6
      <3>5. \A n \in 1..Len(rest) : \E k \in 1..Len(j.plan) : rest[n] = j.plan[k]
        BY <3>2, Zenon
      <3> QED BY <3>2, <3>3, <3>4, <3>5
    <2>4. /\ i.kind = j.kind /\ i.plan = rest /\ i.st = "sent" /\ i.was = j.was /\ i.next = j.next
          /\ i.alone = j.alone /\ i.got = j.got
          /\ JobShape(i)
      BY <1>1, <2>2, <2>3 DEF JobShape
    <2>5. JobKnown(i)
      <3>1. i.kind = "load" => /\ \A u \in i.got.accounts : KnownUser(u)
                               /\ \A t \in i.got.groups : KnownTeam(t)
        BY <1>1, <2>4 DEF JobKnown
      <3>2. \A n \in 1..Len(i.plan) : \E k \in 1..Len(j.plan) : i.plan[n] = j.plan[k]
        BY <2>3, <2>4
      <3> QED BY <1>1, <2>4, <3>1, <3>2, JobGoesOn
    <2> QED BY <2>1, <2>3, <2>4, <2>5
  <1> QED BY <1>2, <1>3

\* An answer that adds nothing to the past.
LEMMA QuietAnswer ==
  ASSUME SettingsInv, NEW j \in jobs, jobs' = Settings!GoesOn(j), past' = past, ListsKnown',
         Settings!DeletedStaysGone'
  PROVE  SettingsInv'
  <1>1. ASSUME NEW i \in jobs'
        PROVE  /\ i \in jobs \/ (JobShape(i) /\ JobKnown(i)')
               /\ i.kind = "load" => \E k \in jobs : k.kind = "load"
    <2>1. i \in jobs \/ (JobShape(i) /\ JobKnown(i) /\ i.kind = j.kind)
      BY JobAdvances DEF SettingsInv
    <2> QED BY <2>1, SameKnown
  <1> QED BY <1>1, PastStays, SettingsKept

LEMMA AnswerQuiet ==
  ASSUME SettingsInv, NEW j \in jobs, Settings!Answered(j),
         Settings!ListsAnswered(j) \/ Settings!TeamAnswered(j)
  PROVE  SettingsInv'
  <1>1. /\ jobs' = Settings!GoesOn(j) /\ UNCHANGED <<accounts, groups, roles, users, teams, teamMembers, past>>
        /\ dialog' \in {dialog, Absent}
    BY DEF Settings!Answered, Settings!ListsAnswered, Settings!TeamAnswered, Settings!serverVars, Settings!dataVars
  <1>2. dialog' # Absent => (DialogKnown(dialog) /\ DraftTyped(dialog))'
    <2>1. dialog # Absent => DialogKnown(dialog) /\ DraftTyped(dialog)
      BY DEF SettingsInv, ListsKnown
    <2>2. PICK d : d = dialog
      OBVIOUS
    <2>3. d # Absent => DialogKnown(d)'
      BY <1>1, <2>1, <2>2, DialogStillKnown, PastStays
    <2> QED BY <1>1, <2>1, <2>2, <2>3
  <1>3. ListsKnown'
    BY <1>1, <1>2, ListsStay, PastStays
  <1>4. Settings!DeletedStaysGone'
    BY <1>1, GoneStays
  <1> QED BY <1>1, <1>3, <1>4, QuietAnswer

\* The call a handler waits for.
LEMMA HeadIsKnown ==
  ASSUME SettingsInv, NEW j \in jobs
  PROVE  /\ Head(j.plan) = j.plan[1] /\ 1 \in 1..Len(j.plan) /\ OpKnown(j.kind, Head(j.plan))
         /\ JobShape(j) /\ JobKnown(j)
  <1>1. JobShape(j) /\ JobKnown(j)
    BY DEF SettingsInv, JobsKnown
  <1>2. Head(j.plan) = j.plan[1] /\ Len(j.plan) \in Nat /\ Len(j.plan) >= 1
    BY <1>1, TailIsSequence DEF JobShape
  <1>3. 1 \in 1..Len(j.plan)
    BY <1>2
  <1> QED BY <1>1, <1>2, <1>3 DEF JobKnown

LEMMA AnswerUser ==
  ASSUME SettingsInv, NEW j \in jobs, Settings!Answered(j), Settings!UserAnswered(j)
  PROVE  SettingsInv'
  <1>1. PICK o : o = Head(j.plan)
    OBVIOUS
  <1>2. /\ o.op \in {"create", "update", "setTeams"} /\ jobs' = Settings!GoesOn(j)
        /\ UNCHANGED <<accounts, groups, roles, teams, teamMembers, past, dialog>>
        /\ \/ users' = users
           \/ j.kind = "create" /\ users' = Settings!Appended(j, users)
           \/ users' = Settings!Mapped(j, users)
    BY <1>1 DEF Settings!Answered, Settings!UserAnswered, Settings!serverVars
  <1>3. OpKnown(j.kind, o)
    BY <1>1, HeadIsKnown
  <1>4. Settings!Entry(j).id = o.u
    BY <1>1 DEF Settings!Entry
  <1>5. \A x \in users' : \/ \E y \in users : x.id = y.id
                          \/ j.kind = "create" /\ x.id = o.u
    <2>1. CASE users' = users
      BY <2>1
    <2>2. CASE j.kind = "create" /\ users' = Settings!Appended(j, users)
      BY <1>4, <2>2 DEF Settings!Appended
    <2>3. CASE users' = Settings!Mapped(j, users)
      BY <1>4, <2>3 DEF Settings!Mapped
    <2> QED BY <1>2, <2>1, <2>2, <2>3
  <1>6. \A x \in users' : KnownUser(x.id) /\ <<"deleted", x.id>> \notin past
    BY <1>2, <1>3, <1>5 DEF SettingsInv, ListsKnown, Settings!DeletedStaysGone, OpKnown, Fresh
  <1>7. \A x \in users' : KnownUser(x.id)'
    BY <1>2, <1>6 DEF KnownUser
  <1>8. ListsKnown'
    BY <1>2, <1>7 DEF SettingsInv, ListsKnown, DialogKnown, DraftTyped, KnownUser, KnownTeam
  <1>9. Settings!DeletedStaysGone'
    BY <1>2, <1>6 DEF SettingsInv, Settings!DeletedStaysGone
  <1> QED BY <1>2, <1>8, <1>9, QuietAnswer

LEMMA AnswerDeletion ==
  ASSUME SettingsInv, NEW j \in jobs, Settings!Answered(j), Settings!DeletionAnswered(j)
  PROVE  SettingsInv'
  <1>1. PICK o, x : o = Head(j.plan) /\ x = IF o.op = "delete" THEN o.u ELSE o.t
    OBVIOUS
  <1>2. /\ o.op \in {"delete", "deleteTeam"} /\ jobs' = Settings!GoesOn(j)
        /\ UNCHANGED <<accounts, groups, roles>> /\ dialog' \in {dialog, Absent}
        /\ past' = past \cup Settings!Deleted(x)
        /\ IF o.op = "delete" THEN users' = {y \in users : y.id # x} /\ UNCHANGED <<teams, teamMembers>>
           ELSE teams' = teams \ {x} /\ users' = users /\ teamMembers' = [teamMembers EXCEPT ![x] = Settings!Nobody]
    BY <1>1 DEF Settings!Answered, Settings!DeletionAnswered, Settings!serverVars
  <1>3. OpKnown(j.kind, o)
    BY <1>1, HeadIsKnown
  <1>4. IF o.op = "delete" THEN KnownUser(x) ELSE KnownTeam(x)
    BY <1>1, <1>2, <1>3 DEF OpKnown
  <1>5. PastGrows /\ \A y : <<"deleted", y>> \in past' => <<"deleted", y>> \in past \/ y = x
    BY <1>2 DEF Settings!Deleted, PastGrows
  <1>6. \A i \in jobs' : i \in jobs \/ (JobShape(i) /\ JobKnown(i)')
    <2> SUFFICES ASSUME NEW i \in jobs', i \notin jobs PROVE JobShape(i) /\ JobKnown(i)'
      OBVIOUS
    <2>1. JobShape(i) /\ JobKnown(i) /\ i.kind = j.kind
      BY <1>2, JobAdvances DEF SettingsInv
    <2>2. ASSUME NEW n \in 1..Len(i.plan) PROVE OpKnown(i.kind, i.plan[n])'
      BY <1>5, <2>1, OpStillKnown DEF JobKnown
    <2>3. JobKnown(i)'
      BY <1>5, <2>1, <2>2, StillKnown DEF JobKnown
    <2> QED BY <2>1, <2>3
  <1>7. \A i \in jobs' : i.kind = "load" => \E k \in jobs : k.kind = "load"
    BY <1>2, JobAdvances DEF SettingsInv
  <1>8. Settings!DeletedStaysGone'
    <2>1. \A y \in users' : y \in users /\ y.id \in UserIds /\ y.id # x
      <3>1. \A y \in users' : y \in users /\ y.id \in UserIds
        BY <1>2 DEF SettingsInv, ListsKnown, KnownUser
      <3>2. o.op = "delete" \/ x \notin UserIds
        BY <1>4, SettingsAssumption DEF KnownTeam
      <3> QED BY <1>2, <3>1, <3>2
    <2>2. \A t \in teams' : t \in teams /\ t # x
      <3>1. \A t \in teams' : t \in teams /\ t \in TeamIds
        BY <1>2 DEF SettingsInv, ListsKnown, KnownTeam
      <3>2. o.op # "delete" \/ x \notin TeamIds
        BY <1>4, SettingsAssumption DEF KnownUser
      <3> QED BY <1>2, <3>1, <3>2
    <2> QED BY <1>5, <2>1, <2>2 DEF SettingsInv, Settings!DeletedStaysGone
  <1>9. ListsKnown'
    <2>1. teamMembers' \in Roles
      <3>1. Settings!Nobody \in [UserIds -> Settings!Role]
        BY DEF Settings!Nobody, Settings!Role
      <3>2. teamMembers \in Roles
        BY DEF SettingsInv, ListsKnown
      <3> QED BY <1>2, <3>1, <3>2 DEF Roles
    <2>2. users' \subseteq users /\ teams' \subseteq teams
      BY <1>2
    <2>3. dialog' # Absent => (DialogKnown(dialog) /\ DraftTyped(dialog))'
      <3>1. dialog # Absent => DialogKnown(dialog) /\ DraftTyped(dialog)
        BY DEF SettingsInv, ListsKnown
      <3>2. PICK d : d = dialog
        OBVIOUS
      <3>3. d # Absent => DialogKnown(d)'
        BY <1>5, <3>1, <3>2, DialogStillKnown
      <3> QED BY <1>2, <3>1, <3>2, <3>3
    <2> QED BY <1>2, <1>5, <2>1, <2>2, <2>3, StillKnown DEF SettingsInv, ListsKnown
  <1> QED BY <1>4, <1>5, <1>6, <1>7, <1>8, <1>9, SettingsKept

-----------------------------------------------------------------------------

\* The answer with the members: a handler that made it is the load, which nothing was
\* deleted under, or one that put its own new team on the list, or one that changes
\* neither list.
LEMMA AnswerMembers ==
  ASSUME SettingsInv, NEW j \in jobs, Settings!Answered(j), Settings!MembersAnswered(j)
  PROVE  SettingsInv'
  <1>1. PICK o, got : o = Head(j.plan) /\ got = j.got
    OBVIOUS
  <1>2. PICK kind : kind = j.kind
    OBVIOUS
  <1>3. /\ o.op = "members" /\ jobs' = Settings!GoesOn(j)
        /\ UNCHANGED <<accounts, groups, roles, past>>
        /\ teamMembers' = [t \in TeamIds |-> IF t \in DOMAIN o.assign THEN got.members[t]
                                     ELSE IF kind \in {"members", "newTeam"} THEN teamMembers[t]
                                     ELSE Settings!Nobody]
        /\ teams' = IF kind = "load" THEN got.groups
                    ELSE IF kind = "newTeam" THEN teams \cup DOMAIN o.assign ELSE teams
        /\ users' = IF kind = "load" THEN Settings!Users(got.accounts, got.disabled) ELSE users
        /\ \/ dialog' \in {dialog, Absent}
           \/ /\ Settings!Shows("members")
              /\ dialog' = [dialog EXCEPT !.draft = Settings!MemberDraft(teamMembers'[dialog.id])]
    BY <1>1, <1>2 DEF Settings!Answered, Settings!MembersAnswered, Settings!serverVars
  <1>4. OpKnown(kind, o) /\ JobShape(j) /\ JobKnown(j)
    BY <1>1, <1>2, HeadIsKnown
  <1>5. got.members \in Roles
    BY <1>1, <1>4 DEF JobShape
  <1>6. teamMembers' \in Roles
    <2>1. Settings!Nobody \in [UserIds -> Settings!Role]
      BY DEF Settings!Nobody, Settings!Role
    <2>2. teamMembers \in Roles
      BY DEF SettingsInv, ListsKnown
    <2> QED BY <1>3, <1>5, <2>1, <2>2 DEF Roles
  <1>7. \A x \in users' : KnownUser(x.id) /\ <<"deleted", x.id>> \notin past
    <2>1. CASE kind = "load"
      <3>1. \A x \in users' : x.id \in got.accounts
        BY <1>3, <2>1 DEF Settings!Users
      <3> QED BY <1>1, <1>2, <1>4, <2>1, <3>1 DEF SettingsInv, DeletedKnown, JobKnown
    <2>2. CASE kind # "load"
      BY <1>3, <2>2 DEF SettingsInv, ListsKnown, Settings!DeletedStaysGone
    <2> QED BY <2>1, <2>2
  <1>8. \A t \in teams' : KnownTeam(t) /\ <<"deleted", t>> \notin past
    <2>1. CASE kind = "load"
      BY <1>1, <1>2, <1>3, <1>4, <2>1 DEF SettingsInv, DeletedKnown, JobKnown
    <2>2. CASE kind = "newTeam"
      BY <1>3, <1>4, <2>2 DEF SettingsInv, ListsKnown, Settings!DeletedStaysGone, OpKnown, Fresh
    <2>3. CASE kind \notin {"load", "newTeam"}
      BY <1>3, <2>3 DEF SettingsInv, ListsKnown, Settings!DeletedStaysGone
    <2> QED BY <2>1, <2>2, <2>3
  <1>9. dialog # Absent => DialogKnown(dialog) /\ DraftTyped(dialog)
    BY DEF SettingsInv, ListsKnown
  <1>10. dialog' # Absent => DialogKnown(dialog') /\ DraftTyped(dialog')
    <2>1. CASE dialog' \in {dialog, Absent}
      BY <1>9, <2>1
    <2>2. CASE /\ Settings!Shows("members")
               /\ dialog' = [dialog EXCEPT !.draft = Settings!MemberDraft(teamMembers'[dialog.id])]
      <3>1. PICK e : e = Settings!MemberDraft(teamMembers'[dialog.id])
        OBVIOUS
      <3>2. dialog # Absent /\ dialog.kind = "members" /\ dialog' = [dialog EXCEPT !.draft = e]
        BY <2>2, <3>1 DEF Settings!Shows
      <3>3. dialog.id \in TeamIds
        BY <1>9, <3>2 DEF DialogKnown, KnownTeam
      <3>4. \A x \in users : x.id \in UserIds
        BY DEF SettingsInv, ListsKnown, KnownUser
      <3>5. e \in [DOMAIN e -> Settings!Role]
        BY <1>6, <3>1, <3>3, <3>4 DEF Settings!MemberDraft, Roles
      <3> QED BY <1>9, <3>2, <3>5 DEF DialogKnown, DraftTyped
    <2> QED BY <1>3, <2>1, <2>2
  <1>11. ListsKnown'
    <2>1. (\A x \in users : KnownUser(x.id))' /\ (\A t \in teams : KnownTeam(t))'
      BY <1>3, <1>7, <1>8 DEF KnownUser, KnownTeam
    <2>2. PICK d : d = dialog'
      OBVIOUS
    <2>3. d # Absent => DialogKnown(d)'
      BY <1>3, <1>10, <2>2, DialogStillKnown, PastStays
    <2>4. dialog' # Absent => (DialogKnown(dialog) /\ DraftTyped(dialog))'
      BY <1>10, <2>2, <2>3
    <2>5. (roles \in Roles /\ (\A u \in accounts : KnownUser(u)) /\ \A t \in groups : KnownTeam(t))'
      BY <1>3, PastStays, StillKnown DEF SettingsInv, ListsKnown
    <2> QED BY <1>6, <2>1, <2>4, <2>5 DEF ListsKnown
  <1>12. Settings!DeletedStaysGone'
    BY <1>3, <1>7, <1>8 DEF Settings!DeletedStaysGone
  <1> QED BY <1>3, <1>11, <1>12, QuietAnswer

LEMMA AnsweredStep ==
  ASSUME SettingsInv, NEW j \in jobs, Settings!Answered(j)
  PROVE  SettingsInv'
  BY AnswerQuiet, AnswerUser, AnswerDeletion, AnswerMembers DEF Settings!Answered

\* A load that fails leaves what there was at the start, of which nothing has been
\* deleted by then.
LEMMA FailedStep ==
  ASSUME SettingsInv, NEW j \in jobs, Settings!Failed(j)
  PROVE  SettingsInv'
  <1>1. /\ jobs' = jobs \ {j} /\ UNCHANGED <<accounts, groups, roles, past>>
        /\ dialog' \in {dialog, Absent}
        /\ IF j.kind = "load"
           THEN users' = Settings!Users({Self}, {}) /\ teams' = {FirstTeam}
                /\ teamMembers' = [t \in TeamIds |-> Settings!Nobody]
           ELSE UNCHANGED <<users, teams, teamMembers>>
    BY DEF Settings!Failed, Settings!serverVars, Settings!dataVars
  <1>2. teamMembers' \in Roles
    <2>1. Settings!Nobody \in [UserIds -> Settings!Role]
      BY DEF Settings!Nobody, Settings!Role
    <2>2. teamMembers \in Roles
      BY DEF SettingsInv, ListsKnown
    <2> QED BY <1>1, <2>1, <2>2 DEF Roles
  <1>3. /\ \A x \in users' : KnownUser(x.id) /\ <<"deleted", x.id>> \notin past
        /\ \A t \in teams' : KnownTeam(t) /\ <<"deleted", t>> \notin past
    <2>1. CASE j.kind = "load"
      <3>1. (\A x \in users' : x.id = Self) /\ teams' = {FirstTeam}
        BY <1>1, <2>1 DEF Settings!Users
      <3>2. KnownUser(Self) /\ KnownTeam(FirstTeam)
        BY SettingsAssumption DEF KnownUser, KnownTeam
      <3> QED BY <2>1, <3>1, <3>2 DEF SettingsInv, DeletedKnown
    <2>2. CASE j.kind # "load"
      BY <1>1, <2>2 DEF SettingsInv, ListsKnown, Settings!DeletedStaysGone
    <2> QED BY <2>1, <2>2
  <1>4. dialog' # Absent => (DialogKnown(dialog) /\ DraftTyped(dialog))'
    <2>1. dialog # Absent => DialogKnown(dialog) /\ DraftTyped(dialog)
      BY DEF SettingsInv, ListsKnown
    <2>2. PICK d : d = dialog
      OBVIOUS
    <2>3. d # Absent => DialogKnown(d)'
      BY <1>1, <2>1, <2>2, DialogStillKnown, PastStays
    <2> QED BY <1>1, <2>1, <2>2, <2>3
  <1>5. ListsKnown'
    <2>1. (\A x \in users : KnownUser(x.id))' /\ (\A t \in teams : KnownTeam(t))'
      BY <1>1, <1>3 DEF KnownUser, KnownTeam
    <2>2. (roles \in Roles /\ (\A u \in accounts : KnownUser(u)) /\ \A t \in groups : KnownTeam(t))'
      BY <1>1, PastStays, StillKnown DEF SettingsInv, ListsKnown
    <2> QED BY <1>2, <1>4, <2>1, <2>2 DEF ListsKnown
  <1>6. Settings!DeletedStaysGone'
    BY <1>1, <1>3 DEF Settings!DeletedStaysGone
  <1>7. \A i \in jobs' : i \in jobs
    BY <1>1
  <1> QED BY <1>1, <1>5, <1>6, <1>7, PastStays, SettingsKept

-----------------------------------------------------------------------------

AnswerTyped(got) ==
  got \in [off : {got.off}, accounts : {got.accounts}, disabled : {got.disabled},
           groups : {got.groups}, members : Roles]

LEMMA NoAnswerTyped ==
  /\ AnswerTyped(Settings!NoAnswer) /\ Settings!NoAnswer.members \in Roles
  /\ Settings!NoAnswer.accounts = {} /\ Settings!NoAnswer.groups = {}
  <1>1. Settings!Nobody \in [UserIds -> Settings!Role]
    BY DEF Settings!Nobody, Settings!Role
  <1> QED BY <1>1 DEF Settings!NoAnswer, Roles, AnswerTyped

\* What an answer makes of a handler: its own answer, or another's change of roles.
LEMMA Replies ==
  ASSUME NEW j \in jobs, NEW st, NEW got, NEW newRoles, Settings!Answer(j, st, got, newRoles),
         NEW d \in jobs'
  PROVE  \E i \in jobs : \/ i = j /\ d = [j EXCEPT !.st = st, !.got = got]
                         \/ i # j /\ d = [i EXCEPT !.alone = FALSE] /\ newRoles # roles
                         \/ i # j /\ d = i /\ newRoles = roles
  BY DEF Settings!Answer

LEMMA Replied ==
  ASSUME SettingsInv, NEW j \in jobs, NEW st \in {"ok", "error", "lastAdmin"}, NEW got, AnswerTyped(got),
         NEW newRoles \in Roles, Settings!Answer(j, st, got, newRoles),
         j.kind = "load" => /\ \A u \in got.accounts : KnownUser(u)
                            /\ \A t \in got.groups : KnownTeam(t),
         UNCHANGED <<users, teams, teamMembers, dialog, past>>,
         \A u \in accounts' : KnownUser(u), \A t \in groups' : KnownTeam(t)
  PROVE  SettingsInv'
  <1>1. PastGrows /\ roles' = newRoles
    BY PastStays DEF Settings!Answer
  <1>2. ListsKnown'
    <2>1. PICK d : d = dialog
      OBVIOUS
    <2>2. d # Absent => DialogKnown(d) /\ DraftTyped(d)
      BY <2>1 DEF SettingsInv, ListsKnown
    <2>3. d # Absent => DialogKnown(d)'
      BY <1>1, <2>2, DialogStillKnown
    <2>4. dialog' # Absent => (DialogKnown(dialog) /\ DraftTyped(dialog))'
      BY <2>1, <2>2, <2>3
    <2>5. /\ (\A u \in accounts : KnownUser(u))' /\ (\A t \in groups : KnownTeam(t))'
          /\ (\A x \in users : KnownUser(x.id))' /\ (\A t \in teams : KnownTeam(t))'
      BY DEF SettingsInv, ListsKnown, KnownUser, KnownTeam
    <2> QED BY <1>1, <2>4, <2>5 DEF SettingsInv, ListsKnown
  <1>3. Settings!DeletedStaysGone'
    BY GoneStays
  <1>4. ASSUME NEW d \in jobs'
        PROVE  /\ JobShape(d) /\ JobKnown(d)' /\ \E i \in jobs : i.kind = d.kind
    <2>1. PICK i \in jobs : \/ i = j /\ d = [j EXCEPT !.st = st, !.got = got]
                            \/ i # j /\ d = [i EXCEPT !.alone = FALSE] /\ newRoles # roles
                            \/ i # j /\ d = i /\ newRoles = roles
      BY <1>4, Replies
    <2>2. JobShape(i) /\ JobKnown(i)
      BY DEF SettingsInv, JobsKnown
    <2>3. /\ d.kind = i.kind /\ d.plan = i.plan /\ JobShape(d)
          /\ d.got = IF i = j THEN got ELSE i.got
      <3>1. CASE i = j /\ d = [i EXCEPT !.st = st, !.got = got]
        BY <2>2, <3>1 DEF JobShape, AnswerTyped
      <3>2. CASE i # j /\ d = [i EXCEPT !.alone = FALSE]
        BY <2>2, <3>2 DEF JobShape
      <3>3. CASE i # j /\ d = i
        BY <2>2, <3>3
      <3> QED BY <2>1, <3>1, <3>2, <3>3
    <2>4. d.kind = "load" => /\ \A u \in d.got.accounts : KnownUser(u)
                             /\ \A t \in d.got.groups : KnownTeam(t)
      BY <2>2, <2>3 DEF JobKnown
    <2>5. JobKnown(d)
      BY <2>2, <2>3, <2>4 DEF JobKnown
    <2>6. JobKnown(d)'
      BY <2>5, SameKnown
    <2> QED BY <2>3, <2>6
  <1> QED BY <1>1, <1>2, <1>3, <1>4, SettingsKept

\* The job a call is of, and what the invariant says of the lists on the server.
LEMMA Serving ==
  ASSUME SettingsInv, NEW j \in jobs
  PROVE  /\ roles \in Roles /\ (\A u \in accounts : KnownUser(u)) /\ (\A t \in groups : KnownTeam(t))
         /\ JobShape(j) /\ OpKnown(j.kind, Head(j.plan)) /\ AnswerTyped(j.got)
         /\ j.kind = "load" => /\ \A u \in j.got.accounts : KnownUser(u)
                               /\ \A t \in j.got.groups : KnownTeam(t)
  BY HeadIsKnown DEF SettingsInv, ListsKnown, JobShape, JobKnown, AnswerTyped

LEMMA ServeReads ==
  ASSUME SettingsInv, NEW j \in jobs, UNCHANGED <<users, teams, teamMembers, dialog, past>>,
         Settings!ServeList(j) \/ Settings!ServeMembers(j)
  PROVE  SettingsInv'
  <1>1. CASE Settings!ServeList(j)
    <2>1. PICK got : got = [Settings!NoAnswer EXCEPT !.accounts = accounts, !.disabled = disabled, !.groups = groups]
      OBVIOUS
    <2>2. AnswerTyped(got) /\ got.accounts = accounts /\ got.groups = groups
      BY <2>1, NoAnswerTyped DEF AnswerTyped
    <2>3. Settings!Answer(j, "ok", got, roles) /\ accounts' = accounts /\ groups' = groups
      BY <1>1, <2>1, Zenon DEF Settings!ServeList
    <2> QED BY <2>2, <2>3, Serving, Replied
  <1>2. CASE Settings!ServeMembers(j)
    <2>1. PICK got : got = [j.got EXCEPT !.members = roles]
      OBVIOUS
    <2>2. AnswerTyped(got) /\ got.accounts = j.got.accounts /\ got.groups = j.got.groups
      BY <2>1, Serving DEF AnswerTyped
    <2>3. Settings!Answer(j, "ok", got, roles) /\ accounts' = accounts /\ groups' = groups
      BY <1>2, <2>1, Zenon DEF Settings!ServeMembers
    <2> QED BY <2>2, <2>3, Serving, Replied
  <1> QED BY <1>1, <1>2

\* A role that is set.
LEMMA RolesSet ==
  ASSUME NEW u, NEW f \in [TeamIds -> Settings!Role], roles \in Roles
  PROVE  [t \in TeamIds |-> [roles[t] EXCEPT ![u] = f[t]]] \in Roles
  BY DEF Roles, Settings!Role

LEMMA RoleSet ==
  ASSUME NEW t, NEW u, NEW r \in Settings!Role, roles \in Roles
  PROVE  [roles EXCEPT ![t][u] = r] \in Roles
  BY DEF Roles, Settings!Role

\* What the server makes of a call about a user.
UserReply(j, st, got, newRoles) ==
  /\ st \in {"ok", "error", "lastAdmin"} /\ newRoles \in Roles
  /\ AnswerTyped(got) /\ Settings!Answer(j, st, got, newRoles)
  /\ \/ got.accounts = {} /\ got.groups = {}
     \/ got = j.got
  /\ groups' = groups /\ \A u \in accounts' : u \in accounts \/ KnownUser(u)

LEMMA UserAnswers ==
  ASSUME SettingsInv, NEW j \in jobs, NEW o, o = Head(j.plan), Settings!ServeUser(j, o)
  PROVE  \E st, got, newRoles : UserReply(j, st, got, newRoles)
  <1>1. /\ roles \in Roles /\ OpKnown(j.kind, o) /\ AnswerTyped(j.got)
        /\ o.op \in OpsOf[j.kind] /\ j.kind \in DOMAIN OpsOf
    BY Serving DEF OpKnown, JobShape
  <1>2. groups' = groups
    BY DEF Settings!ServeUser
  <1>3. CASE o.op = "create" /\ accounts' = accounts \cup {o.u} /\ Settings!Answer(j, "ok", Settings!NoAnswer, roles)
    <2>1. KnownUser(o.u)
      BY <1>1, <1>3, JobKinds DEF OpKnown
    <2>9. UserReply(j, "ok", Settings!NoAnswer, roles)
      BY <1>2, <1>1, <1>3, <2>1, NoAnswerTyped DEF UserReply
    <2> QED BY <2>9
  <1>4. CASE /\ o.op = "update" /\ accounts' = accounts
             /\ Settings!Answer(j, "ok", [Settings!NoAnswer EXCEPT !.off = o.off], roles)
    <2>1. PICK got : got = [Settings!NoAnswer EXCEPT !.off = o.off]
      OBVIOUS
    <2>2. AnswerTyped(got) /\ got.accounts = {} /\ got.groups = {}
      BY <2>1, NoAnswerTyped DEF AnswerTyped
    <2>9. UserReply(j, "ok", got, roles)
      BY <1>2, <1>1, <1>4, <2>1, <2>2 DEF UserReply
    <2> QED BY <2>9
  <1>5. CASE accounts' = accounts /\ Settings!Answer(j, "lastAdmin", Settings!NoAnswer, roles)
    <2>9. UserReply(j, "lastAdmin", Settings!NoAnswer, roles)
      BY <1>2, <1>1, <1>5, NoAnswerTyped DEF UserReply
    <2> QED BY <2>9
  <1>6. CASE accounts' = accounts /\ Settings!Answer(j, "error", Settings!NoAnswer, roles)
    <2>9. UserReply(j, "error", Settings!NoAnswer, roles)
      BY <1>2, <1>1, <1>6, NoAnswerTyped DEF UserReply
    <2> QED BY <2>9
  <1>7. PICK f, g, h : /\ f = [t \in TeamIds |-> IF t \in DOMAIN o.assign THEN o.assign[t] ELSE "none"]
                       /\ g = [t \in TeamIds |-> [roles[t] EXCEPT ![o.u] =
                                IF t \in DOMAIN o.assign THEN o.assign[t] ELSE "none"]]
                       /\ h = [t \in TeamIds |-> [roles[t] EXCEPT ![o.u] = "none"]]
    OBVIOUS
  <1>8. CASE o.op = "setTeams" /\ accounts' = accounts /\ Settings!Answer(j, "ok", j.got, g)
    <2>1. f \in [TeamIds -> Settings!Role]
      BY <1>1, <1>7, <1>8 DEF OpKnown, Settings!Role
    <2>2. g \in Roles
      BY <1>1, <1>7, <2>1 DEF Roles, Settings!Role
    <2>9. UserReply(j, "ok", j.got, g)
      BY <1>2, <1>1, <1>8, <2>2 DEF UserReply
    <2> QED BY <2>9
  <1>9. CASE accounts' = accounts \ {o.u} /\ Settings!Answer(j, "ok", Settings!NoAnswer, h)
    <2>1. h \in Roles
      BY <1>1, <1>7 DEF Roles, Settings!Role
    <2>9. UserReply(j, "ok", Settings!NoAnswer, h)
      BY <1>2, <1>1, <1>9, <2>1, NoAnswerTyped DEF UserReply
    <2> QED BY <2>9
  <1> QED BY <1>3, <1>4, <1>5, <1>6, <1>7, <1>8, <1>9, Zenon DEF Settings!ServeUser

LEMMA TeamAnswers ==
  ASSUME SettingsInv, NEW j \in jobs, NEW o, o = Head(j.plan), Settings!ServeTeam(j, o)
  PROVE  \E st \in {"ok", "error", "lastAdmin"}, newRoles \in Roles :
           /\ Settings!Answer(j, st, Settings!NoAnswer, newRoles)
           /\ accounts' = accounts /\ \A t \in groups' : t \in groups \/ KnownTeam(t)
  <1>1. roles \in Roles /\ OpKnown(j.kind, o)
    BY Serving
  <1>2. accounts' = accounts
    BY DEF Settings!ServeTeam
  <1>3. CASE groups' = groups /\ \E st \in {"ok", "error", "lastAdmin"} : Settings!Answer(j, st, Settings!NoAnswer, roles)
    BY <1>1, <1>2, <1>3
  <1>4. CASE /\ o.op = "newTeam" /\ groups' = groups \cup {o.t}
             /\ Settings!Answer(j, "ok", Settings!NoAnswer, [roles EXCEPT ![o.t][Self] = "admin"])
    <2>1. KnownTeam(o.t)
      BY <1>1, <1>4 DEF OpKnown
    <2>2. [roles EXCEPT ![o.t][Self] = "admin"] \in Roles
      BY <1>1, RoleSet DEF Settings!Role
    <2> QED BY <1>2, <1>4, <2>1, <2>2
  <1>5. CASE /\ groups' = groups \ {o.t}
             /\ Settings!Answer(j, "ok", Settings!NoAnswer, [roles EXCEPT ![o.t] = Settings!Nobody])
    <2>1. [roles EXCEPT ![o.t] = Settings!Nobody] \in Roles
      BY <1>1 DEF Roles, Settings!Nobody, Settings!Role
    <2> QED BY <1>2, <1>5, <2>1
  <1>6. PICK r : r = IF o.op = "remove" THEN "none" ELSE o.assign[o.t]
    OBVIOUS
  <1>7. CASE /\ o.op \in {"add", "role", "remove"} /\ groups' = groups
             /\ Settings!Answer(j, "ok", Settings!NoAnswer, [roles EXCEPT ![o.t][o.u] = r])
    <2>1. r \in Settings!Role
      BY <1>1, <1>6, <1>7 DEF OpKnown, Settings!Role
    <2>2. [roles EXCEPT ![o.t][o.u] = r] \in Roles
      BY <1>1, <2>1, RoleSet
    <2> QED BY <1>2, <1>7, <2>2
  <1> QED BY <1>3, <1>4, <1>5, <1>6, <1>7, Zenon DEF Settings!ServeTeam

LEMMA ServeStep ==
  ASSUME SettingsInv, NEW j \in jobs, Settings!Serve(j)
  PROVE  SettingsInv'
  <1>1. PICK o : o = Head(j.plan)
    OBVIOUS
  <1>2. /\ UNCHANGED <<users, teams, teamMembers, dialog, past>>
        /\ Settings!ServeList(j) \/ Settings!ServeMembers(j) \/ Settings!ServeUser(j, o) \/ Settings!ServeTeam(j, o)
    BY <1>1 DEF Settings!Serve, Settings!dataVars
  <1>3. CASE Settings!ServeUser(j, o)
    <2>1. PICK st, got, newRoles : UserReply(j, st, got, newRoles)
      BY <1>1, <1>3, UserAnswers
    <2> QED BY <1>2, <2>1, Serving, Replied DEF UserReply
  <1>4. CASE Settings!ServeTeam(j, o)
    <2>1. PICK st \in {"ok", "error", "lastAdmin"}, newRoles \in Roles :
           /\ Settings!Answer(j, st, Settings!NoAnswer, newRoles)
           /\ accounts' = accounts /\ \A t \in groups' : t \in groups \/ KnownTeam(t)
      BY <1>1, <1>4, TeamAnswers
    <2> QED BY <1>2, <2>1, Serving, Replied, NoAnswerTyped
  <1> QED BY <1>2, <1>3, <1>4, ServeReads

LEMMA FaultStep ==
  ASSUME SettingsInv, NEW j \in jobs, Settings!Fault(j)
  PROVE  SettingsInv'
  <1>1. UNCHANGED <<accounts, groups, users, teams, teamMembers, dialog, past>>
    BY DEF Settings!Fault, Settings!dataVars
  <1>2. PICK got : got = [j.got EXCEPT !.members = Settings!NoAnswer.members]
    OBVIOUS
  <1>3. Settings!Answer(j, "ok", got, roles) \/ Settings!Answer(j, "error", Settings!NoAnswer, roles)
    BY <1>2, Zenon DEF Settings!Fault
  <1>4. AnswerTyped(got) /\ got.accounts = j.got.accounts /\ got.groups = j.got.groups
    BY <1>2, Serving, NoAnswerTyped DEF AnswerTyped
  <1> QED BY <1>1, <1>3, <1>4, Serving, Replied, NoAnswerTyped

LEMMA SettingsStep ==
  ASSUME SettingsInv, [Settings!Next]_(Settings!vars)
  PROVE  SettingsInv'
  <1>1. CASE UNCHANGED Settings!vars
    <2>1. UNCHANGED <<accounts, groups, roles, users, teams, teamMembers, jobs, past, dialog>>
      BY <1>1 DEF Settings!vars
    <2> QED BY <2>1 DEF SettingsInv, ListsKnown, JobsKnown, DeletedKnown, Settings!DeletedStaysGone, KnownUser,
                        KnownTeam, JobKnown, OpKnown, Fresh, DialogKnown
  <1>2. CASE Settings!Next
    BY <1>2, OpenSteps, DialogSteps, SingleCallSteps, SubmitEditStep, SubmitCreateStep, SubmitTeamStep,
       SaveMembersStep, AnsweredStep, FailedStep, ServeStep, FaultStep DEF Settings!Next
  <1> QED BY <1>1, <1>2

-----------------------------------------------------------------------------
(* A save of members.                                                       *)

\* A change of u is still in the plan, at a place from on.
Left(plan, from, u) == \E i \in from..Len(plan) : plan[i].op # "members" /\ plan[i].u = u

\* The team is as the save found it where a change is still to come, and elsewhere as
\* the save wants it.
Halfway(plan, from, was, next, team) ==
  \A u \in UserIds : team[u] = IF Left(plan, from, u) THEN was[u] ELSE next[u]

\* No administrator would be left, or one is made a member.
Demotes(was, next) ==
  \/ \A u \in UserIds : next[u] # "admin"
  \/ \E u \in UserIds : was[u] = "admin" /\ next[u] = "member"

OnPlan(j, t) ==
  /\ t \in TeamIds /\ Planned(j.plan, t, j.was, j.next)
  /\ j.alone /\ j.st = "sent" => Halfway(j.plan, 1, j.was, j.next, roles[t])
  /\ j.alone /\ j.st = "ok" => Halfway(j.plan, 2, j.was, j.next, roles[t])
  /\ j.alone /\ j.st = "lastAdmin" => Demotes(j.was, j.next)

SavesOnPlan == \A j \in jobs : j.kind = "members" => \E t : OnPlan(j, t)

LEMMA LeftFacts ==
  ASSUME NEW plan, NEW t, NEW was, NEW next, Planned(plan, t, was, next), Len(plan) >= 1
  PROVE  /\ \A u : Left(plan, 2, u) => Left(plan, 1, u)
         /\ \A u : Left(plan, 1, u) =>
              Left(plan, 2, u) \/ (plan[1].op # "members" /\ plan[1].u = u)
         /\ plan[1].op # "members" => Left(plan, 1, plan[1].u) /\ ~Left(plan, 2, plan[1].u)
         /\ plan[1].op = "remove" => \A u : Left(plan, 1, u) => next[u] = "none"
  <1>1. PICK n \in Nat : n = Len(plan)
    <2>1. IsSequence(plan)
      BY DEF Planned
    <2> QED BY <2>1, TailIsSequence
  <1>2. /\ n >= 1 /\ 1 \in 1..n /\ \A i \in 2..n : i \in 1..n /\ 1 < i
    BY <1>1
  <1>3. \A i \in 1..n : i = 1 \/ i \in 2..n
    BY <1>1
  <1>4. /\ \A i \in 1..n : OpPlanned(plan[i], t, was, next)
        /\ \A i \in 2..n : Before(plan[1], plan[i])
    BY <1>1, <1>2 DEF Planned
  <1>5. ASSUME NEW u, Left(plan, 2, u) PROVE Left(plan, 1, u)
    BY <1>1, <1>2, <1>5, Zenon DEF Left
  <1>6. ASSUME NEW u, Left(plan, 1, u)
        PROVE  Left(plan, 2, u) \/ (plan[1].op # "members" /\ plan[1].u = u)
    BY <1>1, <1>3, <1>6, Zenon DEF Left
  <1>7. ASSUME plan[1].op # "members"
        PROVE  Left(plan, 1, plan[1].u) /\ ~Left(plan, 2, plan[1].u)
    <2>1. Left(plan, 1, plan[1].u)
      BY <1>1, <1>2, <1>7, Zenon DEF Left
    <2>2. ~Left(plan, 2, plan[1].u)
      BY <1>1, <1>4, Zenon DEF Left, Before
    <2> QED BY <2>1, <2>2
  <1>8. ASSUME plan[1].op = "remove", NEW u, Left(plan, 1, u)
        PROVE  next[u] = "none"
    <2>1. PICK i \in 1..n : plan[i].op # "members" /\ plan[i].u = u
      BY <1>1, <1>8 DEF Left
    <2>2. plan[i].op = "remove"
      <3>1. CASE i = 1
        BY <1>8, <3>1
      <3>2. CASE i \in 2..n
        BY <1>4, <1>8, <2>1, <3>2 DEF Before
      <3> QED BY <1>3, <3>1, <3>2
    <2> QED BY <1>4, <2>1, <2>2 DEF OpPlanned
  <1> QED BY <1>5, <1>6, <1>7, <1>8

\* The rest of a plan is a plan.
LEMMA RestPlanned ==
  ASSUME NEW plan, NEW t, NEW was, NEW next, Planned(plan, t, was, next), Len(plan) >= 1, NEW rest, rest = Tail(plan)
  PROVE  Planned(rest, t, was, next) /\ \A u : Left(rest, 1, u) <=> Left(plan, 2, u)
  <1>1. IsSequence(plan)
    BY DEF Planned
  <1>2. /\ Len(plan) \in Nat /\ IsSequence(rest) /\ Len(rest) = Len(plan) - 1
        /\ \A i \in 1..Len(rest) : i + 1 \in 1..Len(plan) /\ rest[i] = plan[i + 1]
    BY <1>1, TailIsSequence
  <1>3. PICK n \in Nat, m \in Nat : n = Len(plan) /\ m = Len(rest) /\ n = m + 1
    <2>1. PICK n \in Nat : n = Len(plan)
      BY <1>2
    <2>2. n >= 1 /\ Len(rest) = n - 1
      BY <1>2, <2>1
    <2>3. n - 1 \in Nat /\ n = (n - 1) + 1
      BY <2>2
    <2> QED BY <2>1, <2>2, <2>3
  <1>4. \A i \in 1..m : i + 1 \in 1..n /\ i + 1 \in 2..n /\ rest[i] = plan[i + 1]
    BY <1>2, <1>3
  <1>5. \A i \in 1..m : OpPlanned(rest[i], t, was, next)
    BY <1>3, <1>4 DEF Planned
  <1>6. ASSUME NEW i \in 1..m, NEW k \in 1..m, i < k PROVE Before(rest[i], rest[k])
    <2>1. i + 1 < k + 1
      BY <1>6
    <2> QED BY <1>3, <1>4, <2>1 DEF Planned
  <1>7. Planned(rest, t, was, next)
    BY <1>2, <1>3, <1>5, <1>6, Zenon DEF Planned
  <1>8. ASSUME NEW u PROVE Left(rest, 1, u) <=> Left(plan, 2, u)
    <2>1. ASSUME Left(rest, 1, u) PROVE Left(plan, 2, u)
      BY <1>3, <1>4, <2>1, Zenon DEF Left
    <2>2. ASSUME Left(plan, 2, u) PROVE Left(rest, 1, u)
      <3>1. PICK i \in 2..n : plan[i].op # "members" /\ plan[i].u = u
        BY <1>3, <2>2, Zenon DEF Left
      <3>2. i - 1 \in 1..m /\ (i - 1) + 1 = i
        BY <1>3
      <3>3. rest[i - 1] = plan[i]
        BY <1>4, <3>2
      <3> QED BY <1>3, <3>1, <3>2, <3>3, Zenon DEF Left
    <2> QED BY <2>1, <2>2
  <1> QED BY <1>7, <1>8

-----------------------------------------------------------------------------

\* Handlers that save no members start, and roles stay.
LEMMA OtherHandlers ==
  ASSUME SavesOnPlan, roles' = roles, \A j \in jobs' : j \in jobs \/ j.kind # "members"
  PROVE  SavesOnPlan'
  <1> SUFFICES ASSUME NEW j \in jobs', j.kind = "members" PROVE \E t : OnPlan(j, t)'
    BY DEF SavesOnPlan
  <1>1. PICK t : OnPlan(j, t)
    BY DEF SavesOnPlan
  <1>2. OnPlan(j, t)'
    BY <1>1 DEF OnPlan
  <1> QED BY <1>2

LEMMA OtherSteps ==
  ASSUME SavesOnPlan,
         \/ Settings!OpenCreateUser \/ Settings!OpenCreateTeam
         \/ \E u \in users : Settings!OpenEditUser(u) \/ Settings!OpenDeleteUser(u) \/ Settings!ToggleDisabled(u)
         \/ \E t \in teams : Settings!OpenMembers(t) \/ Settings!OpenRename(t) \/ Settings!OpenDeleteTeam(t)
         \/ \E x \in UserIds \cup TeamIds, r \in Settings!Role : Settings!SetRole(x, r)
         \/ Settings!SetStatus \/ Settings!Close \/ Settings!SubmitEdit \/ Settings!ConfirmDelete
         \/ Settings!SaveTeamName
         \/ \E u \in UserIds : Settings!SubmitCreate(u)
         \/ \E t \in TeamIds : Settings!SubmitTeam(t)
  PROVE  SavesOnPlan'
  <1>1. ASSUME NEW kind, NEW plan PROVE Settings!Job(kind, plan).kind = kind
    BY DEF Settings!Job
  <1>2. ASSUME NEW kind, NEW plan, kind # "members", jobs' = jobs \cup {Settings!Job(kind, plan)}
        PROVE  \A j \in jobs' : j \in jobs \/ j.kind # "members"
    BY <1>1, <1>2
  <1>3. CASE \/ Settings!OpenCreateUser \/ Settings!OpenCreateTeam
             \/ \E u \in users : Settings!OpenEditUser(u) \/ Settings!OpenDeleteUser(u)
             \/ \E t \in teams : Settings!OpenMembers(t) \/ Settings!OpenRename(t) \/ Settings!OpenDeleteTeam(t)
             \/ \E x \in UserIds \cup TeamIds, r \in Settings!Role : Settings!SetRole(x, r)
             \/ Settings!SetStatus \/ Settings!Close
    <2>1. jobs' = jobs /\ roles' = roles
      BY <1>3 DEF Settings!OpenCreateUser, Settings!OpenCreateTeam, Settings!OpenEditUser, Settings!OpenDeleteUser,
         Settings!OpenMembers, Settings!OpenRename, Settings!OpenDeleteTeam, Settings!Open, Settings!SetRole,
         Settings!SetStatus, Settings!Close, Settings!serverVars
    <2> QED BY <2>1, OtherHandlers
  <1>4. CASE \E u \in users : Settings!ToggleDisabled(u)
    <2>1. roles' = roles /\ \E plan : jobs' = jobs \cup {Settings!Job("toggle", plan)}
      BY <1>4, Zenon DEF Settings!ToggleDisabled, Settings!Start, Settings!serverVars
    <2> QED BY <1>2, <2>1, OtherHandlers
  <1>5. CASE Settings!SubmitEdit
    <2>1. roles' = roles /\ \E plan : jobs' = jobs \cup {Settings!Job("edit", plan)}
      BY <1>5, Zenon DEF Settings!SubmitEdit, Settings!Submit, Settings!Start, Settings!serverVars
    <2> QED BY <1>2, <2>1, OtherHandlers
  <1>6. CASE Settings!ConfirmDelete
    <2>1. roles' = roles /\ \E kind, plan : kind # "members" /\ jobs' = jobs \cup {Settings!Job(kind, plan)}
      <3>1. roles' = roles
        BY <1>6 DEF Settings!ConfirmDelete, Settings!serverVars
      <3>2. \/ \E plan : jobs' = jobs \cup {Settings!Job("delete", plan)}
            \/ \E plan : jobs' = jobs \cup {Settings!Job("deleteTeam", plan)}
        BY <1>6, Zenon DEF Settings!ConfirmDelete, Settings!Start
      <3>3. "delete" # "members" /\ "deleteTeam" # "members"
        OBVIOUS
      <3> QED BY <3>1, <3>2, <3>3, Zenon
    <2> QED BY <1>2, <2>1, OtherHandlers
  <1>7. CASE Settings!SaveTeamName
    <2>1. roles' = roles /\ \E plan : jobs' = jobs \cup {Settings!Job("rename", plan)}
      BY <1>7, Zenon DEF Settings!SaveTeamName, Settings!Submit, Settings!Start, Settings!serverVars
    <2> QED BY <1>2, <2>1, OtherHandlers
  <1>8. CASE \E u \in UserIds : Settings!SubmitCreate(u)
    <2>1. roles' = roles /\ \E plan : jobs' = jobs \cup {Settings!Job("create", plan)}
      BY <1>8, Zenon DEF Settings!SubmitCreate, Settings!Submit, Settings!Start, Settings!serverVars
    <2> QED BY <1>2, <2>1, OtherHandlers
  <1>9. CASE \E t \in TeamIds : Settings!SubmitTeam(t)
    <2>1. roles' = roles /\ \E plan : jobs' = jobs \cup {Settings!Job("newTeam", plan)}
      BY <1>9, Zenon DEF Settings!SubmitTeam, Settings!Submit, Settings!Start, Settings!serverVars
    <2> QED BY <1>2, <2>1, OtherHandlers
  <1> QED BY <1>3, <1>4, <1>5, <1>6, <1>7, <1>8, <1>9

\* A save starts where the page and the server agree, or does not count.
LEMMA SaveIsOnPlan ==
  ASSUME SettingsInv, SavesOnPlan, Settings!SaveTeamMembers
  PROVE  SavesOnPlan'
  <1>1. PICK j, t : /\ jobs' = jobs \cup {j} /\ t \in TeamIds
                    /\ JobShape(j) /\ JobKnown(j) /\ j.kind = "members" /\ j.st = "sent"
                    /\ Planned(j.plan, t, j.was, j.next)
                    /\ \A u \in UserIds : j.next[u] # j.was[u] =>
                         \E i \in 1..Len(j.plan) : j.plan[i].op # "members" /\ j.plan[i].u = u
                    /\ j.alone => j.was = roles[t]
    BY MembersJob
  <1>2. roles' = roles
    BY DEF Settings!SaveTeamMembers, Settings!Submit, Settings!serverVars
  <1>3. \A u \in UserIds : j.next[u] # j.was[u] => Left(j.plan, 1, u)
    BY <1>1, Zenon DEF Left
  <1>4. j.alone => Halfway(j.plan, 1, j.was, j.next, roles[t])
    BY <1>1, <1>3 DEF Halfway
  <1>5. OnPlan(j, t)'
    BY <1>1, <1>2, <1>4 DEF OnPlan
  <1> SUFFICES ASSUME NEW i \in jobs', i.kind = "members" PROVE \E s : OnPlan(i, s)'
    BY DEF SavesOnPlan
  <1>6. CASE i \in jobs
    <2>1. PICK s : OnPlan(i, s)
      BY <1>6 DEF SavesOnPlan
    <2>2. OnPlan(i, s)'
      BY <1>2, <2>1 DEF OnPlan
    <2> QED BY <2>2
  <1> QED BY <1>1, <1>5, <1>6

\* The answer to one call is the start of the next.
LEMMA GoesOnAsPlanned ==
  ASSUME SettingsInv, SavesOnPlan, NEW j \in jobs, j.st = "ok", jobs' = Settings!GoesOn(j), roles' = roles
  PROVE  SavesOnPlan'
  <1> SUFFICES ASSUME NEW i \in jobs', i.kind = "members" PROVE \E s : OnPlan(i, s)'
    BY DEF SavesOnPlan
  <1>1. CASE i \in jobs
    <2>1. PICK s : OnPlan(i, s)
      BY <1>1 DEF SavesOnPlan
    <2>2. OnPlan(i, s)'
      BY <2>1 DEF OnPlan
    <2> QED BY <2>2
  <1>2. CASE i \notin jobs
    <2>1. /\ i.kind = j.kind /\ i.plan = Tail(j.plan) /\ Len(j.plan) > 1
          /\ i.st = "sent" /\ i.was = j.was /\ i.next = j.next /\ i.alone = j.alone
      BY <1>2, JobAdvances DEF SettingsInv
    <2>2. PICK t : OnPlan(j, t)
      BY <2>1 DEF SavesOnPlan
    <2>3. Planned(j.plan, t, j.was, j.next) /\ (j.alone => Halfway(j.plan, 2, j.was, j.next, roles[t])) /\ t \in TeamIds
      BY <2>2 DEF OnPlan
    <2>4. Len(j.plan) >= 1
      BY HeadIsKnown DEF JobShape
    <2>5. Planned(i.plan, t, j.was, j.next) /\ \A u : Left(i.plan, 1, u) <=> Left(j.plan, 2, u)
      BY <2>1, <2>3, <2>4, RestPlanned
    <2>6. i.alone => Halfway(i.plan, 1, i.was, i.next, roles[t])
      BY <2>1, <2>3, <2>5, Zenon DEF Halfway
    <2>7. OnPlan(i, t)'
      BY <2>1, <2>3, <2>5, <2>6 DEF OnPlan
    <2> QED BY <2>7
  <1> QED BY <1>1, <1>2

-----------------------------------------------------------------------------

\* What the answer to a call of a save has to be.
ReplyOnPlan(j, st, newRoles) ==
  \E t : /\ t \in TeamIds /\ Planned(j.plan, t, j.was, j.next)
         /\ j.alone /\ st = "ok" => Halfway(j.plan, 2, j.was, j.next, newRoles[t])
         /\ j.alone /\ st = "lastAdmin" => Demotes(j.was, j.next)

LEMMA RepliesOnPlan ==
  ASSUME SettingsInv, SavesOnPlan, NEW j \in jobs, NEW st \in {"ok", "error", "lastAdmin"}, NEW got, NEW newRoles,
         Settings!Answer(j, st, got, newRoles),
         j.kind = "members" => ReplyOnPlan(j, st, newRoles)
  PROVE  SavesOnPlan'
  <1>0. roles' = newRoles
    BY DEF Settings!Answer
  <1> SUFFICES ASSUME NEW d \in jobs', d.kind = "members" PROVE \E s : OnPlan(d, s)'
    BY DEF SavesOnPlan
  <1>1. PICK i \in jobs : \/ i = j /\ d = [j EXCEPT !.st = st, !.got = got]
                          \/ i # j /\ d = [i EXCEPT !.alone = FALSE] /\ newRoles # roles
                          \/ i # j /\ d = i /\ newRoles = roles
    BY Replies
  <1>2. JobShape(i)
    BY DEF SettingsInv, JobsKnown
  <1>3. CASE i = j /\ d = [i EXCEPT !.st = st, !.got = got]
    <2>1. d.kind = i.kind /\ d.plan = i.plan /\ d.was = i.was /\ d.next = i.next /\ d.alone = i.alone /\ d.st = st
      BY <1>2, <1>3 DEF JobShape
    <2>2. PICK t : /\ t \in TeamIds /\ Planned(j.plan, t, j.was, j.next)
                   /\ j.alone /\ st = "ok" => Halfway(j.plan, 2, j.was, j.next, newRoles[t])
                   /\ j.alone /\ st = "lastAdmin" => Demotes(j.was, j.next)
      BY <1>3, <2>1 DEF ReplyOnPlan
    <2>3. OnPlan(d, t)'
      BY <1>0, <1>3, <2>1, <2>2 DEF OnPlan
    <2> QED BY <2>3
  <1>4. CASE i # j /\ d = [i EXCEPT !.alone = FALSE]
    <2>1. d.kind = i.kind /\ d.plan = i.plan /\ d.was = i.was /\ d.next = i.next /\ d.alone = FALSE
      BY <1>2, <1>4 DEF JobShape
    <2>2. PICK t : OnPlan(i, t)
      BY <2>1 DEF SavesOnPlan
    <2>3. OnPlan(d, t)'
      BY <2>1, <2>2 DEF OnPlan
    <2> QED BY <2>3
  <1>5. CASE d = i /\ newRoles = roles
    <2>1. PICK t : OnPlan(d, t)
      BY <1>5 DEF SavesOnPlan
    <2>2. OnPlan(d, t)'
      BY <1>0, <1>5, <2>1 DEF OnPlan
    <2> QED BY <2>2
  <1> QED BY <1>1, <1>3, <1>4, <1>5

\* The call a save of members waits for.
LEMMA SaveCalls ==
  ASSUME SettingsInv, SavesOnPlan, NEW j \in jobs, j.kind = "members", j.st = "sent"
  PROVE  \E t, o : /\ t \in TeamIds /\ o = Head(j.plan) /\ o = j.plan[1] /\ Len(j.plan) >= 1
                   /\ Planned(j.plan, t, j.was, j.next) /\ OpPlanned(o, t, j.was, j.next)
                   /\ j.was \in [UserIds -> Settings!Role] /\ j.next \in [UserIds -> Settings!Role]
                   /\ j.alone => Halfway(j.plan, 1, j.was, j.next, roles[t])
  <1>1. PICK t : OnPlan(j, t)
    BY DEF SavesOnPlan
  <1>2. Head(j.plan) = j.plan[1] /\ 1 \in 1..Len(j.plan) /\ JobShape(j)
    BY HeadIsKnown
  <1>3. t \in TeamIds /\ Planned(j.plan, t, j.was, j.next) /\ (j.alone => Halfway(j.plan, 1, j.was, j.next, roles[t]))
    BY <1>1 DEF OnPlan
  <1>4. OpPlanned(j.plan[1], t, j.was, j.next)
    BY <1>2, <1>3 DEF Planned
  <1>5. /\ Len(j.plan) >= 1 /\ j.was \in [UserIds -> Settings!Role] /\ j.next \in [UserIds -> Settings!Role]
    BY <1>2 DEF JobShape
  <1> QED BY <1>2, <1>3, <1>4, <1>5, Zenon

\* One step of the argument: the administrator who would be the last one to go is either
\* demoted, or removed when all additions and promotions have been made.
LEMMA LastAdminGoes ==
  ASSUME NEW plan, NEW t \in TeamIds, NEW was \in [UserIds -> Settings!Role], NEW next \in [UserIds -> Settings!Role],
         Planned(plan, t, was, next), Len(plan) >= 1, Halfway(plan, 1, was, next, roles[t]),
         NEW o, o = plan[1], OpPlanned(o, t, was, next), o.op \in {"role", "remove"},
         NEW r, r = IF o.op = "remove" THEN "none" ELSE o.assign[o.t],
         Settings!LosesLast(o.u, o.t, r)
  PROVE  Demotes(was, next)
  <1>1. /\ o.u \in UserIds /\ o.t = t /\ r = next[o.u]
        /\ IF o.op = "remove" THEN next[o.u] = "none" ELSE next[o.u] \notin {"none", was[o.u]}
    BY DEF OpPlanned
  <1>2. roles[t][o.u] = "admin" /\ r # "admin" /\ \A v \in UserIds \ {o.u} : roles[t][v] # "admin"
    BY <1>1 DEF Settings!LosesLast, Settings!AnotherAdmin
  <1>3. Left(plan, 1, o.u) /\ (o.op = "remove" => \A u : Left(plan, 1, u) => next[u] = "none")
    BY LeftFacts
  <1>4. was[o.u] = "admin"
    BY <1>1, <1>2, <1>3 DEF Halfway
  <1>5. CASE o.op = "role"
    <2>1. next[o.u] = "member"
      BY <1>1, <1>2, <1>5 DEF Settings!Role
    <2> QED BY <1>1, <1>4, <2>1 DEF Demotes
  <1>6. CASE o.op = "remove"
    <2>1. ASSUME NEW u \in UserIds, next[u] = "admin" PROVE FALSE
      <3>1. ~Left(plan, 1, u)
        BY <1>3, <1>6, <2>1
      <3>2. roles[t][u] = "admin"
        BY <2>1, <3>1 DEF Halfway
      <3>3. u # o.u
        BY <1>1, <1>2, <2>1
      <3> QED BY <1>2, <3>2, <3>3
    <2> QED BY <2>1 DEF Demotes
  <1> QED BY <1>5, <1>6

\* A change that is made.
LEMMA ChangeMade ==
  ASSUME NEW plan, NEW t \in TeamIds, NEW was, NEW next,
         Planned(plan, t, was, next), Len(plan) >= 1, Halfway(plan, 1, was, next, roles[t]), roles \in Roles,
         NEW o, o = plan[1], OpPlanned(o, t, was, next), o.op # "members",
         NEW r, r = IF o.op = "remove" THEN "none" ELSE o.assign[o.t],
         NEW newRoles, newRoles = [roles EXCEPT ![o.t][o.u] = r]
  PROVE  Halfway(plan, 2, was, next, newRoles[t])
  <1>1. o.u \in UserIds /\ o.t = t /\ r = next[o.u]
    BY DEF OpPlanned
  <1>2. \A u \in UserIds : newRoles[t][u] = IF u = o.u THEN next[u] ELSE roles[t][u]
    BY <1>1 DEF Roles
  <1>3. /\ ~Left(plan, 2, o.u) /\ \A u : Left(plan, 2, u) => Left(plan, 1, u)
        /\ \A u : Left(plan, 1, u) => Left(plan, 2, u) \/ o.u = u
    BY LeftFacts
  <1> SUFFICES ASSUME NEW u \in UserIds PROVE newRoles[t][u] = IF Left(plan, 2, u) THEN was[u] ELSE next[u]
    BY DEF Halfway
  <1>4. roles[t][u] = IF Left(plan, 1, u) THEN was[u] ELSE next[u]
    BY DEF Halfway
  <1>5. newRoles[t][u] = IF u = o.u THEN next[u] ELSE roles[t][u]
    BY <1>2
  <1> QED BY <1>3, <1>4, <1>5

LEMMA ServeOnPlan ==
  ASSUME SettingsInv, SavesOnPlan, NEW j \in jobs, Settings!Serve(j)
  PROVE  SavesOnPlan'
  <1>r. roles \in Roles
    BY Serving
  <1>1. CASE j.kind # "members"
    <2>1. \E st \in {"ok", "error", "lastAdmin"} : \E got, newRoles : Settings!Answer(j, st, got, newRoles)
      BY Zenon DEF Settings!Serve, Settings!ServeList, Settings!ServeMembers, Settings!ServeUser, Settings!ServeTeam
    <2> QED BY <1>1, <2>1, RepliesOnPlan
  <1>2. CASE j.kind = "members"
    <2>0. j.st = "sent"
      BY DEF Settings!Serve
    <2>1. PICK t, o : /\ t \in TeamIds /\ o = Head(j.plan) /\ o = j.plan[1] /\ Len(j.plan) >= 1
                      /\ Planned(j.plan, t, j.was, j.next) /\ OpPlanned(o, t, j.was, j.next)
                      /\ j.was \in [UserIds -> Settings!Role] /\ j.next \in [UserIds -> Settings!Role]
                      /\ j.alone => Halfway(j.plan, 1, j.was, j.next, roles[t])
      BY <1>2, <2>0, SaveCalls
    <2>2. o.op \in {"add", "role", "remove", "members"}
      BY <2>1 DEF OpPlanned
    <2>3. \/ o.op = "members" /\ Settings!ServeMembers(j)
          \/ o.op # "members" /\ Settings!ServeTeam(j, o)
      <3>1. ~Settings!ServeUser(j, o)
        BY <2>2 DEF Settings!ServeUser
      <3>2. o.op # "list" /\ (Settings!ServeTeam(j, o) => o.op # "members")
        BY <2>2 DEF Settings!ServeTeam
      <3>3. \/ o.op = "list"
            \/ o.op = "members" /\ Settings!ServeMembers(j)
            \/ Settings!ServeUser(j, o) \/ Settings!ServeTeam(j, o)
        BY <2>1, Zenon DEF Settings!Serve
      <3> QED BY <3>1, <3>2, <3>3
    <2>4. CASE o.op = "members" /\ Settings!ServeMembers(j)
      <3>1. PICK got : Settings!Answer(j, "ok", got, roles)
        BY <2>4 DEF Settings!ServeMembers
      <3>2. \A u : Left(j.plan, 1, u) <=> Left(j.plan, 2, u)
        BY <2>1, <2>4, LeftFacts
      <3>3. j.alone => Halfway(j.plan, 2, j.was, j.next, roles[t])
        BY <2>1, <3>2, Zenon DEF Halfway
      <3>4. ReplyOnPlan(j, "ok", roles)
        BY <2>1, <3>3 DEF ReplyOnPlan
      <3> QED BY <3>1, <3>4, RepliesOnPlan
    <2>5. CASE o.op # "members" /\ Settings!ServeTeam(j, o)
      <3>1. PICK r, newRoles : /\ r = IF o.op = "remove" THEN "none" ELSE o.assign[o.t]
                               /\ newRoles = [roles EXCEPT ![o.t][o.u] = r]
        OBVIOUS
      <3>2. \/ Settings!Answer(j, "error", Settings!NoAnswer, roles)
            \/ /\ o.op # "add" /\ Settings!LosesLast(o.u, o.t, r)
               /\ Settings!Answer(j, "lastAdmin", Settings!NoAnswer, roles)
            \/ Settings!Answer(j, "ok", Settings!NoAnswer, newRoles)
        <4>1. o.op \notin {"newTeam", "deleteTeam", "rename"}
          BY <2>2
        <4> QED BY <2>5, <3>1, <4>1, Zenon DEF Settings!ServeTeam
      <3>3. CASE Settings!Answer(j, "error", Settings!NoAnswer, roles)
        <4>1. ReplyOnPlan(j, "error", roles)
          BY <2>1 DEF ReplyOnPlan
        <4> QED BY <3>3, <4>1, RepliesOnPlan
      <3>4. CASE /\ o.op # "add" /\ Settings!LosesLast(o.u, o.t, r)
                 /\ Settings!Answer(j, "lastAdmin", Settings!NoAnswer, roles)
        <4>1. o.op \in {"role", "remove"}
          BY <2>2, <2>5, <3>4
        <4>2. j.alone => Demotes(j.was, j.next)
          BY <2>1, <3>1, <3>4, <4>1, LastAdminGoes
        <4>3. ReplyOnPlan(j, "lastAdmin", roles)
          BY <2>1, <4>2 DEF ReplyOnPlan
        <4> QED BY <3>4, <4>3, RepliesOnPlan
      <3>5. CASE Settings!Answer(j, "ok", Settings!NoAnswer, newRoles)
        <4>1. j.alone => Halfway(j.plan, 2, j.was, j.next, newRoles[t])
          BY <1>r, <2>1, <2>5, <3>1, ChangeMade
        <4>2. ReplyOnPlan(j, "ok", newRoles)
          BY <2>1, <4>1 DEF ReplyOnPlan
        <4> QED BY <3>5, <4>2, RepliesOnPlan
      <3> QED BY <3>2, <3>3, <3>4, <3>5
    <2> QED BY <2>3, <2>4, <2>5
  <1> QED BY <1>1, <1>2

LEMMA FaultOnPlan ==
  ASSUME SettingsInv, SavesOnPlan, NEW j \in jobs, Settings!Fault(j)
  PROVE  SavesOnPlan'
  <1>1. CASE j.kind # "members"
    <2>1. \E st \in {"ok", "error", "lastAdmin"} : \E got, newRoles : Settings!Answer(j, st, got, newRoles)
      BY Zenon DEF Settings!Fault
    <2> QED BY <1>1, <2>1, RepliesOnPlan
  <1>2. CASE j.kind = "members"
    <2>1. Settings!Answer(j, "error", Settings!NoAnswer, roles)
      BY <1>2 DEF Settings!Fault
    <2>2. PICK t : OnPlan(j, t)
      BY <1>2 DEF SavesOnPlan
    <2>3. ReplyOnPlan(j, "error", roles)
      BY <2>2 DEF OnPlan, ReplyOnPlan
    <2> QED BY <2>1, <2>3, RepliesOnPlan
  <1> QED BY <1>1, <1>2

LEMMA SavesStep ==
  ASSUME SettingsInv, SavesOnPlan, [Settings!Next]_(Settings!vars)
  PROVE  SavesOnPlan'
  <1>1. CASE UNCHANGED Settings!vars
    BY <1>1, OtherHandlers DEF Settings!vars
  <1>2. CASE \E j \in jobs : Settings!Answered(j) \/ Settings!Failed(j)
    <2>1. PICK j \in jobs : Settings!Answered(j) \/ Settings!Failed(j)
      BY <1>2
    <2>2. CASE Settings!Answered(j)
      <3>1. j.st = "ok" /\ jobs' = Settings!GoesOn(j) /\ roles' = roles
        BY <2>2 DEF Settings!Answered, Settings!serverVars
      <3> QED BY <3>1, GoesOnAsPlanned
    <2>3. CASE Settings!Failed(j)
      <3>1. jobs' = jobs \ {j} /\ roles' = roles
        BY <2>3 DEF Settings!Failed, Settings!serverVars
      <3> QED BY <3>1, OtherHandlers
    <2> QED BY <2>1, <2>2, <2>3
  <1>3. CASE Settings!Next
    BY <1>2, <1>3, OtherSteps, SaveIsOnPlan, ServeOnPlan, FaultOnPlan DEF Settings!Next
  <1> QED BY <1>1, <1>3

-----------------------------------------------------------------------------

SettingsShown == page = "settings" => SettingsInv /\ SavesOnPlan

LEMMA SettingsAlways == PagesSpec => []SettingsShown
  <1>1. PagesInit => SettingsShown
    <2>1. ASSUME Settings!Init PROVE SavesOnPlan
      BY <2>1 DEF Settings!Init, Settings!Job, SavesOnPlan
    <2> QED BY <2>1, SettingsInit DEF PagesInit, SettingsShown
  <1>2. SettingsShown /\ [PagesNext]_<<pageVars, viewVars, page>> => SettingsShown'
    <2> SUFFICES ASSUME SettingsInv, SavesOnPlan, page = "settings", [PagesNext]_<<pageVars, viewVars, page>>
                 PROVE  SettingsInv' /\ SavesOnPlan'
      BY OnePageMoves DEF SettingsShown
    <2>1. [Settings!Next]_(Settings!vars)
      BY OnePageMoves DEF settingsVars, Settings!vars
    <2> QED BY <2>1, SettingsStep, SavesStep
  <1> QED BY <1>1, <1>2, PTL DEF PagesSpec

\* A user or a team whose deletion the settings page has shown stays off its list, for
\* any users and teams and however many handlers are under way: no answer to an edit, a
\* toggle, a creation, a renaming or a save of members brings it back once the lists have
\* been loaded (SettingsUsersPage.tsx 109-155, SettingsTeamsPage.tsx 95-135).
THEOREM DeletedIsGone == PagesSpec => []DeletedStaysGone
  <1>1. SettingsShown => DeletedStaysGone
    BY DEF SettingsShown, SettingsInv, DeletedStaysGone
  <1> QED BY <1>1, SettingsAlways, PTL

\* A save of the members of a team that leaves an administrator and demotes nobody is
\* never refused for the last administrator's sake while nobody else changes roles,
\* whatever the number of users and changes: additions and promotions are sent before
\* removals (SettingsTeamsPage.tsx 137-165).
THEOREM SavesAreNotRefused == PagesSpec => []PlannedSaveNotRefused
  <1>1. SettingsShown => PlannedSaveNotRefused
    BY DEF SettingsShown, SavesOnPlan, OnPlan, Demotes, PlannedSaveNotRefused, Settings!PlannedSaveNotRefused
  <1> QED BY <1>1, SettingsAlways, PTL

-----------------------------------------------------------------------------
(* The data view. A draft is about the rows it was made on, and the calls  *)
(* that are left lead to what the screen showed.                           *)

LoadState == {"none", "sent", "ok", "error"}

ReloadShape(r) == r \in [st : LoadState, query : {r.query}, data : {r.data}]

LoadsTyped ==
  /\ loads = [s \in Data!Slots |-> loads[s]]
  /\ \A s \in Data!Slots : ReloadShape(loads[s])

DraftShape(d) == d \in [edited : {d.edited}, new : {d.new}, deleted : {d.deleted}]

\* While the only reload is under way there are no rows, and a draft can hold new rows
\* alone.
QuietReload ==
  ~overlap /\ Data!Loading # {} =>
    /\ rows = <<>> /\ Data!PlacesUsed(draft) = {} /\ IsSequence(draft.new)
    /\ \A s, t \in Data!Loading : s = t

DataInv == LoadsTyped /\ DraftShape(draft) /\ QuietReload /\ Data!DraftFitsRows

\* A row of calls that is still to be made, from a place on, leads from a table to
\* another: the last call about a key decides, and other keys stay as they are.
Effect(c) == IF c.op = "delete" THEN Absent ELSE c.v

Reaches(row, from, table_1, goal) ==
  \A k \in PKs :
    /\ \A i \in from..Len(row) :
         row[i].k = k /\ (\A j \in (i + 1)..Len(row) : row[j].k # k) => goal[k] = Effect(row[i])
    /\ (\A i \in from..Len(row) : row[i].k # k) => goal[k] = table_1[k]

ApplyShape(a) ==
  /\ a \in [st : LoadState, calls : {a.calls}, crossed : BOOLEAN, rekeyed : {a.rekeyed}, shown : {a.shown},
           kept : {a.kept}]
  /\ a.st # "none" => /\ IsSequence(a.calls) /\ Len(a.calls) >= 1
                      /\ a.kept = [k \in PKs |-> a.kept[k]]
                      /\ ~a.rekeyed => a.shown = a.kept

OnCourse(a) ==
  ~a.crossed => /\ a.st = "sent" => Reaches(a.calls, 1, stored, a.kept)
                /\ a.st = "ok" => Reaches(a.calls, 2, stored, a.kept)

SoundDraft(d) ==
  /\ DraftShape(d)
  /\ IsSequence(d.new) /\ IsSequence(d.deleted)
  /\ IsFiniteSet(DOMAIN d.edited) /\ DOMAIN d.edited \subseteq Nat \ {0}
  /\ \A n \in 1..Len(d.deleted) : d.deleted[n] \notin DOMAIN d.edited

DraftSound == SoundDraft(draft)

PagesLoaded ==
  /\ LoadsTyped /\ IsSequence(rows)
  /\ \A s \in Data!Slots : IsSequence(loads[s].data)
  /\ \A s \in Data!Slots : loads[s].st # "none" => loads[s].query \in Data!Queries
  /\ query \in Data!Queries

AppliesSound ==
  /\ applies = [s \in Data!Slots |-> applies[s]]
  /\ stored = [k \in PKs |-> stored[k]]
  /\ \A s \in Data!Slots : ApplyShape(applies[s]) /\ OnCourse(applies[s])
  /\ \A s, n \in Data!Slots :
       s # n /\ applies[s].st # "none" /\ ~applies[s].crossed => applies[n].st = "none"

ApplyInv == PagesLoaded /\ DraftSound /\ AppliesSound

-----------------------------------------------------------------------------

LEMMA NothingDrafted ==
  LET d == Data!EmptyDraft IN DraftShape(d) /\ Data!PlacesUsed(d) = {} /\ IsSequence(d.new)
  <1>1. <<>> \in Seq({}) /\ DOMAIN <<>> = {}
    OBVIOUS
  <1>2. PICK d : d = Data!EmptyDraft
    OBVIOUS
  <1>3. DraftShape(d) /\ d.edited = <<>> /\ d.new = <<>> /\ d.deleted = <<>>
    BY <1>2 DEF Data!EmptyDraft, DraftShape
  <1>4. Data!PlacesUsed(d) = {} /\ IsSequence(d.new)
    BY <1>1, <1>3 DEF Data!PlacesUsed, IsSequence
  <1> QED BY <1>2, <1>3, <1>4

LEMMA DataInit == ASSUME Data!Init PROVE DataInv
  <1>1. loads = [s \in Data!Slots |-> Data!NoLoad] /\ draft = Data!EmptyDraft
    BY DEF Data!Init
  <1>2. ReloadShape(Data!NoLoad) /\ Data!NoLoad.st = "none"
    BY DEF ReloadShape, Data!NoLoad, LoadState
  <1>3. LoadsTyped /\ Data!Loading = {}
    BY <1>1, <1>2 DEF LoadsTyped, Data!Loading
  <1> QED BY <1>1, <1>3, NothingDrafted DEF DataInv, QuietReload, Data!DraftFitsRows

\* A reload begins with an empty page and an empty draft.
LEMMA ReloadStarts ==
  ASSUME DataInv, NEW q, Data!StartReload(q)
  PROVE  DataInv'
  <1>1. PICK s \in Data!Slots :
          /\ loads' = [loads EXCEPT ![s] = [st |-> "sent", query |-> q, data |-> <<>>]]
          /\ rows' = <<>> /\ draft' = Data!EmptyDraft /\ overlap' = (Data!Loading # {})
    BY DEF Data!StartReload
  <1>2. PICK r : r = [st |-> "sent", query |-> q, data |-> <<>>]
    OBVIOUS
  <1>3. ReloadShape(r)
    BY <1>2 DEF ReloadShape, LoadState
  <1>4. /\ loads' = [loads EXCEPT ![s] = r]
        /\ \A t \in Data!Slots : loads'[t] = IF t = s THEN r ELSE loads[t]
    BY <1>1, <1>2 DEF DataInv, LoadsTyped
  <1>5. LoadsTyped'
    BY <1>3, <1>4 DEF DataInv, LoadsTyped, Data!Slots
  <1>6. \A t \in Data!Slots : t # s /\ t \in Data!Loading' => t \in Data!Loading
    BY <1>4 DEF Data!Loading
  <1>7. Data!Loading' \subseteq Data!Slots
    BY DEF Data!Loading, Data!Slots
  <1>8. ~overlap' => \A t, u \in Data!Loading' : t = u
    BY <1>1, <1>6, <1>7
  <1>9. /\ DraftShape(draft') /\ Data!PlacesUsed(draft') = {} /\ IsSequence(draft'.new)
    BY <1>1, NothingDrafted
  <1>10. /\ DraftShape(draft)' /\ Data!PlacesUsed(draft)' = {}
    BY <1>9 DEF DraftShape, Data!PlacesUsed
  <1> QED BY <1>1, <1>5, <1>8, <1>9, <1>10 DEF DataInv, QuietReload, Data!DraftFitsRows

\* The draft changes, and while a reload is under way it gets no places.
LEMMA DraftChanges ==
  ASSUME DataInv, NEW d, Data!Draft(d), DraftShape(d), UNCHANGED <<rows, loads, overlap>>,
         rows = <<>> /\ Data!PlacesUsed(draft) = {} /\ IsSequence(draft.new) =>
           Data!PlacesUsed(d) = {} /\ IsSequence(d.new)
  PROVE  DataInv'
  <1>1. /\ draft' = d
        /\ drawn' = IF Data!PlacesUsed(d) = {} THEN <<>> ELSE IF Data!PlacesUsed(draft) = {} THEN rows ELSE drawn
    BY DEF Data!Draft
  <1>2. LoadsTyped' /\ Data!Loading' = Data!Loading
    BY DEF DataInv, LoadsTyped, Data!Loading, Data!Slots
  <1>3. DraftShape(draft)' /\ Data!PlacesUsed(draft)' = Data!PlacesUsed(d)
    BY <1>1 DEF DraftShape, Data!PlacesUsed
  <1>4. QuietReload'
    BY <1>1, <1>2, <1>3 DEF DataInv, QuietReload
  <1>5. Data!DraftFitsRows'
    BY <1>1, <1>3 DEF DataInv, Data!DraftFitsRows
  <1> QED BY <1>2, <1>3, <1>4, <1>5 DEF DataInv

\* A call of a reload ends, or is answered.
LEMMA LoadsChange ==
  ASSUME DataInv, UNCHANGED <<draft, drawn, overlap>>, LoadsTyped', Data!Loading' \subseteq Data!Loading,
         rows' = rows \/ Data!Loading' = {} \/ overlap, 
         rows' = rows \/ overlap \/ Data!PlacesUsed(draft) = {}
  PROVE  DataInv'
  <1>1. DraftShape(draft)' /\ Data!PlacesUsed(draft)' = Data!PlacesUsed(draft)
    BY DEF DataInv, DraftShape, Data!PlacesUsed
  <1>2. QuietReload'
    BY <1>1 DEF DataInv, QuietReload
  <1>3. Data!DraftFitsRows'
    BY <1>1 DEF DataInv, Data!DraftFitsRows
  <1> QED BY <1>1, <1>2, <1>3 DEF DataInv

\* The load in slot s becomes r.
LEMMA OneLoad ==
  ASSUME DataInv, NEW s \in Data!Slots, NEW r, loads' = [loads EXCEPT ![s] = r], ReloadShape(r)
  PROVE  /\ LoadsTyped' /\ (r.st # "none" /\ loads[s].st # "none" => Data!Loading' = Data!Loading)
         /\ r.st = "none" => Data!Loading' = Data!Loading \ {s}
  <1>1. \A t \in Data!Slots : loads'[t] = IF t = s THEN r ELSE loads[t]
    BY DEF DataInv, LoadsTyped
  <1>2. LoadsTyped'
    BY <1>1 DEF DataInv, LoadsTyped, Data!Slots
  <1> QED BY <1>1, <1>2 DEF Data!Loading, Data!Slots

LEMMA LoadEnds ==
  ASSUME DataInv, NEW s \in Data!Slots, Data!Loaded(s) \/ Data!LoadFails(s)
  PROVE  DataInv'
  <1>1. /\ loads' = [loads EXCEPT ![s] = Data!NoLoad] /\ loads[s].st \in {"ok", "error"}
        /\ UNCHANGED <<draft, drawn, overlap>>
    BY DEF Data!Loaded, Data!LoadFails
  <1>2. ReloadShape(Data!NoLoad) /\ Data!NoLoad.st = "none"
    BY DEF ReloadShape, Data!NoLoad, LoadState
  <1>3. LoadsTyped' /\ Data!Loading' = Data!Loading \ {s}
    BY <1>1, <1>2, OneLoad
  <1>4. s \in Data!Loading
    BY <1>1 DEF Data!Loading
  <1>5. ~overlap => Data!PlacesUsed(draft) = {} /\ Data!Loading = {s}
    BY <1>4 DEF DataInv, QuietReload
  <1> QED BY <1>1, <1>3, <1>5, LoadsChange

LEMMA CallsStep ==
  ASSUME DataInv, UNCHANGED <<rows, draft, drawn, overlap, loads>>
  PROVE  DataInv'
  <1>1. LoadsTyped' /\ Data!Loading' = Data!Loading
    BY DEF DataInv, LoadsTyped, Data!Loading, Data!Slots
  <1> QED BY <1>1, LoadsChange

LEMMA ServerSteps ==
  ASSUME DataInv, Data!ServerStep
  PROVE  DataInv'
  <1>1. UNCHANGED <<rows, draft, drawn, overlap>>
    BY DEF Data!ServerStep
  <1>2. PICK s \in Data!Slots : Data!Serve(s) \/ Data!Fault(s)
    BY DEF Data!ServerStep
  <1>3. PICK a, b : /\ a = [loads[s] EXCEPT !.st = "ok", !.data = Data!Select(loads[s].query)]
                    /\ b = [loads[s] EXCEPT !.st = "error"]
    OBVIOUS
  <1>4. \/ loads' = loads
        \/ loads[s].st = "sent" /\ \E r \in {a, b} : loads' = [loads EXCEPT ![s] = r]
    <2>1. CASE Data!Serve(s)
      BY <1>3, <2>1 DEF Data!Serve
    <2>2. CASE Data!Fault(s)
      BY <1>3, <2>2 DEF Data!Fault
    <2> QED BY <1>2, <2>1, <2>2
  <1>5. ASSUME loads[s].st = "sent", NEW r \in {a, b} PROVE ReloadShape(r) /\ r.st # "none"
    <2>1. ReloadShape(loads[s])
      BY DEF DataInv, LoadsTyped
    <2> QED BY <1>3, <1>5, <2>1 DEF ReloadShape, LoadState
  <1>6. CASE loads' = loads
    BY <1>1, <1>6, CallsStep
  <1>7. ASSUME loads[s].st = "sent", NEW r \in {a, b}, loads' = [loads EXCEPT ![s] = r] PROVE DataInv'
    <2>1. ReloadShape(r) /\ r.st # "none" /\ loads[s].st # "none"
      BY <1>5, <1>7
    <2>2. LoadsTyped' /\ Data!Loading' = Data!Loading
      BY <1>7, <2>1, OneLoad
    <2> QED BY <1>1, <2>2, LoadsChange
  <1> QED BY <1>4, <1>6, <1>7

-----------------------------------------------------------------------------

\* On an empty page only new rows are shown.
LEMMA EmptyPage ==
  ASSUME rows = <<>>, IsSequence(draft.new)
  PROVE  LET shown_1 == Data!DisplayRows IN
         /\ Len(shown_1) = Len(draft.new) /\ Len(draft.new) \in Nat
         /\ \A n \in 1..Len(shown_1) : shown_1[n].src = 0
  <1> DEFINE S == {i \in 1..Len(rows) : \A m \in DOMAIN draft.deleted : draft.deleted[m] # i}
             kept == Data!InOrder(S)
             Old(i) == IF i \in DOMAIN draft.edited THEN draft.edited[i] ELSE rows[i]
             a == [n \in 1..Len(kept) |-> [src |-> kept[n], rec |-> Old(kept[n])]]
             b == [n \in 1..Len(draft.new) |-> [src |-> 0, rec |-> draft.new[n]]]
  <1>1. Data!DisplayRows = a \o b
    BY DEF Data!DisplayRows
  <1>2. S = {}
    <2>1. Len(rows) = 0
      OBVIOUS
    <2> HIDE DEF S
    <2>2. ASSUME NEW i \in S PROVE FALSE
      BY <2>1, <2>2 DEF S
    <2> QED BY <2>2
  <1> HIDE DEF S
  <1>3. kept = <<>>
    <2>1. Data!InOrder(S) = InOrder({})
      BY <1>2, DataInOrder
    <2>2. Cardinality({}) = 0
      BY FS_EmptySet
    <2>3. InOrder({}) = <<>>
      BY <2>2 DEF InOrder
    <2> QED BY <2>1, <2>3
  <1> HIDE DEF kept, Old
  <1>4. a = <<>>
    BY <1>3
  <1> HIDE DEF a
  <1>5. Len(draft.new) \in Nat
    BY DEF IsSequence
  <1>6. /\ b \in Seq({[src |-> 0, rec |-> draft.new[n]] : n \in 1..Len(draft.new)}) /\ Len(b) = Len(draft.new)
        /\ \A n \in 1..Len(b) : b[n].src = 0
    BY <1>5
  <1> HIDE DEF b
  <1>7. a \o b = b
    BY <1>4, <1>6
  <1> QED BY <1>1, <1>5, <1>6, <1>7

\* Taking a row out of the new ones.
LEMMA RowTakenOut ==
  ASSUME NEW s, IsSequence(s), NEW n \in 1..Len(s)
  PROVE  IsSequence(Data!Without(s, n))
  <1>1. PICK S : s \in Seq(S)
    BY DEF IsSequence
  <1>2. SubSeq(s, 1, n - 1) \in Seq(S) /\ SubSeq(s, n + 1, Len(s)) \in Seq(S)
    BY <1>1
  <1>3. Data!Without(s, n) \in Seq(S)
    BY <1>2 DEF Data!Without
  <1> QED BY <1>3 DEF IsSequence

\* Changes that are none are dropped.
LEMMA Compacted ==
  ASSUME NEW d, DraftShape(d)
  PROVE  LET c == Data!CompactDraft(d) IN
         /\ DraftShape(c) /\ c.new = d.new /\ c.deleted = d.deleted /\ DOMAIN c.edited \subseteq DOMAIN d.edited
         /\ Data!PlacesUsed(c) \subseteq Data!PlacesUsed(d)
  <1>1. PICK e : e = [i \in {j \in DOMAIN d.edited : j <= Len(rows) /\ d.edited[j] # rows[j]} |-> d.edited[i]]
    OBVIOUS
  <1>2. PICK c : c = [d EXCEPT !.edited = e]
    OBVIOUS
  <1>3. c = Data!CompactDraft(d)
    BY <1>1, <1>2, Zenon DEF Data!CompactDraft
  <1>4. DraftShape(c) /\ c.new = d.new /\ c.edited = e /\ c.deleted = d.deleted
    BY <1>2 DEF DraftShape
  <1>5. DOMAIN e \subseteq DOMAIN d.edited
    BY <1>1
  <1> QED BY <1>3, <1>4, <1>5 DEF Data!PlacesUsed

\* A new row is changed, or one is added.
LEMMA EntryReplaced ==
  ASSUME NEW s, IsSequence(s), NEW i, NEW v
  PROVE  IsSequence([s EXCEPT ![i] = v]) /\ IsSequence(Append(s, v))
  <1>1. PICK S : s \in Seq(S)
    BY DEF IsSequence
  <1>2. PICK m \in Nat : m = Len(s)
    BY <1>1
  <1>3. s \in [1..m -> S]
    BY <1>1, <1>2
  <1>4. PICK t : t = [s EXCEPT ![i] = v]
    OBVIOUS
  <1>8. t \in [1..m -> S \cup {v}]
    BY <1>3, <1>4
  <1>5. t \in Seq(S \cup {v})
    BY <1>8
  <1>6. s \in Seq(S \cup {v})
    BY <1>1
  <1>7. Append(s, v) \in Seq(S \cup {v})
    BY <1>6
  <1> QED BY <1>4, <1>5, <1>7 DEF IsSequence

LEMMA UpdateCellStep ==
  ASSUME DataInv, NEW n, NEW col, NEW value, Data!UpdateCell(n, col, value)
  PROVE  DataInv'
  <1>1. PICK item, at, edited : 
          /\ item = Data!DisplayRows[n] /\ at = n - (Len(Data!DisplayRows) - Len(draft.new))
          /\ edited = [i \in DOMAIN draft.edited \cup {item.src} |->
                         IF i = item.src THEN [item.rec EXCEPT ![col] = value] ELSE draft.edited[i]]
    OBVIOUS
  <1>2. PICK v, new, d, e :
          /\ v = [draft.new[at] EXCEPT ![col] = value] /\ new = [draft.new EXCEPT ![at] = v]
          /\ d = [draft EXCEPT !.new = new] /\ e = [draft EXCEPT !.edited = edited]
    OBVIOUS
  <1>3. DraftShape(draft)
    BY DEF DataInv
  <1>4. /\ DraftShape(d) /\ d.new = new /\ d.edited = draft.edited /\ d.deleted = draft.deleted
        /\ DraftShape(e)
    BY <1>2, <1>3 DEF DraftShape
  <1>5. /\ UNCHANGED <<rows, loads, overlap>> /\ n \in 1..Len(Data!DisplayRows)
        /\ \/ item.src = 0 /\ Data!Draft(Data!CompactDraft(d))
           \/ item.src # 0 /\ Data!Draft(Data!CompactDraft(e))
    BY <1>1, <1>2 DEF Data!UpdateCell
  <1>6. IsSequence(draft.new) => IsSequence(new)
    BY <1>2, EntryReplaced
  <1>7. CASE item.src = 0 /\ Data!Draft(Data!CompactDraft(d))
    <2>1. PICK c : c = Data!CompactDraft(d)
      OBVIOUS
    <2>2. DraftShape(c) /\ c.new = new /\ Data!PlacesUsed(c) \subseteq Data!PlacesUsed(draft)
      <3>1. Data!PlacesUsed(d) = Data!PlacesUsed(draft)
        BY <1>4 DEF Data!PlacesUsed
      <3> QED BY <1>4, <2>1, <3>1, Compacted
    <2> QED BY <1>5, <1>6, <1>7, <2>1, <2>2, DraftChanges
  <1>8. CASE item.src # 0 /\ Data!Draft(Data!CompactDraft(e))
    <2>1. PICK c : c = Data!CompactDraft(e)
      OBVIOUS
    <2>2. DraftShape(c)
      BY <1>4, <2>1, Compacted
    <2>3. ~(rows = <<>> /\ IsSequence(draft.new))
      BY <1>1, <1>5, <1>8, EmptyPage
    <2> QED BY <1>5, <1>8, <2>1, <2>2, <2>3, DraftChanges
  <1> QED BY <1>5, <1>7, <1>8

LEMMA RowSteps ==
  ASSUME DataInv, Data!AddRow \/ Data!DeleteSelectedRow \/ Data!Discard
  PROVE  DataInv'
  <1>0. UNCHANGED <<rows, loads, overlap>> /\ DraftShape(draft)
    BY DEF DataInv, Data!AddRow, Data!DeleteSelectedRow, Data!Discard
  <1>1. CASE Data!AddRow
    <2>1. PICK row, new, d : /\ row = [k |-> Null, v |-> Null] /\ new = Append(draft.new, row)
                             /\ d = [draft EXCEPT !.new = new]
      OBVIOUS
    <2>2. DraftShape(d) /\ d.new = new /\ d.edited = draft.edited /\ d.deleted = draft.deleted
      BY <1>0, <2>1 DEF DraftShape
    <2>3. IsSequence(draft.new) => IsSequence(new)
      BY <2>1, EntryReplaced
    <2>4. Data!PlacesUsed(d) = Data!PlacesUsed(draft)
      BY <2>2 DEF Data!PlacesUsed
    <2>5. Data!Draft(d)
      BY <1>1, <2>1, Zenon DEF Data!AddRow
    <2> QED BY <1>0, <2>2, <2>3, <2>4, <2>5, DraftChanges
  <1>2. CASE Data!DeleteSelectedRow
    <2>1. PICK item, at : item = Data!DisplayRows[selected] /\ at = selected - (Len(Data!DisplayRows) - Len(draft.new))
      OBVIOUS
    <2>2. PICK new, deleted, edited :
            /\ new = Data!Without(draft.new, at) /\ deleted = Append(draft.deleted, item.src)
            /\ edited = [i \in DOMAIN draft.edited \ {item.src} |-> draft.edited[i]]
      OBVIOUS
    <2>3. PICK d, e : d = [draft EXCEPT !.new = new] /\ e = [draft EXCEPT !.deleted = deleted, !.edited = edited]
      OBVIOUS
    <2>4. /\ DraftShape(d) /\ d.new = new /\ d.edited = draft.edited /\ d.deleted = draft.deleted
          /\ DraftShape(e)
      BY <1>0, <2>3 DEF DraftShape
    <2>5. /\ selected \in 1..Len(Data!DisplayRows)
          /\ \/ item.src = 0 /\ Data!Draft(d)
             \/ item.src # 0 /\ Data!Draft(e)
      BY <1>2, <2>1, <2>2, <2>3 DEF Data!DeleteSelectedRow
    <2>6. CASE item.src = 0 /\ Data!Draft(d)
      <3>1. rows = <<>> /\ IsSequence(draft.new) => IsSequence(new)
        <4> SUFFICES ASSUME rows = <<>>, IsSequence(draft.new) PROVE IsSequence(new)
          OBVIOUS
        <4>1. at \in 1..Len(draft.new)
          BY <2>1, <2>5, EmptyPage
        <4> QED BY <2>2, <4>1, RowTakenOut
      <3>2. Data!PlacesUsed(d) = Data!PlacesUsed(draft)
        BY <2>4 DEF Data!PlacesUsed
      <3> QED BY <1>0, <2>4, <2>6, <3>1, <3>2, DraftChanges
    <2>7. CASE item.src # 0 /\ Data!Draft(e)
      <3>1. ~(rows = <<>> /\ IsSequence(draft.new))
        BY <2>1, <2>5, <2>7, EmptyPage
      <3> QED BY <1>0, <2>4, <2>7, <3>1, DraftChanges
    <2> QED BY <2>5, <2>6, <2>7
  <1>3. CASE Data!Discard
    <2>1. Data!Draft(Data!EmptyDraft)
      BY <1>3 DEF Data!Discard
    <2> QED BY <1>0, <2>1, NothingDrafted, DraftChanges
  <1> QED BY <1>1, <1>2, <1>3

LEMMA DataStep ==
  ASSUME DataInv, Data!Next
  PROVE  DataInv'
  <1>1. CASE \E n \in 1..(PageSize + MaxEvents) :
               \/ \E k \in PKs \cup {Null} : Data!UpdateCell(n, "k", k)
               \/ \E v \in Vals \cup {Null} : Data!UpdateCell(n, "v", v)
    BY <1>1, UpdateCellStep
  <1>2. CASE \E n \in 1..(PageSize + MaxEvents) : Data!SelectRow(n)
    BY <1>2, CallsStep DEF Data!SelectRow
  <1>3. CASE Data!ApplyDraft
    <2>1. \/ \E q : Data!StartReload(q)
          \/ UNCHANGED <<rows, draft, drawn, overlap, loads>>
      BY <1>3 DEF Data!ApplyDraft
    <2> QED BY <2>1, ReloadStarts, CallsStep
  <1>4. CASE (\E q \in Data!Queries : Data!Turn(q)) \/ \E only \in Vals \cup {Absent} : Data!ApplyFilters(only)
    <2>1. \E q : Data!StartReload(q)
      BY <1>4, Zenon DEF Data!Turn, Data!ApplyFilters
    <2> QED BY <2>1, ReloadStarts
  <1>5. CASE \E s \in Data!Slots : \/ Data!Loaded(s) \/ Data!LoadFails(s) \/ Data!ApplyGoesOn(s)
                                   \/ Data!Applied(s) \/ Data!ApplyFails(s)
    <2>1. ASSUME NEW s \in Data!Slots, Data!ApplyGoesOn(s) \/ Data!ApplyFails(s)
          PROVE  DataInv'
      BY <2>1, CallsStep DEF Data!ApplyGoesOn, Data!ApplyFails
    <2>2. ASSUME NEW s \in Data!Slots, Data!Applied(s)
          PROVE  DataInv'
      BY <2>2, ReloadStarts DEF Data!Applied
    <2> QED BY <1>5, <2>1, <2>2, LoadEnds
  <1> QED BY <1>1, <1>2, <1>3, <1>4, <1>5, RowSteps, ServerSteps, Zenon DEF Data!Next

DataShown == page = "data" => DataInv

LEMMA DataAlways == PagesSpec => []DataShown
  <1>1. PagesInit => DataShown
    BY DataInit DEF PagesInit, DataShown
  <1>2. DataShown /\ [PagesNext]_<<pageVars, viewVars, page>> => DataShown'
    <2> SUFFICES ASSUME DataInv, page = "data", [PagesNext]_<<pageVars, viewVars, page>>
                 PROVE  DataInv'
      BY OnePageMoves DEF DataShown
    <2>1. CASE UNCHANGED dataVars
      BY <2>1, CallsStep DEF dataVars
    <2> QED BY <2>1, DataStep, OnePageMoves
  <1> QED BY <1>1, <1>2, PTL DEF PagesSpec

\* The changes of a draft of table rows refer, by their places, to the rows they were made
\* on, for any table and page size and however reloads, filters and applies cross, unless a
\* reload began while another was under way (tableTabLoader.ts 34, TableView.tsx 117-180).
THEOREM DraftsFitTheirRows == PagesSpec => []DraftFitsRows
  <1>1. DataShown => DraftFitsRows
    BY DEF DataShown, DataInv, DraftFitsRows
  <1> QED BY <1>1, DataAlways, PTL

-----------------------------------------------------------------------------
(* Rows of calls.                                                           *)

\* The first call is made.
LEMMA ReachesNext ==
  ASSUME NEW row, IsSequence(row), Len(row) >= 1, NEW c, c = row[1], c.k \in PKs, NEW old, NEW goal,
         old = [k \in PKs |-> old[k]], NEW new, new = [old EXCEPT ![c.k] = Effect(c)], Reaches(row, 1, old, goal)
  PROVE  Reaches(row, 2, new, goal)
  <1>1. PICK n \in Nat : n = Len(row)
    BY TailIsSequence
  <1>2. n >= 1
    BY <1>1
  <1>3. (\A i \in 2..n : i \in 1..n) /\ (\A i \in 1..n : i = 1 \/ i \in 2..n) /\ 1 \in 1..n /\ 1 + 1 = 2
    BY <1>2
  <1>4. \A k \in PKs : new[k] = IF k = c.k THEN Effect(c) ELSE old[k]
    <2>1. PICK e : e = Effect(c)
      OBVIOUS
    <2> QED BY <2>1
  <1> SUFFICES ASSUME NEW k \in PKs
               PROVE  /\ \A i \in 2..n :
                           row[i].k = k /\ (\A j \in (i + 1)..n : row[j].k # k) => goal[k] = Effect(row[i])
                      /\ (\A i \in 2..n : row[i].k # k) => goal[k] = new[k]
    BY <1>1 DEF Reaches
  <1>5. /\ \A i \in 1..n :
             row[i].k = k /\ (\A j \in (i + 1)..n : row[j].k # k) => goal[k] = Effect(row[i])
        /\ (\A i \in 1..n : row[i].k # k) => goal[k] = old[k]
    BY <1>1 DEF Reaches
  <1>6. ASSUME \A i \in 2..n : row[i].k # k PROVE goal[k] = new[k]
    <2>1. CASE c.k = k
      <3>1. row[1].k = k /\ \A j \in (1 + 1)..n : row[j].k # k
        BY <1>3, <1>6, <2>1
      <3>2. goal[k] = Effect(row[1])
        BY <1>3, <1>5, <3>1
      <3> QED BY <1>4, <2>1, <3>2
    <2>2. CASE c.k # k
      <3>1. \A i \in 1..n : row[i].k # k
        BY <1>3, <1>6, <2>2
      <3> QED BY <1>4, <1>5, <2>2, <3>1
    <2> QED BY <2>1, <2>2
  <1> QED BY <1>3, <1>5, <1>6

\* The answer to one call is the start of the next.
LEMMA ReachesTail ==
  ASSUME NEW row, IsSequence(row), Len(row) >= 1, NEW old, NEW goal, Reaches(row, 2, old, goal),
         NEW rest, rest = Tail(row)
  PROVE  Reaches(rest, 1, old, goal)
  <1>2. /\ Len(row) \in Nat /\ Len(rest) = Len(row) - 1
        /\ \A i \in 1..Len(rest) : i + 1 \in 1..Len(row) /\ rest[i] = row[i + 1]
    BY TailIsSequence
  <1>3. PICK n \in Nat, m \in Nat : n = Len(row) /\ m = Len(rest) /\ n = m + 1
    <2>1. PICK n \in Nat : n = Len(row)
      BY <1>2
    <2>2. n >= 1 /\ Len(rest) = n - 1
      BY <1>2, <2>1
    <2>3. n - 1 \in Nat /\ n = (n - 1) + 1
      BY <2>2
    <2> QED BY <2>1, <2>2, <2>3
  <1>4. \A i \in 1..m : i + 1 \in 2..n /\ rest[i] = row[i + 1]
    BY <1>2, <1>3
  <1>5. \A i \in 2..n : i - 1 \in 1..m /\ rest[i - 1] = row[i]
    <2> SUFFICES ASSUME NEW i \in 2..n PROVE i - 1 \in 1..m /\ rest[i - 1] = row[i]
      OBVIOUS
    <2>1. i - 1 \in 1..m /\ (i - 1) + 1 = i
      BY <1>3
    <2> QED BY <1>4, <2>1
  <1> SUFFICES ASSUME NEW k \in PKs
               PROVE  /\ \A i \in 1..m :
                           rest[i].k = k /\ (\A j \in (i + 1)..m : rest[j].k # k) => goal[k] = Effect(rest[i])
                      /\ (\A i \in 1..m : rest[i].k # k) => goal[k] = old[k]
    BY <1>3 DEF Reaches
  <1>6. /\ \A i \in 2..n :
             row[i].k = k /\ (\A j \in (i + 1)..n : row[j].k # k) => goal[k] = Effect(row[i])
        /\ (\A i \in 2..n : row[i].k # k) => goal[k] = old[k]
    BY <1>3 DEF Reaches
  <1>7. ASSUME NEW i \in 1..m, rest[i].k = k, \A j \in (i + 1)..m : rest[j].k # k
        PROVE  goal[k] = Effect(rest[i])
    <2>1. ASSUME NEW j \in ((i + 1) + 1)..n PROVE row[j].k # k
      <3>1. j \in 2..n /\ j - 1 \in (i + 1)..m
        BY <1>3
      <3> QED BY <1>5, <1>7, <3>1
    <2> QED BY <1>4, <1>6, <1>7, <2>1
  <1>8. ASSUME \A i \in 1..m : rest[i].k # k PROVE goal[k] = old[k]
    BY <1>5, <1>6, <1>8
  <1> QED BY <1>7, <1>8

LEMMA ReachesEnd ==
  ASSUME NEW row, Len(row) = 1, NEW old, NEW goal, Reaches(row, 2, old, goal),
         old = [k \in PKs |-> old[k]], goal = [k \in PKs |-> goal[k]]
  PROVE  old = goal
  <1>1. \A i \in 2..Len(row) : FALSE
    OBVIOUS
  <1>2. \A k \in PKs : goal[k] = old[k]
    BY <1>1 DEF Reaches
  <1> QED BY <1>2

-----------------------------------------------------------------------------
(* What is shown, and the calls that are made of it.                        *)

Keep == {i \in 1..Len(rows) : \A n \in DOMAIN draft.deleted : draft.deleted[n] # i}
Kept == InOrder(Keep)
Changed == {i \in DOMAIN draft.edited : draft.edited[i].v # Data!Row(i).v}
Sent == InOrder(Changed)

LEMMA KeptRows ==
  ASSUME IsSequence(rows), IsSequence(draft.deleted)
  PROVE  /\ Len(Kept) \in Nat /\ Kept \in Seq(Keep) /\ Keep \subseteq 1..Len(rows) /\ Len(rows) \in Nat
         /\ \A n \in 1..Len(Kept) : Kept[n] \in Keep
         /\ \A n, m \in 1..Len(Kept) : n < m => Kept[n] < Kept[m]
         /\ \A i \in Keep : \E n \in 1..Len(Kept) : Kept[n] = i
         /\ \A i \in 1..Len(rows) : i \in Keep <=> \A n \in 1..Len(draft.deleted) : draft.deleted[n] # i
  <1>1. Len(rows) \in Nat /\ Len(draft.deleted) \in Nat
    BY DEF IsSequence
  <1>2. IsFiniteSet(Keep) /\ Keep \subseteq Nat /\ Keep \subseteq 1..Len(rows)
    <2>1. IsFiniteSet(1..Len(rows)) /\ 1..Len(rows) \subseteq Nat
      BY <1>1, FS_Interval
    <2>2. Keep \subseteq 1..Len(rows)
      BY DEF Keep
    <2> QED BY <2>1, <2>2, FS_Subset
  <1>3. PICK c : c = Cardinality(Keep)
    OBVIOUS
  <1>4. /\ c \in Nat /\ Kept \in [1..c -> Keep]
        /\ \A i, k \in 1..c : i < k => Kept[i] < Kept[k]
        /\ \A u \in Keep : \E i \in 1..c : Kept[i] = u
    BY <1>2, <1>3, InOrderEnumerates DEF Kept
  <1>5. Kept \in Seq(Keep) /\ Len(Kept) = c
    BY <1>4
  <1>6. \A i \in 1..Len(rows) : i \in Keep <=> \A n \in 1..Len(draft.deleted) : draft.deleted[n] # i
    <2>1. DOMAIN draft.deleted = 1..Len(draft.deleted)
      BY DEF IsSequence
    <2> QED BY <2>1, Zenon DEF Keep
  <1> QED BY <1>1, <1>2, <1>4, <1>5, <1>6

LEMMA SentRows ==
  ASSUME DraftSound
  PROVE  /\ Len(Sent) \in Nat /\ Sent \in Seq(Changed) /\ Data!Updates = Sent
         /\ \A n \in 1..Len(Sent) : Sent[n] \in Changed
         /\ \A n, m \in 1..Len(Sent) : n < m => Sent[n] < Sent[m]
         /\ \A i \in Changed : \E n \in 1..Len(Sent) : Sent[n] = i
         /\ Changed \subseteq Nat \ {0}
  <1>2. IsFiniteSet(Changed) /\ Changed \subseteq Nat \ {0}
    <2>1. Changed \subseteq DOMAIN draft.edited
      BY DEF Changed
    <2> QED BY <2>1, FS_Subset DEF DraftSound, SoundDraft
  <1>3. PICK c : c = Cardinality(Changed)
    OBVIOUS
  <1>4. /\ c \in Nat /\ Sent \in [1..c -> Changed]
        /\ \A i, k \in 1..c : i < k => Sent[i] < Sent[k]
        /\ \A u \in Changed : \E i \in 1..c : Sent[i] = u
    BY <1>2, <1>3, InOrderEnumerates DEF Sent
  <1>5. Sent \in Seq(Changed) /\ Len(Sent) = c
    BY <1>4
  <1>6. Data!Updates = Sent
    BY DataInOrder DEF Data!Updates, Sent, Changed
  <1> QED BY <1>2, <1>4, <1>5, <1>6

\* The rows on the screen.
LEMMA ShownRows ==
  ASSUME IsSequence(rows), IsSequence(draft.deleted), IsSequence(draft.new)
  PROVE  LET list == Data!DisplayRows IN
         /\ Len(Kept) \in Nat /\ Len(draft.new) \in Nat /\ Len(list) = Len(Kept) + Len(draft.new)
         /\ \A n \in 1..Len(Kept) :
              /\ list[n].src = Kept[n]
              /\ list[n].rec = IF Kept[n] \in DOMAIN draft.edited THEN draft.edited[Kept[n]] ELSE rows[Kept[n]]
         /\ \A m \in 1..Len(draft.new) : list[Len(Kept) + m].src = 0 /\ list[Len(Kept) + m].rec = draft.new[m]
         /\ \A n \in 1..Len(list) : n \in 1..Len(Kept) \/ \E m \in 1..Len(draft.new) : n = Len(Kept) + m
  <1> DEFINE Old(i) == IF i \in DOMAIN draft.edited THEN draft.edited[i] ELSE rows[i]
             a == [n \in 1..Len(Kept) |-> [src |-> Kept[n], rec |-> Old(Kept[n])]]
             b == [n \in 1..Len(draft.new) |-> [src |-> 0, rec |-> draft.new[n]]]
  <1>1. Data!DisplayRows = a \o b
    <2>1. Data!InOrder(Keep) = Kept
      BY DataInOrder DEF Kept
    <2> QED BY <2>1, Zenon DEF Data!DisplayRows, Keep
  <1>2. Len(Kept) \in Nat /\ Len(draft.new) \in Nat
    BY KeptRows DEF IsSequence
  <1>3. /\ a \in Seq({[src |-> Kept[n], rec |-> Old(Kept[n])] : n \in 1..Len(Kept)}) /\ Len(a) = Len(Kept)
        /\ \A n \in 1..Len(Kept) : a[n].src = Kept[n] /\ a[n].rec = Old(Kept[n])
    <2> HIDE DEF Old
    <2> QED BY <1>2
  <1>4. /\ b \in Seq({[src |-> 0, rec |-> draft.new[n]] : n \in 1..Len(draft.new)}) /\ Len(b) = Len(draft.new)
        /\ \A n \in 1..Len(draft.new) : b[n].src = 0 /\ b[n].rec = draft.new[n]
    BY <1>2
  <1> HIDE DEF a, b
  <1>5. IsSequence(a) /\ IsSequence(b)
    BY <1>3, <1>4 DEF IsSequence
  <1>6. PICK list : list = a \o b
    OBVIOUS
  <1>7. /\ Len(list) = Len(a) + Len(b)
        /\ \A i \in 1..Len(a) : list[i] = a[i]
        /\ \A i \in 1..Len(b) : list[Len(a) + i] = b[i]
        /\ \A i \in 1..Len(list) : \/ i \in 1..Len(a) /\ list[i] = a[i]
                                   \/ \E k \in 1..Len(b) : i = Len(a) + k /\ list[i] = b[k]
    BY <1>5, <1>6, JoinIsSequence
  <1>8. list = Data!DisplayRows
    BY <1>1, <1>6, Zenon
  <1>9. \A n \in 1..Len(Kept) :
              /\ list[n].src = Kept[n]
              /\ list[n].rec = IF Kept[n] \in DOMAIN draft.edited THEN draft.edited[Kept[n]] ELSE rows[Kept[n]]
    BY <1>3, <1>7
  <1>10. \A m \in 1..Len(draft.new) : list[Len(Kept) + m].src = 0 /\ list[Len(Kept) + m].rec = draft.new[m]
    BY <1>3, <1>4, <1>7
  <1>11. \A n \in 1..Len(list) : n \in 1..Len(Kept) \/ \E m \in 1..Len(draft.new) : n = Len(Kept) + m
    BY <1>3, <1>4, <1>7
  <1>12. Len(list) = Len(Kept) + Len(draft.new)
    BY <1>3, <1>4, <1>7
  <1> QED BY <1>2, <1>8, <1>9, <1>10, <1>11, <1>12, Zenon

\* A row of calls: d deletions, u updates and w insertions.
LaidOut(row, d, u, w) ==
  /\ d \in Nat /\ u \in Nat /\ w \in Nat /\ IsSequence(row) /\ Len(row) = (d + u) + w
  /\ \A i \in 1..d : row[i].op = "delete" /\ row[i].k = Data!Row(draft.deleted[i]).k
  /\ \A i \in 1..u : /\ row[d + i].op = "update" /\ row[d + i].k = Data!Row(Sent[i]).k
                     /\ row[d + i].v = draft.edited[Sent[i]].v
  /\ \A i \in 1..w : /\ row[(d + u) + i].op = "insert" /\ row[(d + u) + i].k = draft.new[i].k
                     /\ row[(d + u) + i].v = draft.new[i].v
  /\ \A i \in 1..Len(row) : \/ i \in 1..d
                            \/ \E p \in 1..u : i = d + p
                            \/ \E m \in 1..w : i = (d + u) + m

LEMMA CallsOfDraft ==
  ASSUME DraftSound
  PROVE  LaidOut(Data!Calls, Len(draft.deleted), Len(Sent), Len(draft.new))
  <1>1. PICK d, u, w : d = Len(draft.deleted) /\ u = Len(Sent) /\ w = Len(draft.new)
    OBVIOUS
  <1>2. d \in Nat /\ u \in Nat /\ w \in Nat
    <2>1. Len(draft.deleted) \in Nat /\ Len(draft.new) \in Nat
      BY DEF DraftSound, SoundDraft, IsSequence
    <2> QED BY <1>1, <2>1, SentRows
  <1> DEFINE x == [n \in 1..d |-> [op |-> "delete", k |-> Data!Row(draft.deleted[n]).k, v |-> Null]]
             y == [n \in 1..u |-> [op |-> "update", k |-> Data!Row(Sent[n]).k, v |-> draft.edited[Sent[n]].v]]
             z == [n \in 1..w |-> [op |-> "insert", k |-> draft.new[n].k, v |-> draft.new[n].v]]
  <1>3. Data!Calls = (x \o y) \o z
    BY <1>1, SentRows, Zenon DEF Data!Calls
  <1>4. /\ x \in Seq({x[n] : n \in 1..d}) /\ Len(x) = d
        /\ \A i \in 1..d : x[i].op = "delete" /\ x[i].k = Data!Row(draft.deleted[i]).k
    BY <1>2
  <1>5. /\ y \in Seq({y[n] : n \in 1..u}) /\ Len(y) = u
        /\ \A i \in 1..u : /\ y[i].op = "update" /\ y[i].k = Data!Row(Sent[i]).k /\ y[i].v = draft.edited[Sent[i]].v
    BY <1>2
  <1>6. /\ z \in Seq({z[n] : n \in 1..w}) /\ Len(z) = w
        /\ \A i \in 1..w : z[i].op = "insert" /\ z[i].k = draft.new[i].k /\ z[i].v = draft.new[i].v
    BY <1>2
  <1> HIDE DEF x, y, z
  <1>7. IsSequence(x) /\ IsSequence(y) /\ IsSequence(z)
    BY <1>4, <1>5, <1>6 DEF IsSequence
  <1>8. PICK xy : xy = x \o y
    OBVIOUS
  <1>9. /\ IsSequence(xy) /\ Len(xy) = d + u
        /\ \A i \in 1..d : xy[i] = x[i]
        /\ \A i \in 1..u : xy[d + i] = y[i]
        /\ \A i \in 1..Len(xy) : i \in 1..d \/ \E p \in 1..u : i = d + p
    <2>1. /\ IsSequence(xy) /\ Len(xy) = Len(x) + Len(y)
          /\ \A i \in 1..Len(x) : xy[i] = x[i]
          /\ \A i \in 1..Len(y) : xy[Len(x) + i] = y[i]
          /\ \A i \in 1..Len(xy) : \/ i \in 1..Len(x) /\ xy[i] = x[i]
                                   \/ \E k \in 1..Len(y) : i = Len(x) + k /\ xy[i] = y[k]
      BY <1>7, <1>8, JoinIsSequence
    <2> QED BY <1>4, <1>5, <2>1
  <1>10. PICK row : row = xy \o z
    OBVIOUS
  <1>11. /\ IsSequence(row) /\ Len(row) = (d + u) + w
         /\ \A i \in 1..(d + u) : row[i] = xy[i]
         /\ \A i \in 1..w : row[(d + u) + i] = z[i]
         /\ \A i \in 1..Len(row) : i \in 1..Len(xy) \/ \E m \in 1..w : i = (d + u) + m
    <2>1. /\ IsSequence(row) /\ Len(row) = Len(xy) + Len(z)
          /\ \A i \in 1..Len(xy) : row[i] = xy[i]
          /\ \A i \in 1..Len(z) : row[Len(xy) + i] = z[i]
          /\ \A i \in 1..Len(row) : \/ i \in 1..Len(xy) /\ row[i] = xy[i]
                                    \/ \E k \in 1..Len(z) : i = Len(xy) + k /\ row[i] = z[k]
      <3>1. IsSequence(xy) /\ IsSequence(z)
        BY <1>7, <1>9
      <3> QED BY <1>10, <3>1, JoinIsSequence
    <2> QED BY <1>6, <1>9, <2>1
  <1>12. row = Data!Calls
    BY <1>3, <1>8, <1>10, Zenon
  <1>13. \A i \in 1..d : row[i].op = "delete" /\ row[i].k = Data!Row(draft.deleted[i]).k
    <2> SUFFICES ASSUME NEW i \in 1..d PROVE row[i].op = "delete" /\ row[i].k = Data!Row(draft.deleted[i]).k
      OBVIOUS
    <2>1. i \in 1..(d + u)
      BY <1>2
    <2> QED BY <1>4, <1>9, <1>11, <2>1
  <1>14. \A i \in 1..u : /\ row[d + i].op = "update" /\ row[d + i].k = Data!Row(Sent[i]).k
                         /\ row[d + i].v = draft.edited[Sent[i]].v
    <2> SUFFICES ASSUME NEW i \in 1..u
                 PROVE  /\ row[d + i].op = "update" /\ row[d + i].k = Data!Row(Sent[i]).k
                        /\ row[d + i].v = draft.edited[Sent[i]].v
      OBVIOUS
    <2>1. d + i \in 1..(d + u)
      BY <1>2
    <2> QED BY <1>5, <1>9, <1>11, <2>1
  <1>15. \A i \in 1..w : /\ row[(d + u) + i].op = "insert" /\ row[(d + u) + i].k = draft.new[i].k
                         /\ row[(d + u) + i].v = draft.new[i].v
    BY <1>6, <1>11
  <1>16. \A i \in 1..Len(row) : \/ i \in 1..d
                                \/ \E p \in 1..u : i = d + p
                                \/ \E m \in 1..w : i = (d + u) + m
    BY <1>9, <1>11
  <1>17. LaidOut(row, d, u, w)
    BY <1>2, <1>11, <1>13, <1>14, <1>15, <1>16, Zenon DEF LaidOut
  <1> QED BY <1>1, <1>12, <1>17

-----------------------------------------------------------------------------

\* The rows on the screen that decide what becomes of key k.
Mine(list, k) ==
  {n \in 1..Len(list) :
     IF list[n].src = 0 THEN list[n].rec.k = k
     ELSE rows[list[n].src].k = k /\ list[n].rec.v # rows[list[n].src].v}

\* Row n of the screen is saved by call j.
SavedBy(n, j, d, u) ==
  \/ n \in 1..Len(Kept) /\ \E p \in 1..u : Sent[p] = Kept[n] /\ j = d + p
  \/ \E m \in 1..Len(draft.new) : n = Len(Kept) + m /\ j = (d + u) + m

KeptOf(k) ==
  IF Mine(Data!DisplayRows, k) # {} THEN Data!LastOf(Data!DisplayRows, Mine(Data!DisplayRows, k))
  ELSE IF \E i \in DOMAIN draft.deleted : Data!Row(draft.deleted[i]).k = k THEN Absent
  ELSE stored[k]

LEMMA KeptIsTable == Data!UnderLoadedKeys = [k \in PKs |-> KeptOf(k)]
  BY Zenon DEF Data!UnderLoadedKeys, KeptOf, Mine

LEMMA PromiseOfKey ==
  ASSUME NEW k \in PKs
  PROVE  LET mine == Mine(Data!DisplayRows, k) IN
         Data!UnderLoadedKeys[k] =
           IF mine # {} THEN Data!DisplayRows[CHOOSE n \in mine : \A m \in mine : m <= n].rec.v
           ELSE IF \E i \in DOMAIN draft.deleted : Data!Row(draft.deleted[i]).k = k THEN Absent
           ELSE stored[k]
  <1>1. Data!UnderLoadedKeys[k] = KeptOf(k)
    BY KeptIsTable
  <1> QED BY <1>1, Zenon DEF KeptOf, Data!LastOf

\* The rows that are shown under key k, and whether what was under it is gone.
MineShown(list, k) ==
  {n \in 1..Len(list) : /\ list[n].rec.k = k
                        /\ list[n].src # 0 => Data!Differs(list[n].rec, rows[list[n].src])}

GoneShown(k) == \/ \E i \in DOMAIN draft.deleted : Data!Row(draft.deleted[i]).k = k
                \/ \E i \in DOMAIN draft.edited : Data!Row(i).k = k /\ draft.edited[i].k # k

ShownOf(k) ==
  IF MineShown(Data!DisplayRows, k) # {}
  THEN Data!LastOf(Data!DisplayRows, MineShown(Data!DisplayRows, k))
  ELSE IF GoneShown(k) THEN Absent ELSE stored[k]

LEMMA ShownIsTable == Data!Promised = [k \in PKs |-> ShownOf(k)]
  BY Zenon DEF Data!Promised, ShownOf, MineShown, GoneShown

\* Where no key cell was edited, the screen shows what is sent.
LEMMA ShownAsKept ==
  ASSUME PagesLoaded, DraftSound, ~Data!Rekeyed
  PROVE  Data!Promised = Data!UnderLoadedKeys
  <1>1. IsSequence(rows) /\ IsSequence(draft.deleted) /\ IsSequence(draft.new)
    BY DEF DraftSound, SoundDraft, PagesLoaded
  <1>2. PICK list : list = Data!DisplayRows
    OBVIOUS
  <1>3. \A i \in DOMAIN draft.edited : draft.edited[i].k = Data!Row(i).k
    BY Zenon DEF Data!Rekeyed
  <1>4. ASSUME NEW n \in 1..Len(list), list[n].src # 0
        PROVE  list[n].rec.k = rows[list[n].src].k
    <2>1. /\ Len(Kept) \in Nat /\ Len(draft.new) \in Nat
          /\ \A i \in 1..Len(Kept) :
               /\ list[i].src = Kept[i]
               /\ list[i].rec = IF Kept[i] \in DOMAIN draft.edited THEN draft.edited[Kept[i]] ELSE rows[Kept[i]]
          /\ \A m \in 1..Len(draft.new) : list[Len(Kept) + m].src = 0
          /\ \A i \in 1..Len(list) : i \in 1..Len(Kept) \/ \E m \in 1..Len(draft.new) : i = Len(Kept) + m
      BY <1>1, <1>2, ShownRows
    <2>2. n \in 1..Len(Kept)
      BY <1>4, <2>1
    <2>3. PICK i : i = Kept[n]
      OBVIOUS
    <2>4. i \in 1..Len(rows) /\ Len(rows) \in Nat
      BY <1>1, <2>2, <2>3, KeptRows
    <2>5. Data!Row(i) = rows[i]
      BY <2>4 DEF Data!Row
    <2>6. list[n].src = i /\ list[n].rec = IF i \in DOMAIN draft.edited THEN draft.edited[i] ELSE rows[i]
      BY <2>1, <2>2, <2>3
    <2> QED BY <1>3, <2>5, <2>6
  <1>5. ASSUME NEW k \in PKs PROVE ShownOf(k) = KeptOf(k)
    <2>1. MineShown(list, k) = Mine(list, k)
      BY <1>4 DEF MineShown, Mine, Data!Differs
    <2>2. ~ \E i \in DOMAIN draft.edited : Data!Row(i).k = k /\ draft.edited[i].k # k
      BY <1>3
    <2>3. GoneShown(k) <=> \E i \in DOMAIN draft.deleted : Data!Row(draft.deleted[i]).k = k
      BY <2>2, Zenon DEF GoneShown
    <2>4. MineShown(Data!DisplayRows, k) = Mine(Data!DisplayRows, k)
      BY <1>2, <2>1, Zenon
    <2> QED BY <2>3, <2>4, Zenon DEF ShownOf, KeptOf
  <1>6. [k \in PKs |-> ShownOf(k)] = [k \in PKs |-> KeptOf(k)]
    BY <1>5, Zenon
  <1> QED BY <1>6, ShownIsTable, KeptIsTable, Zenon

\* A row on the screen that was changed has a call, and later rows have later calls.
LEMMA RowHasCall ==
  ASSUME DraftSound, PagesLoaded, NEW k \in PKs,
         NEW list, list = Data!DisplayRows, NEW row, NEW d, NEW u, LaidOut(row, d, u, Len(draft.new)), u = Len(Sent),
         NEW n \in Mine(list, k)
  PROVE  \E j \in 1..Len(row) : /\ SavedBy(n, j, d, u) /\ row[j].k = k /\ row[j].op # "delete"
                                /\ row[j].v = list[n].rec.v /\ j > d
  <1>1. IsSequence(rows) /\ IsSequence(draft.deleted) /\ IsSequence(draft.new)
    BY DEF DraftSound, SoundDraft, PagesLoaded
  <1>2. /\ Len(Kept) \in Nat /\ Len(draft.new) \in Nat /\ Len(list) = Len(Kept) + Len(draft.new)
        /\ \A i \in 1..Len(Kept) :
             /\ list[i].src = Kept[i]
             /\ list[i].rec = IF Kept[i] \in DOMAIN draft.edited THEN draft.edited[Kept[i]] ELSE rows[Kept[i]]
        /\ \A m \in 1..Len(draft.new) : list[Len(Kept) + m].src = 0 /\ list[Len(Kept) + m].rec = draft.new[m]
        /\ \A i \in 1..Len(list) : i \in 1..Len(Kept) \/ \E m \in 1..Len(draft.new) : i = Len(Kept) + m
    BY <1>1, ShownRows
  <1>3. n \in 1..Len(list) /\ IF list[n].src = 0 THEN list[n].rec.k = k
                              ELSE rows[list[n].src].k = k /\ list[n].rec.v # rows[list[n].src].v
    BY DEF Mine
  <1>4. /\ d \in Nat /\ u \in Nat /\ Len(row) = (d + u) + Len(draft.new)
        /\ \A i \in 1..u : /\ row[d + i].op = "update" /\ row[d + i].k = Data!Row(Sent[i]).k
                           /\ row[d + i].v = draft.edited[Sent[i]].v
        /\ \A i \in 1..Len(draft.new) : /\ row[(d + u) + i].op = "insert" /\ row[(d + u) + i].k = draft.new[i].k
                                        /\ row[(d + u) + i].v = draft.new[i].v
    BY DEF LaidOut
  <1>5. CASE n \in 1..Len(Kept)
    <2>1. PICK i : i = Kept[n]
      OBVIOUS
    <2>2. i \in 1..Len(rows) /\ Len(rows) \in Nat
      BY <1>1, <1>5, <2>1, KeptRows
    <2>3. /\ list[n].src = i /\ i # 0 /\ rows[i].k = k /\ list[n].rec.v # rows[i].v
          /\ list[n].rec = IF i \in DOMAIN draft.edited THEN draft.edited[i] ELSE rows[i]
      BY <1>2, <1>3, <1>5, <2>1, <2>2
    <2>4. i \in DOMAIN draft.edited /\ list[n].rec = draft.edited[i] /\ Data!Row(i) = rows[i]
      BY <2>2, <2>3 DEF Data!Row
    <2>5. i \in Changed
      BY <2>3, <2>4 DEF Changed
    <2>6. PICK p \in 1..u : Sent[p] = i
      BY <2>5, SentRows
    <2>7. /\ row[d + p].op = "update" /\ row[d + p].k = rows[i].k /\ row[d + p].v = draft.edited[i].v
      <3>1. /\ row[d + p].op = "update" /\ row[d + p].k = Data!Row(Sent[p]).k
            /\ row[d + p].v = draft.edited[Sent[p]].v
        BY <1>4, Zenon
      <3> QED BY <2>4, <2>6, <3>1
    <2>8. d + p \in 1..Len(row) /\ d + p > d
      <3>1. PICK w \in Nat : Len(row) = (d + u) + w
        BY <1>2, <1>4
      <3>2. d \in Nat /\ u \in Nat
        BY <1>4
      <3>3. p \in Nat /\ p >= 1 /\ p <= u
        BY <3>2
      <3>4. PICK m : m = (d + u) + w
        OBVIOUS
      <3>5. d + p \in 1..m /\ d + p > d
        BY <3>1, <3>2, <3>3, <3>4
      <3> QED BY <3>1, <3>4, <3>5
    <2>9. SavedBy(n, d + p, d, u)
      BY <1>5, <2>1, <2>6, Zenon DEF SavedBy
    <2>10. row[d + p].op # "delete"
      BY <2>7
    <2> QED BY <2>3, <2>4, <2>7, <2>8, <2>9, <2>10
  <1>6. ASSUME NEW m \in 1..Len(draft.new), n = Len(Kept) + m
        PROVE  \E j \in 1..Len(row) : /\ SavedBy(n, j, d, u) /\ row[j].k = k /\ row[j].op # "delete"
                                      /\ row[j].v = list[n].rec.v /\ j > d
    <2>1. list[n].src = 0 /\ list[n].rec = draft.new[m] /\ draft.new[m].k = k
      BY <1>2, <1>3, <1>6
    <2>2. PICK j : j = (d + u) + m
      OBVIOUS
    <2>3. j \in 1..Len(row) /\ j > d
      BY <1>2, <1>4, <2>2
    <2>4. row[j].op = "insert" /\ row[j].k = draft.new[m].k /\ row[j].v = draft.new[m].v
      BY <1>4, <2>2
    <2>5. SavedBy(n, j, d, u)
      BY <1>6, <2>2, Zenon DEF SavedBy
    <2> QED BY <2>1, <2>3, <2>4, <2>5
  <1> QED BY <1>2, <1>3, <1>5, <1>6

LEMMA LaterRowsLater ==
  ASSUME DraftSound, PagesLoaded, NEW d \in Nat, NEW u, u = Len(Sent), NEW n, NEW j, NEW m, NEW i,
         SavedBy(n, j, d, u), SavedBy(m, i, d, u), n < m
  PROVE  j < i
  <1>1. IsSequence(rows) /\ IsSequence(draft.deleted) /\ IsSequence(draft.new)
    BY DEF DraftSound, SoundDraft, PagesLoaded
  <1>2. /\ Len(Kept) \in Nat /\ Keep \subseteq 1..Len(rows) /\ Len(rows) \in Nat
        /\ \A a \in 1..Len(Kept) : Kept[a] \in Keep
        /\ \A a, b \in 1..Len(Kept) : a < b => Kept[a] < Kept[b]
    BY <1>1, KeptRows
  <1>3. /\ u \in Nat /\ \A a, b \in 1..u : a < b => Sent[a] < Sent[b]
    BY SentRows
  <1>4. Len(draft.new) \in Nat
    BY <1>1 DEF IsSequence
  <1>5. PICK c \in Nat : c = Len(Kept)
    BY <1>2
  <1>6. CASE n \in 1..Len(Kept) /\ m \in 1..Len(Kept)
    <2>1. PICK p \in 1..u : Sent[p] = Kept[n] /\ j = d + p
      BY <1>4, <1>5, <1>6 DEF SavedBy
    <2>2. PICK q \in 1..u : Sent[q] = Kept[m] /\ i = d + q
      BY <1>4, <1>5, <1>6 DEF SavedBy
    <2>3. Kept[n] < Kept[m] /\ Kept[n] \in Nat /\ Kept[m] \in Nat
      <3>1. Kept[n] < Kept[m] /\ Kept[n] \in Keep /\ Kept[m] \in Keep
        BY <1>2, <1>6, Zenon
      <3>2. \A e \in Keep : e \in Nat
        BY <1>2
      <3> QED BY <3>1, <3>2
    <2>4. ~(Kept[m] < Kept[n]) /\ Kept[m] # Kept[n]
      BY <2>3
    <2>5. ~(q < p) /\ q # p
      BY <1>3, <2>1, <2>2, <2>4
    <2>6. p < q
      BY <1>3, <2>5
    <2> QED BY <1>3, <2>1, <2>2, <2>6
  <1>7. CASE ~(m \in 1..Len(Kept))
    <2>1. PICK b \in 1..Len(draft.new) : m = Len(Kept) + b /\ i = (d + u) + b
      BY <1>7, Zenon DEF SavedBy
    <2>2. CASE \E p \in 1..u : j = d + p
      BY <1>3, <1>4, <2>1, <2>2
    <2>3. CASE \E a \in 1..Len(draft.new) : n = Len(Kept) + a /\ j = (d + u) + a
      BY <1>2, <1>3, <1>4, <2>1, <2>3
    <2> QED BY <2>2, <2>3, Zenon DEF SavedBy
  <1>8. CASE m \in 1..Len(Kept) /\ ~(n \in 1..Len(Kept))
    <2>1. PICK a \in 1..Len(draft.new) : n = Len(Kept) + a
      BY <1>8, Zenon DEF SavedBy
    <2> QED BY <1>2, <1>4, <1>8, <2>1
  <1> QED BY <1>6, <1>7, <1>8

\* A call that is no deletion saves a row on the screen.
LEMMA CallHasRow ==
  ASSUME DraftSound, PagesLoaded, NEW k \in PKs,
         NEW list, list = Data!DisplayRows, NEW row, NEW d, NEW u, LaidOut(row, d, u, Len(draft.new)), u = Len(Sent),
         NEW j \in 1..Len(row), row[j].k = k, ~(j \in 1..d)
  PROVE  \E n \in Mine(list, k) : /\ SavedBy(n, j, d, u) /\ row[j].op # "delete" /\ row[j].v = list[n].rec.v
  <1>1. IsSequence(rows) /\ IsSequence(draft.deleted) /\ IsSequence(draft.new)
    BY DEF DraftSound, SoundDraft, PagesLoaded
  <1>2. /\ Len(Kept) \in Nat /\ Len(draft.new) \in Nat /\ Len(list) = Len(Kept) + Len(draft.new)
        /\ \A i \in 1..Len(Kept) :
             /\ list[i].src = Kept[i]
             /\ list[i].rec = IF Kept[i] \in DOMAIN draft.edited THEN draft.edited[Kept[i]] ELSE rows[Kept[i]]
        /\ \A m \in 1..Len(draft.new) : list[Len(Kept) + m].src = 0 /\ list[Len(Kept) + m].rec = draft.new[m]
    BY <1>1, ShownRows
  <1>4. /\ d \in Nat /\ u \in Nat /\ Len(row) = (d + u) + Len(draft.new)
        /\ \A i \in 1..u : /\ row[d + i].op = "update" /\ row[d + i].k = Data!Row(Sent[i]).k
                           /\ row[d + i].v = draft.edited[Sent[i]].v
        /\ \A i \in 1..Len(draft.new) : /\ row[(d + u) + i].op = "insert" /\ row[(d + u) + i].k = draft.new[i].k
                                        /\ row[(d + u) + i].v = draft.new[i].v
    BY DEF LaidOut
  <1>5. ASSUME NEW p \in 1..u, j = d + p
        PROVE  \E n \in Mine(list, k) : /\ SavedBy(n, j, d, u) /\ row[j].op # "delete" /\ row[j].v = list[n].rec.v
    <2>1. PICK i : i = Sent[p]
      OBVIOUS
    <2>2. /\ row[j].op = "update" /\ Data!Row(i).k = k /\ row[j].v = draft.edited[i].v
      BY <1>4, <1>5, <2>1
    <2>3. i \in DOMAIN draft.edited /\ draft.edited[i].v # Data!Row(i).v /\ i \in Nat \ {0}
      BY <2>1, SentRows DEF Changed
    <2>4. Data!Row(i) = rows[i] /\ i \in 1..Len(rows)
      <3>1. CASE i <= Len(rows)
        <4>1. Len(rows) \in Nat
          BY <1>1, KeptRows
        <4> QED BY <2>3, <3>1, <4>1 DEF Data!Row
      <3>2. CASE ~(i <= Len(rows))
        <4>1. Data!Row(i).k = Null
          BY <3>2 DEF Data!Row
        <4> QED BY <2>2, <4>1, DataAssumption
      <3> QED BY <3>1, <3>2
    <2>5. i \in Keep
      <3>1. \A m \in 1..Len(draft.deleted) : draft.deleted[m] # i
        BY <2>3 DEF DraftSound, SoundDraft
      <3>2. \A e \in 1..Len(rows) : e \in Keep <=> \A m \in 1..Len(draft.deleted) : draft.deleted[m] # e
        BY <1>1, KeptRows
      <3> QED BY <2>4, <3>1, <3>2, Zenon
    <2>6. PICK n \in 1..Len(Kept) : Kept[n] = i
      BY <1>1, <2>5, KeptRows
    <2>7. n \in 1..Len(list) /\ list[n].src = i /\ i # 0 /\ list[n].rec = draft.edited[i]
      BY <1>2, <2>3, <2>6
    <2>8. n \in Mine(list, k)
      BY <2>2, <2>3, <2>4, <2>7 DEF Mine
    <2>9. SavedBy(n, j, d, u)
      BY <1>5, <2>1, <2>6, Zenon DEF SavedBy
    <2>10. row[j].op # "delete" /\ row[j].v = list[n].rec.v
      BY <2>2, <2>7
    <2> QED BY <2>8, <2>9, <2>10
  <1>6. ASSUME NEW m \in 1..Len(draft.new), j = (d + u) + m
        PROVE  \E n \in Mine(list, k) : /\ SavedBy(n, j, d, u) /\ row[j].op # "delete" /\ row[j].v = list[n].rec.v
    <2>1. PICK n : n = Len(Kept) + m
      OBVIOUS
    <2>2. n \in 1..Len(list) /\ list[n].src = 0 /\ list[n].rec = draft.new[m]
      BY <1>2, <2>1
    <2>3. row[j].op = "insert" /\ row[j].k = draft.new[m].k /\ row[j].v = draft.new[m].v
      BY <1>4, <1>6
    <2>4. n \in Mine(list, k)
      BY <2>2, <2>3 DEF Mine
    <2>5. SavedBy(n, j, d, u)
      BY <1>6, <2>1, Zenon DEF SavedBy
    <2> QED BY <2>2, <2>3, <2>4, <2>5
  <1> QED BY <1>5, <1>6 DEF LaidOut

\* The calls of a draft lead to what the screen shows.
LEMMA CallsKeepPromise ==
  ASSUME DraftSound, PagesLoaded
  PROVE  Reaches(Data!Calls, 1, stored, Data!UnderLoadedKeys)
  <1>1. PICK list, row, d, u, w : /\ list = Data!DisplayRows /\ row = Data!Calls /\ d = Len(draft.deleted)
                                  /\ u = Len(Sent) /\ w = Len(draft.new)
    OBVIOUS
  <1>2. LaidOut(row, d, u, w)
    BY <1>1, CallsOfDraft
  <1>3. /\ d \in Nat /\ u \in Nat /\ w \in Nat /\ Len(row) = (d + u) + w
        /\ \A i \in 1..d : row[i].op = "delete" /\ row[i].k = Data!Row(draft.deleted[i]).k
    BY <1>2 DEF LaidOut
  <1>4. DOMAIN draft.deleted = 1..d
    BY <1>1 DEF DraftSound, SoundDraft, IsSequence
  <1> SUFFICES ASSUME NEW k \in PKs
               PROVE  /\ \A i \in 1..Len(row) :
                           row[i].k = k /\ (\A j \in (i + 1)..Len(row) : row[j].k # k) =>
                             Data!UnderLoadedKeys[k] = Effect(row[i])
                      /\ (\A i \in 1..Len(row) : row[i].k # k) => Data!UnderLoadedKeys[k] = stored[k]
    BY <1>1 DEF Reaches
  <1>5. PICK mine : mine = Mine(list, k)
    OBVIOUS
  <1>6. Data!UnderLoadedKeys[k] =
           IF mine # {} THEN list[CHOOSE n \in mine : \A m \in mine : m <= n].rec.v
           ELSE IF \E i \in 1..d : Data!Row(draft.deleted[i]).k = k THEN Absent
           ELSE stored[k]
    BY <1>1, <1>4, <1>5, PromiseOfKey, Zenon
  <1>7. \A n \in mine : n \in 1..Len(list) /\ n \in Nat
    <2>1. \A n \in mine : n \in 1..Len(list)
      BY <1>5 DEF Mine
    <2>2. \A n \in 1..Len(list) : n \in Nat
      OBVIOUS
    <2> QED BY <2>1, <2>2
  <1>8. \A n \in mine : \E j \in 1..Len(row) : /\ SavedBy(n, j, d, u) /\ row[j].k = k /\ row[j].op # "delete"
                                               /\ row[j].v = list[n].rec.v /\ j > d
    BY <1>1, <1>2, <1>5, RowHasCall
  <1>9. ASSUME NEW i \in 1..Len(row), row[i].k = k, \A j \in (i + 1)..Len(row) : row[j].k # k
        PROVE  Data!UnderLoadedKeys[k] = Effect(row[i])
    <2>1. \A j \in 1..Len(row) : row[j].k = k => j <= i
      <3> SUFFICES ASSUME NEW j \in 1..Len(row), ~(j <= i) PROVE row[j].k # k
        OBVIOUS
      <3>1. j \in (i + 1)..Len(row)
        BY <1>3
      <3> QED BY <1>9, <3>1
    <2>2. CASE i \in 1..d
      <3>1. mine = {}
        <4> SUFFICES ASSUME NEW n \in mine PROVE FALSE
          OBVIOUS
        <4>1. PICK j \in 1..Len(row) : row[j].k = k /\ j > d
          BY <1>8
        <4> QED BY <1>3, <2>1, <2>2, <4>1
      <3>2. Data!Row(draft.deleted[i]).k = k /\ row[i].op = "delete"
        BY <1>3, <1>9, <2>2
      <3> QED BY <1>6, <2>2, <3>1, <3>2 DEF Effect
    <2>3. CASE ~(i \in 1..d)
      <3>1. PICK n \in mine : SavedBy(n, i, d, u) /\ row[i].op # "delete" /\ row[i].v = list[n].rec.v
        BY <1>1, <1>2, <1>5, <1>9, <2>3, CallHasRow
      <3>2. \A m \in mine : m <= n
        <4> SUFFICES ASSUME NEW m \in mine, ~(m <= n) PROVE FALSE
          OBVIOUS
        <4>1. n < m
          BY <1>7
        <4>2. PICK j \in 1..Len(row) : SavedBy(m, j, d, u) /\ row[j].k = k
          BY <1>8
        <4>3. i < j
          BY <1>1, <1>3, <3>1, <4>1, <4>2, LaterRowsLater
        <4>4. j <= i
          BY <2>1, <4>2
        <4> QED BY <1>3, <4>3, <4>4
      <3>3. PICK c : c = CHOOSE a \in mine : \A m \in mine : m <= a
        OBVIOUS
      <3>4. c \in mine /\ \A m \in mine : m <= c
        BY <3>1, <3>2, <3>3, Zenon
      <3>5. c = n
        BY <1>7, <3>2, <3>4
      <3>6. Data!UnderLoadedKeys[k] = list[n].rec.v
        BY <1>6, <3>3, <3>5
      <3> QED BY <3>1, <3>6 DEF Effect
    <2> QED BY <2>2, <2>3
  <1>10. ASSUME \A i \in 1..Len(row) : row[i].k # k PROVE Data!UnderLoadedKeys[k] = stored[k]
    <2>1. mine = {}
      BY <1>8, <1>10
    <2>2. ~ \E i \in 1..d : Data!Row(draft.deleted[i]).k = k
      <3> SUFFICES ASSUME NEW i \in 1..d PROVE Data!Row(draft.deleted[i]).k # k
        OBVIOUS
      <3>1. i \in 1..Len(row)
        BY <1>3
      <3> QED BY <1>3, <1>10, <3>1
    <2> QED BY <1>6, <2>1, <2>2
  <1> QED BY <1>9, <1>10

-----------------------------------------------------------------------------
(* The page, the draft and the applies.                                     *)

LEMMA SelectIsSequence ==
  ASSUME NEW q \in Data!Queries
  PROVE  IsSequence(Data!Select(q))
  <1> DEFINE S == {k \in PKs : stored[k] # Absent /\ (q.only # Absent => stored[k] = q.only)}
             found == Data!InOrder(S)
             all == [i \in 1..Len(found) |-> found[IF q.desc THEN Len(found) + 1 - i ELSE i]]
             first == (q.page - 1) * PageSize
             end == IF first + PageSize < Len(all) THEN first + PageSize ELSE Len(all)
             sel == [i \in 1..(end - first) |-> [k |-> all[first + i], v |-> stored[all[first + i]]]]
  <1>1. Data!Select(q) = sel
    BY Zenon DEF Data!Select
  <1>2. IsFiniteSet(S) /\ S \subseteq Nat
    <2>1. S \subseteq PKs
      OBVIOUS
    <2> HIDE DEF S
    <2> QED BY <2>1, DataAssumption, FS_Subset
  <1> HIDE DEF S
  <1>3. Len(found) \in Nat
    <2>1. /\ Cardinality(S) \in Nat /\ InOrder(S) \in [1..Cardinality(S) -> S]
      BY <1>2, InOrderEnumerates
    <2>2. found = InOrder(S)
      BY DataInOrder
    <2> HIDE DEF found
    <2>3. PICK c \in Nat : c = Cardinality(S)
      BY <2>1
    <2>4. found \in [1..c -> S]
      BY <2>1, <2>2, <2>3
    <2> QED BY <2>4
  <1> HIDE DEF found
  <1>4. Len(all) \in Nat
    <2>1. all \in Seq({all[i] : i \in 1..Len(found)})
      BY <1>3
    <2> HIDE DEF all
    <2> QED BY <2>1
  <1> HIDE DEF all
  <1>5. first \in Nat
    <2>1. q.page \in {1, 2} /\ PageSize \in Nat
      BY DataAssumption DEF Data!Queries
    <2>2. CASE q.page = 1
      BY <2>1, <2>2
    <2>3. CASE q.page = 2
      BY <2>1, <2>3
    <2> QED BY <2>1, <2>2, <2>3
  <1> HIDE DEF first
  <1>6. end \in Nat
    BY <1>4, <1>5, DataAssumption
  <1> HIDE DEF end
  <1>7. PICK m \in Nat : 1..(end - first) = 1..m
    <2>1. CASE end >= first
      <3>1. end - first \in Nat
        BY <1>5, <1>6, <2>1
      <3> QED BY <3>1
    <2>2. CASE ~(end >= first)
      <3>1. 1..(end - first) = 1..0
        BY <1>5, <1>6, <2>2
      <3> QED BY <3>1
    <2> QED BY <2>1, <2>2
  <1> DEFINE rec(i) == [k |-> all[first + i], v |-> stored[all[first + i]]]
  <1>8. sel = [i \in 1..m |-> rec(i)]
    BY <1>7, Zenon
  <1> HIDE DEF rec
  <1>9. [i \in 1..m |-> rec(i)] \in Seq({rec(i) : i \in 1..m})
    OBVIOUS
  <1> QED BY <1>1, <1>8, <1>9 DEF IsSequence

LEMMA EmptyIsSequence == IsSequence(<<>>) /\ Len(<<>>) = 0
  <1>1. <<>> \in Seq({})
    OBVIOUS
  <1> QED BY <1>1 DEF IsSequence

LEMMA NothingSound == SoundDraft(Data!EmptyDraft)
  <1>1. PICK d : d = Data!EmptyDraft
    OBVIOUS
  <1>2. DraftShape(d) /\ d.edited = <<>> /\ d.new = <<>> /\ d.deleted = <<>>
    BY <1>1 DEF Data!EmptyDraft, DraftShape
  <1>3. IsFiniteSet({}) /\ DOMAIN <<>> = {}
    BY FS_EmptySet
  <1>4. 1..Len(<<>>) = {}
    BY EmptyIsSequence
  <1> QED BY <1>1, <1>2, <1>3, <1>4, EmptyIsSequence DEF SoundDraft

\* Which of the parts of the view a step changes.
LEMMA DataStepKinds ==
  ASSUME DataInv, query \in Data!Queries, Data!Next
  PROVE  \/ (\E q \in Data!Queries : Data!StartReload(q)) /\ stored' = stored
         \/ (\E s \in Data!Slots : Data!Loaded(s) \/ Data!LoadFails(s)) /\ UNCHANGED <<query, draft, applies, stored>>
         \/ Data!ServerStep
         \/ /\ UNCHANGED <<query, rows, loads, applies, stored>>
            /\ \/ Data!AddRow \/ Data!DeleteSelectedRow \/ Data!Discard
               \/ \E n, col, value : Data!UpdateCell(n, col, value)
         \/ UNCHANGED <<query, rows, loads, draft, stored>>
  <1>1. CASE \E n \in 1..(PageSize + MaxEvents) :
               \/ \E k \in PKs \cup {Null} : Data!UpdateCell(n, "k", k)
               \/ \E v \in Vals \cup {Null} : Data!UpdateCell(n, "v", v)
    <2>1. PICK n, col, value : Data!UpdateCell(n, col, value)
      BY <1>1, Zenon
    <2>2. UNCHANGED <<query, rows, loads, applies, stored>>
      BY <2>1 DEF Data!UpdateCell
    <2> QED BY <2>1, <2>2, Zenon
  <1>2. CASE \E n \in 1..(PageSize + MaxEvents) : Data!SelectRow(n)
    BY <1>2 DEF Data!SelectRow
  <1>3. CASE Data!AddRow \/ Data!DeleteSelectedRow \/ Data!Discard
    <2>1. UNCHANGED <<query, rows, loads, applies, stored>>
      BY <1>3 DEF Data!AddRow, Data!DeleteSelectedRow, Data!Discard
    <2> QED BY <1>3, <2>1, Zenon
  <1>4. CASE Data!ApplyDraft
    <2>1. stored' = stored /\ (Data!StartReload(query) \/ UNCHANGED <<query, rows, loads, draft>>)
      BY <1>4 DEF Data!ApplyDraft
    <2> QED BY <2>1
  <1>5. CASE \E q \in Data!Queries : Data!Turn(q)
    BY <1>5 DEF Data!Turn
  <1>6. CASE \E only \in Vals \cup {Absent} : Data!ApplyFilters(only)
    <2>1. PICK only \in Vals \cup {Absent} : Data!ApplyFilters(only)
      BY <1>6
    <2>2. PICK q : q = [query EXCEPT !.only = only, !.page = 1]
      OBVIOUS
    <2>3. q \in Data!Queries
      BY <2>2 DEF Data!Queries
    <2>4. Data!StartReload(q) /\ stored' = stored
      BY <2>1, <2>2, Zenon DEF Data!ApplyFilters
    <2> QED BY <2>3, <2>4
  <1>7. CASE \E s \in Data!Slots : Data!Loaded(s) \/ Data!LoadFails(s)
    <2>1. UNCHANGED <<query, draft, applies, stored>>
      BY <1>7 DEF Data!Loaded, Data!LoadFails
    <2> QED BY <1>7, <2>1, Zenon
  <1>8. CASE \E s \in Data!Slots : Data!ApplyGoesOn(s) \/ Data!ApplyFails(s)
    BY <1>8 DEF Data!ApplyGoesOn, Data!ApplyFails
  <1>9. CASE \E s \in Data!Slots : Data!Applied(s)
    BY <1>9 DEF Data!Applied
  <1> QED BY <1>1, <1>2, <1>3, <1>4, <1>5, <1>6, <1>7, <1>8, <1>9, Zenon DEF Data!Next

LEMMA PagesInitial ==
  ASSUME Data!Init
  PROVE  PagesLoaded /\ DraftSound
  <1>1. query \in Data!Queries
    BY DEF Data!Init, Data!Queries
  <1>2. IsSequence(rows)
    BY <1>1, SelectIsSequence DEF Data!Init
  <1>3. LoadsTyped
    BY DataInit DEF DataInv
  <1>4. \A s \in Data!Slots : loads[s] = Data!NoLoad
    BY DEF Data!Init
  <1>5. Data!NoLoad.st = "none" /\ Data!NoLoad.data = <<>>
    BY DEF Data!NoLoad
  <1> QED BY <1>1, <1>2, <1>3, <1>4, <1>5, EmptyIsSequence, NothingSound DEF PagesLoaded, DraftSound, Data!Init

LEMMA PagesStay ==
  ASSUME DataInv, DataInv', PagesLoaded, Data!Next
  PROVE  PagesLoaded'
  <1>0. LoadsTyped' /\ LoadsTyped
    BY DEF DataInv
  <1>1. CASE \E q \in Data!Queries : Data!StartReload(q)
    <2>1. PICK q \in Data!Queries, s \in Data!Slots :
            /\ loads' = [loads EXCEPT ![s] = [st |-> "sent", query |-> q, data |-> <<>>]]
            /\ query' = q /\ rows' = <<>>
      BY <1>1 DEF Data!StartReload
    <2>2. PICK r : r = [st |-> "sent", query |-> q, data |-> <<>>]
      OBVIOUS
    <2>3. r.query = q /\ r.data = <<>> /\ loads' = [loads EXCEPT ![s] = r]
      BY <2>1, <2>2
    <2>4. \A t \in Data!Slots : loads'[t] = IF t = s THEN r ELSE loads[t]
      BY <1>0, <2>3 DEF LoadsTyped
    <2>5. \A t \in Data!Slots : /\ IsSequence(loads'[t].data)
                                /\ loads'[t].st # "none" => loads'[t].query \in Data!Queries
      BY <2>3, <2>4, EmptyIsSequence DEF PagesLoaded
    <2>6. (query \in Data!Queries)' /\ IsSequence(rows)'
      BY <2>1, EmptyIsSequence DEF Data!Queries
    <2>7. (\A t \in Data!Slots : /\ IsSequence(loads[t].data)
                                 /\ loads[t].st # "none" => loads[t].query \in Data!Queries)'
      BY <2>5 DEF Data!Slots, Data!Queries
    <2> QED BY <1>0, <2>6, <2>7 DEF PagesLoaded
  <1>2. CASE (\E s \in Data!Slots : Data!Loaded(s) \/ Data!LoadFails(s)) /\ query' = query
    <2>1. PICK s \in Data!Slots : /\ loads' = [loads EXCEPT ![s] = Data!NoLoad]
                                  /\ rows' = rows \/ rows' = loads[s].data
      BY <1>2 DEF Data!Loaded, Data!LoadFails
    <2>2. Data!NoLoad.st = "none" /\ Data!NoLoad.data = <<>>
      BY DEF Data!NoLoad
    <2>3. \A t \in Data!Slots : loads'[t] = IF t = s THEN Data!NoLoad ELSE loads[t]
      BY <1>0, <2>1 DEF LoadsTyped
    <2>5. \A t \in Data!Slots : /\ IsSequence(loads'[t].data)
                                /\ loads'[t].st # "none" => loads'[t].query \in Data!Queries
      BY <2>2, <2>3, EmptyIsSequence DEF PagesLoaded
    <2>6. (query \in Data!Queries)' /\ IsSequence(rows)'
      BY <1>2, <2>1 DEF Data!Queries, PagesLoaded
    <2>7. (\A t \in Data!Slots : /\ IsSequence(loads[t].data)
                                 /\ loads[t].st # "none" => loads[t].query \in Data!Queries)'
      BY <2>5 DEF Data!Slots, Data!Queries
    <2> QED BY <1>0, <2>6, <2>7 DEF PagesLoaded
  <1>3. CASE Data!ServerStep
    <2>1. PICK s \in Data!Slots : Data!Serve(s) \/ Data!Fault(s)
      BY <1>3 DEF Data!ServerStep
    <2>0. UNCHANGED <<query, rows>>
      BY <1>3 DEF Data!ServerStep
    <2>2. PICK sel, a, b : /\ sel = Data!Select(loads[s].query)
                           /\ a = [loads[s] EXCEPT !.st = "ok", !.data = sel]
                           /\ b = [loads[s] EXCEPT !.st = "error"]
      OBVIOUS
    <2>3. loads' = loads \/ (loads[s].st = "sent" /\ \E r \in {a, b} : loads' = [loads EXCEPT ![s] = r])
      <3>1. CASE Data!Serve(s)
        BY <2>2, <3>1 DEF Data!Serve
      <3>2. CASE Data!Fault(s)
        BY <2>2, <3>2 DEF Data!Fault
      <3> QED BY <2>1, <3>1, <3>2
    <2>4. ASSUME loads[s].st = "sent", NEW r \in {a, b}
          PROVE  IsSequence(r.data) /\ r.query = loads[s].query
      <3>1. ReloadShape(loads[s])
        BY <1>0 DEF LoadsTyped
      <3>2. IsSequence(sel) /\ IsSequence(loads[s].data)
        BY <2>2, <2>4, SelectIsSequence DEF PagesLoaded
      <3>3. (r.data = sel \/ r.data = loads[s].data) /\ r.query = loads[s].query
        BY <2>2, <2>4, <3>1 DEF ReloadShape
      <3> QED BY <3>2, <3>3
    <2>5. \A t \in Data!Slots : /\ IsSequence(loads'[t].data)
                                /\ loads'[t].st # "none" => loads'[t].query \in Data!Queries
      <3>1. CASE loads' = loads
        BY <3>1 DEF PagesLoaded
      <3>2. ASSUME loads[s].st = "sent", NEW r \in {a, b}, loads' = [loads EXCEPT ![s] = r]
            PROVE  \A t \in Data!Slots : /\ IsSequence(loads'[t].data)
                                         /\ loads'[t].st # "none" => loads'[t].query \in Data!Queries
        <4>1. \A t \in Data!Slots : loads'[t] = IF t = s THEN r ELSE loads[t]
          BY <1>0, <3>2 DEF LoadsTyped
        <4>2. IsSequence(r.data) /\ r.query = loads[s].query /\ loads[s].st # "none"
          BY <2>4, <3>2
        <4> QED BY <4>1, <4>2 DEF PagesLoaded
      <3> QED BY <2>3, <3>1, <3>2
    <2>6. (query \in Data!Queries)' /\ IsSequence(rows)'
      BY <2>0 DEF Data!Queries, PagesLoaded
    <2>7. (\A t \in Data!Slots : /\ IsSequence(loads[t].data)
                                 /\ loads[t].st # "none" => loads[t].query \in Data!Queries)'
      BY <2>5 DEF Data!Slots, Data!Queries
    <2> QED BY <1>0, <2>6, <2>7 DEF PagesLoaded
  <1>4. CASE UNCHANGED <<query, rows, loads>>
    <2>1. \A t \in Data!Slots : /\ IsSequence(loads'[t].data)
                                /\ loads'[t].st # "none" => loads'[t].query \in Data!Queries
      BY <1>4 DEF PagesLoaded
    <2>2. (query \in Data!Queries)' /\ IsSequence(rows)'
      BY <1>4 DEF Data!Queries, PagesLoaded
    <2>7. (\A t \in Data!Slots : /\ IsSequence(loads[t].data)
                                 /\ loads[t].st # "none" => loads[t].query \in Data!Queries)'
      BY <2>1 DEF Data!Slots, Data!Queries
    <2> QED BY <1>0, <2>2, <2>7 DEF PagesLoaded
  <1>5. query \in Data!Queries
    BY DEF PagesLoaded
  <1> QED BY <1>1, <1>2, <1>3, <1>4, <1>5, DataStepKinds

LEMMA CompactedSound ==
  ASSUME NEW d, SoundDraft(d)
  PROVE  SoundDraft(Data!CompactDraft(d))
  <1>1. PICK c : c = Data!CompactDraft(d)
    OBVIOUS
  <1>2. DraftShape(c) /\ c.new = d.new /\ c.deleted = d.deleted /\ DOMAIN c.edited \subseteq DOMAIN d.edited
    BY <1>1, Compacted DEF SoundDraft
  <1>3. IsFiniteSet(DOMAIN c.edited)
    BY <1>2, FS_Subset DEF SoundDraft
  <1>4. DOMAIN c.edited \subseteq Nat \ {0}
    BY <1>2 DEF SoundDraft
  <1>5. \A n \in 1..Len(c.deleted) : c.deleted[n] \notin DOMAIN c.edited
    BY <1>2 DEF SoundDraft
  <1> QED BY <1>1, <1>2, <1>3, <1>4, <1>5 DEF SoundDraft

\* A loaded row on the screen is not deleted; a new one has its place among the new rows.
LEMMA PlaceOfRow ==
  ASSUME PagesLoaded, DraftSound, NEW n \in 1..Len(Data!DisplayRows), NEW item, item = Data!DisplayRows[n],
         NEW at, at = n - (Len(Data!DisplayRows) - Len(draft.new))
  PROVE  /\ item.src # 0 => /\ item.src \in Nat \ {0}
                            /\ \A m \in 1..Len(draft.deleted) : draft.deleted[m] # item.src
         /\ item.src = 0 => at \in 1..Len(draft.new)
  <1>1. IsSequence(rows) /\ IsSequence(draft.deleted) /\ IsSequence(draft.new)
    BY DEF DraftSound, SoundDraft, PagesLoaded
  <1>2. PICK list : list = Data!DisplayRows
    OBVIOUS
  <1>3. /\ Len(Kept) \in Nat /\ Len(draft.new) \in Nat /\ Len(list) = Len(Kept) + Len(draft.new)
        /\ \A i \in 1..Len(Kept) : list[i].src = Kept[i]
        /\ \A m \in 1..Len(draft.new) : list[Len(Kept) + m].src = 0
        /\ \A i \in 1..Len(list) : i \in 1..Len(Kept) \/ \E m \in 1..Len(draft.new) : i = Len(Kept) + m
    BY <1>1, <1>2, ShownRows
  <1>4. CASE n \in 1..Len(Kept)
    <2>1. item.src = Kept[n] /\ Kept[n] \in Keep /\ Kept[n] \in 1..Len(rows) /\ Len(rows) \in Nat
      <3>1. Kept[n] \in Keep /\ Keep \subseteq 1..Len(rows) /\ Len(rows) \in Nat
        BY <1>1, <1>4, KeptRows
      <3> QED BY <1>2, <1>3, <1>4, <3>1
    <2>2. PICK i : i = item.src
      OBVIOUS
    <2>3. i \in Keep /\ i \in 1..Len(rows)
      BY <2>1, <2>2
    <2>4. \A m \in 1..Len(draft.deleted) : draft.deleted[m] # i
      BY <1>1, <2>3, KeptRows
    <2>5. i \in Nat /\ i # 0
      BY <2>1, <2>3
    <2> QED BY <2>2, <2>4, <2>5
  <1>5. ASSUME NEW m \in 1..Len(draft.new), n = Len(Kept) + m
        PROVE  item.src = 0 /\ at \in 1..Len(draft.new)
    <2>1. item.src = 0
      BY <1>2, <1>3, <1>5
    <2>2. at = m
      BY <1>2, <1>3, <1>5
    <2> QED BY <2>1, <2>2
  <1> QED BY <1>2, <1>3, <1>4, <1>5

LEMMA CellKeepsDraft ==
  ASSUME PagesLoaded, DraftSound, NEW n, NEW col, NEW value, Data!UpdateCell(n, col, value)
  PROVE  SoundDraft(draft')
  <1>1. PICK item, at, edited : 
          /\ item = Data!DisplayRows[n] /\ at = n - (Len(Data!DisplayRows) - Len(draft.new))
          /\ edited = [i \in DOMAIN draft.edited \cup {item.src} |->
                         IF i = item.src THEN [item.rec EXCEPT ![col] = value] ELSE draft.edited[i]]
    OBVIOUS
  <1>2. PICK v, new, d, e :
          /\ v = [draft.new[at] EXCEPT ![col] = value] /\ new = [draft.new EXCEPT ![at] = v]
          /\ d = [draft EXCEPT !.new = new] /\ e = [draft EXCEPT !.edited = edited]
    OBVIOUS
  <1>3. /\ DraftShape(draft) /\ IsSequence(draft.new) /\ IsSequence(draft.deleted)
        /\ IsFiniteSet(DOMAIN draft.edited) /\ DOMAIN draft.edited \subseteq Nat \ {0}
        /\ \A m \in 1..Len(draft.deleted) : draft.deleted[m] \notin DOMAIN draft.edited
    BY DEF DraftSound, SoundDraft
  <1>4. /\ DraftShape(d) /\ d.new = new /\ d.edited = draft.edited /\ d.deleted = draft.deleted
        /\ DraftShape(e) /\ e.new = draft.new /\ e.edited = edited /\ e.deleted = draft.deleted
    BY <1>2, <1>3 DEF DraftShape
  <1>5. /\ n \in 1..Len(Data!DisplayRows)
        /\ \/ item.src = 0 /\ draft' = Data!CompactDraft(d)
           \/ item.src # 0 /\ draft' = Data!CompactDraft(e)
    BY <1>1, <1>2 DEF Data!UpdateCell, Data!Draft
  <1>6. CASE item.src = 0 /\ draft' = Data!CompactDraft(d)
    <2>1. IsSequence(new)
      BY <1>2, <1>3, EntryReplaced
    <2>2. SoundDraft(d)
      BY <1>3, <1>4, <2>1 DEF SoundDraft
    <2> QED BY <1>6, <2>2, CompactedSound
  <1>7. CASE item.src # 0 /\ draft' = Data!CompactDraft(e)
    <2>1. PICK i : i = item.src
      OBVIOUS
    <2>2. i \in Nat \ {0} /\ \A m \in 1..Len(draft.deleted) : draft.deleted[m] # i
      BY <1>1, <1>5, <1>7, <2>1, PlaceOfRow
    <2>3. DOMAIN edited = DOMAIN draft.edited \cup {i}
      BY <1>1, <2>1
    <2>4. IsFiniteSet(DOMAIN edited)
      BY <1>3, <2>3, FS_AddElement
    <2>5. SoundDraft(e)
      BY <1>3, <1>4, <2>2, <2>3, <2>4 DEF SoundDraft
    <2> QED BY <1>7, <2>5, CompactedSound
  <1> QED BY <1>5, <1>6, <1>7

LEMMA RowsKeepDraft ==
  ASSUME PagesLoaded, DraftSound, Data!AddRow \/ Data!DeleteSelectedRow \/ Data!Discard
  PROVE  SoundDraft(draft')
  <1>1. /\ DraftShape(draft) /\ IsSequence(draft.new) /\ IsSequence(draft.deleted)
        /\ IsFiniteSet(DOMAIN draft.edited) /\ DOMAIN draft.edited \subseteq Nat \ {0}
        /\ \A m \in 1..Len(draft.deleted) : draft.deleted[m] \notin DOMAIN draft.edited
    BY DEF DraftSound, SoundDraft
  <1>2. CASE Data!AddRow
    <2>1. PICK row, new, d : /\ row = [k |-> Null, v |-> Null] /\ new = Append(draft.new, row)
                             /\ d = [draft EXCEPT !.new = new]
      OBVIOUS
    <2>2. DraftShape(d) /\ d.new = new /\ d.edited = draft.edited /\ d.deleted = draft.deleted
      BY <1>1, <2>1 DEF DraftShape
    <2>3. IsSequence(new)
      BY <1>1, <2>1, EntryReplaced
    <2>4. draft' = d
      BY <1>2, <2>1, Zenon DEF Data!AddRow, Data!Draft
    <2> QED BY <1>1, <2>2, <2>3, <2>4 DEF SoundDraft
  <1>3. CASE Data!DeleteSelectedRow
    <2>1. PICK item, at : item = Data!DisplayRows[selected] /\ at = selected - (Len(Data!DisplayRows) - Len(draft.new))
      OBVIOUS
    <2>2. PICK i, new, deleted, edited :
            /\ i = item.src /\ new = Data!Without(draft.new, at) /\ deleted = Append(draft.deleted, i)
            /\ edited = [j \in DOMAIN draft.edited \ {i} |-> draft.edited[j]]
      OBVIOUS
    <2>3. PICK d, e : d = [draft EXCEPT !.new = new] /\ e = [draft EXCEPT !.deleted = deleted, !.edited = edited]
      OBVIOUS
    <2>4. /\ DraftShape(d) /\ d.new = new /\ d.edited = draft.edited /\ d.deleted = draft.deleted
          /\ DraftShape(e) /\ e.new = draft.new /\ e.edited = edited /\ e.deleted = deleted
      BY <1>1, <2>3 DEF DraftShape
    <2>5. /\ selected \in 1..Len(Data!DisplayRows)
          /\ \/ i = 0 /\ draft' = d
             \/ i # 0 /\ draft' = e
      BY <1>3, <2>1, <2>2, <2>3 DEF Data!DeleteSelectedRow, Data!Draft
    <2>6. CASE i = 0 /\ draft' = d
      <3>1. at \in 1..Len(draft.new)
        BY <2>1, <2>2, <2>5, <2>6, PlaceOfRow
      <3>2. IsSequence(new)
        BY <1>1, <2>2, <3>1, RowTakenOut
      <3> QED BY <1>1, <2>4, <2>6, <3>2 DEF SoundDraft
    <2>7. CASE i # 0 /\ draft' = e
      <3>1. DOMAIN edited = DOMAIN draft.edited \ {i}
        BY <2>2
      <3>2. IsFiniteSet(DOMAIN edited)
        BY <1>1, <3>1, FS_Subset
      <3>3. IsSequence(deleted)
        BY <1>1, <2>2, EntryReplaced
      <3>4. \A m \in 1..Len(deleted) : deleted[m] \notin DOMAIN edited
        <4>1. \A m \in 1..Len(deleted) :
                 (m \in 1..Len(draft.deleted) /\ deleted[m] = draft.deleted[m]) \/ deleted[m] = i
          <5>1. PICK S : draft.deleted \in Seq(S)
            BY <1>1 DEF IsSequence
          <5>2. Len(deleted) = Len(draft.deleted) + 1 /\ Len(draft.deleted) \in Nat
            BY <2>2, <5>1
          <5> QED BY <2>2, <5>1, <5>2
        <4> QED BY <1>1, <3>1, <4>1
      <3> QED BY <1>1, <2>4, <2>7, <3>1, <3>2, <3>3, <3>4 DEF SoundDraft
    <2> QED BY <2>5, <2>6, <2>7
  <1>4. CASE Data!Discard
    <2>1. draft' = Data!EmptyDraft
      BY <1>4 DEF Data!Discard, Data!Draft
    <2> QED BY <2>1, NothingSound
  <1> QED BY <1>2, <1>3, <1>4

\* However the draft is changed, its parts stay in order: what is deleted has no edits.
LEMMA DraftStays ==
  ASSUME DataInv, PagesLoaded, DraftSound, Data!Next
  PROVE  DraftSound'
  <1>1. SoundDraft(draft')
    <2>1. CASE \E q \in Data!Queries : Data!StartReload(q)
      <3>1. draft' = Data!EmptyDraft
        BY <2>1 DEF Data!StartReload
      <3> QED BY <3>1, NothingSound
    <2>2. CASE draft' = draft
      BY <2>2 DEF DraftSound
    <2>3. CASE Data!ServerStep
      <3>1. draft' = draft
        BY <2>3 DEF Data!ServerStep
      <3> QED BY <2>2, <3>1
    <2>4. query \in Data!Queries
      BY DEF PagesLoaded
    <2> QED BY <2>1, <2>2, <2>3, <2>4, DataStepKinds, CellKeepsDraft, RowsKeepDraft, Zenon
  <1> QED BY <1>1 DEF DraftSound, SoundDraft, DraftShape, IsSequence

-----------------------------------------------------------------------------
(* The applies.                                                            *)

LEMMA NothingApplied ==
  LET r == Data!NoApply IN ApplyShape(r) /\ r.st = "none" /\ r.crossed = FALSE
  <1>1. PICK r : r = Data!NoApply
    OBVIOUS
  <1>2. ApplyShape(r) /\ r.st = "none" /\ r.crossed = FALSE
    BY <1>1 DEF Data!NoApply, ApplyShape, LoadState
  <1> QED BY <1>1, <1>2

\* OnCourse in the next state.
OnCourseNext(a) ==
  ~a.crossed => /\ a.st = "sent" => Reaches(a.calls, 1, stored', a.kept)
                /\ a.st = "ok" => Reaches(a.calls, 2, stored', a.kept)

LEMMA AppliesNext ==
  ASSUME applies' = [s \in Data!Slots |-> applies'[s]], stored' = [k \in PKs |-> stored'[k]],
         \A s \in Data!Slots : ApplyShape(applies'[s]) /\ OnCourseNext(applies'[s]),
         \A s, n \in Data!Slots :
           s # n /\ applies'[s].st # "none" /\ ~applies'[s].crossed => applies'[n].st = "none"
  PROVE  AppliesSound'
  <1>1. (\A s \in Data!Slots : ApplyShape(applies[s]))'
    BY DEF Data!Slots, ApplyShape, IsSequence, LoadState
  <1>2. (\A s \in Data!Slots : OnCourse(applies[s]))'
    BY DEF Data!Slots, OnCourse, OnCourseNext, Reaches, Effect
  <1>3. (\A s, n \in Data!Slots :
           s # n /\ applies[s].st # "none" /\ ~applies[s].crossed => applies[n].st = "none")'
    BY DEF Data!Slots
  <1>4. (applies = [s \in Data!Slots |-> applies[s]] /\ stored = [k \in PKs |-> stored[k]])'
    BY DEF Data!Slots
  <1> QED BY <1>1, <1>2, <1>3, <1>4 DEF AppliesSound

\* One apply goes on; the table changes only for one that is under way.
LEMMA OneApply ==
  ASSUME AppliesSound, NEW s \in Data!Slots, NEW r, applies' = [applies EXCEPT ![s] = r], ApplyShape(r),
         r.st # "none" => applies[s].st # "none" /\ r.crossed = applies[s].crossed,
         OnCourseNext(r), stored' = [k \in PKs |-> stored'[k]], stored' = stored \/ applies[s].st # "none"
  PROVE  AppliesSound'
  <1>1. \A n \in Data!Slots : applies'[n] = IF n = s THEN r ELSE applies[n]
    BY DEF AppliesSound
  <1>2. applies' = [n \in Data!Slots |-> applies'[n]]
    BY DEF AppliesSound
  <1>3. \A n \in Data!Slots : ApplyShape(applies'[n])
    BY <1>1 DEF AppliesSound
  <1>4. ASSUME NEW n \in Data!Slots PROVE OnCourseNext(applies'[n])
    <2>1. CASE n = s
      BY <1>1, <2>1
    <2>2. CASE n # s /\ applies[n].st = "none"
      <3>1. applies'[n] = applies[n]
        BY <1>1, <2>2
      <3> QED BY <2>2, <3>1 DEF OnCourseNext
    <2>3. CASE n # s /\ applies[n].crossed
      <3>1. applies'[n] = applies[n]
        BY <1>1, <2>3
      <3> QED BY <2>3, <3>1 DEF OnCourseNext
    <2>4. CASE n # s /\ applies[n].st # "none" /\ ~applies[n].crossed
      <3>1. applies'[n] = applies[n]
        BY <1>1, <2>4
      <3>2. applies[s].st = "none"
        BY <2>4 DEF AppliesSound
      <3>3. stored' = stored /\ OnCourse(applies[n])
        BY <3>2 DEF AppliesSound
      <3> QED BY <3>1, <3>3 DEF OnCourse, OnCourseNext
    <2> QED BY <2>1, <2>2, <2>3, <2>4
  <1>5. ASSUME NEW n \in Data!Slots, NEW m \in Data!Slots, n # m, applies'[n].st # "none", ~applies'[n].crossed
        PROVE  applies'[m].st = "none"
    <2>1. applies[n].st # "none" /\ ~applies[n].crossed
      BY <1>1, <1>5
    <2>2. applies[m].st = "none"
      BY <1>5, <2>1 DEF AppliesSound
    <2> QED BY <1>1, <2>2
  <1> QED BY <1>2, <1>3, <1>4, <1>5, AppliesNext

LEMMA AppliesKept ==
  ASSUME AppliesSound, UNCHANGED <<applies, stored>>
  PROVE  AppliesSound'
  <1>1. \A s \in Data!Slots : OnCourseNext(applies'[s])
    BY DEF AppliesSound, OnCourse, OnCourseNext
  <1>2. /\ applies' = [s \in Data!Slots |-> applies'[s]] /\ stored' = [k \in PKs |-> stored'[k]]
        /\ \A s \in Data!Slots : ApplyShape(applies'[s])
        /\ \A s, n \in Data!Slots :
             s # n /\ applies'[s].st # "none" /\ ~applies'[s].crossed => applies'[n].st = "none"
    BY DEF AppliesSound
  <1> QED BY <1>1, <1>2, AppliesNext

\* The click: the calls lead to what the screen shows.
LEMMA ApplyStarts ==
  ASSUME PagesLoaded, DraftSound, AppliesSound, Data!ApplyDraft
  PROVE  AppliesSound'
  <1>0. PICK s \in Data!Slots :
          /\ applies[s].st = "none"
          /\ LET crossed == \E n \in Data!Slots : applies[n].st # "none"
                 all == [n \in Data!Slots |-> [applies[n] EXCEPT !.crossed = @ \/ applies[n].st # "none"]]
                 r == [st |-> "sent", calls |-> Data!Calls, crossed |-> crossed, rekeyed |-> Data!Rekeyed,
                  shown |-> Data!Promised, kept |-> Data!UnderLoadedKeys]
             IN \/ UNCHANGED applies
                \/ Data!Calls # <<>> /\ applies' = [all EXCEPT ![s] = r]
    BY DEF Data!ApplyDraft
  <1>10. PICK crossed, all, q :
           /\ q = Data!Rekeyed
           /\ crossed = \E n \in Data!Slots : applies[n].st # "none"
           /\ all = [n \in Data!Slots |-> [applies[n] EXCEPT !.crossed = @ \/ applies[n].st # "none"]]
    OBVIOUS
  <1>11. PICK r : r = [st |-> "sent", calls |-> Data!Calls, crossed |-> crossed, rekeyed |-> q,
                  shown |-> Data!Promised, kept |-> Data!UnderLoadedKeys]
    OBVIOUS
  <1>12. \/ UNCHANGED applies
         \/ Data!Calls # <<>> /\ applies' = [all EXCEPT ![s] = r]
    BY <1>0, <1>10, <1>11, Zenon
  <1>1. /\ applies[s].st = "none"
        /\ crossed = \E n \in Data!Slots : applies[n].st # "none"
        /\ all = [n \in Data!Slots |-> [applies[n] EXCEPT !.crossed = @ \/ applies[n].st # "none"]]
        /\ r = [st |-> "sent", calls |-> Data!Calls, crossed |-> crossed, rekeyed |-> q,
                  shown |-> Data!Promised, kept |-> Data!UnderLoadedKeys]
    BY <1>0, <1>10, <1>11
  <1>2. stored' = stored
    BY DEF Data!ApplyDraft
  <1>3. CASE UNCHANGED applies
    BY <1>2, <1>3, AppliesKept
  <1>4. CASE Data!Calls # <<>> /\ applies' = [all EXCEPT ![s] = r]
    <2>1. PICK row, goal : row = Data!Calls /\ goal = Data!UnderLoadedKeys
      OBVIOUS
    <2>2. IsSequence(row) /\ Reaches(row, 1, stored, goal)
      BY <2>1, CallsKeepPromise, CallsOfDraft DEF LaidOut
    <2>3. Len(row) >= 1
      <3>1. PICK S : row \in Seq(S)
        BY <2>2 DEF IsSequence
      <3> QED BY <1>4, <2>1, <3>1
    <2>4. goal = [k \in PKs |-> goal[k]]
      <3>1. goal = [k \in PKs |-> KeptOf(k)]
        BY <2>1, KeptIsTable
      <3> QED BY <3>1
    <2>5. /\ r.st = "sent" /\ r.calls = row /\ r.crossed = crossed /\ r.kept = goal /\ crossed \in BOOLEAN
          /\ r \in [st : LoadState, calls : {r.calls}, crossed : BOOLEAN, rekeyed : {r.rekeyed}, shown : {r.shown},
                kept : {r.kept}]
      BY <1>1, <2>1 DEF LoadState
    <2>14. ~r.rekeyed => r.shown = r.kept
      <3>1. r.rekeyed = q /\ r.shown = Data!Promised /\ r.kept = Data!UnderLoadedKeys
        BY <1>1
      <3>2. ~q => Data!Promised = Data!UnderLoadedKeys
        BY <1>10, ShownAsKept, Zenon
      <3> QED BY <3>1, <3>2
    <2>6. ApplyShape(r)
      BY <2>2, <2>3, <2>4, <2>5, <2>14 DEF ApplyShape
    <2>7. OnCourseNext(r)
      BY <1>2, <2>2, <2>5 DEF OnCourseNext
    <2>8. \A n \in Data!Slots :
            /\ ApplyShape(all[n]) /\ all[n].st = applies[n].st /\ all[n].calls = applies[n].calls
            /\ all[n].kept = applies[n].kept
            /\ all[n].crossed = (applies[n].crossed \/ applies[n].st # "none")
      <3> SUFFICES ASSUME NEW n \in Data!Slots, NEW a, a = applies[n], NEW b, b = all[n]
                   PROVE  /\ ApplyShape(b) /\ b.st = a.st /\ b.calls = a.calls /\ b.kept = a.kept
                          /\ b.crossed = (a.crossed \/ a.st # "none")
        OBVIOUS
      <3>1. ApplyShape(a) /\ b = [a EXCEPT !.crossed = @ \/ a.st # "none"]
        BY <1>1 DEF AppliesSound
      <3>2. a \in [st : LoadState, calls : {a.calls}, crossed : BOOLEAN, rekeyed : {a.rekeyed}, shown : {a.shown},
                kept : {a.kept}]
        BY <3>1 DEF ApplyShape
      <3>3. /\ b.st = a.st /\ b.calls = a.calls /\ b.kept = a.kept
            /\ b.shown = a.shown /\ b.rekeyed = a.rekeyed
            /\ b.crossed = (a.crossed \/ a.st # "none")
            /\ b \in [st : LoadState, calls : {b.calls}, crossed : BOOLEAN, rekeyed : {b.rekeyed}, shown : {b.shown},
                kept : {b.kept}]
        BY <3>1, <3>2
      <3> QED BY <3>1, <3>3 DEF ApplyShape
    <2>9. /\ \A n \in Data!Slots : applies'[n] = IF n = s THEN r ELSE all[n]
          /\ applies' = [n \in Data!Slots |-> applies'[n]]
      BY <1>1, <1>4
    <2>10. \A n \in Data!Slots : ApplyShape(applies'[n])
      BY <2>6, <2>8, <2>9
    <2>11. ASSUME NEW n \in Data!Slots PROVE OnCourseNext(applies'[n])
      <3>1. CASE n = s
        BY <2>7, <2>9, <3>1
      <3>2. CASE n # s /\ applies[n].st # "none"
        <4>1. applies'[n].crossed
          BY <2>8, <2>9, <3>2
        <4> QED BY <4>1 DEF OnCourseNext
      <3>3. CASE n # s /\ applies[n].st = "none"
        <4>1. applies'[n].st = "none"
          BY <2>8, <2>9, <3>3
        <4> QED BY <4>1 DEF OnCourseNext
      <3> QED BY <3>1, <3>2, <3>3
    <2>12. ASSUME NEW n \in Data!Slots, NEW m \in Data!Slots, n # m, applies'[n].st # "none", ~applies'[n].crossed
           PROVE  applies'[m].st = "none"
      <3>1. n = s
        BY <2>8, <2>9, <2>12
      <3>2. ~crossed
        BY <2>5, <2>9, <2>12, <3>1
      <3>3. applies[m].st = "none"
        BY <1>1, <3>2
      <3> QED BY <2>8, <2>9, <2>12, <3>1, <3>3
    <2>13. stored' = [k \in PKs |-> stored'[k]]
      BY <1>2 DEF AppliesSound
    <2> QED BY <2>9, <2>10, <2>11, <2>12, <2>13, AppliesNext
  <1> QED BY <1>3, <1>4, <1>12

\* A call that the server grants is the next step on the way.
LEMMA ApplyServed ==
  ASSUME AppliesSound, NEW s \in Data!Slots, Data!Serve(s) \/ (Data!Fault(s) /\ UNCHANGED stored)
  PROVE  AppliesSound'
  <1>1. PICK a, c, b, e : /\ a = applies[s] /\ c = Head(a.calls) /\ b = [a EXCEPT !.st = "ok"]
                          /\ e = [a EXCEPT !.st = "error"]
    OBVIOUS
  <1>2. \/ UNCHANGED <<applies, stored>>
        \/ /\ a.st = "sent" /\ Data!Possible(c)
           /\ stored' = [stored EXCEPT ![c.k] = IF c.op = "delete" THEN Absent ELSE c.v]
           /\ applies' = [applies EXCEPT ![s] = b]
        \/ a.st \in {"sent", "ok"} /\ stored' = stored /\ applies' = [applies EXCEPT ![s] = e]
    <2>1. CASE Data!Serve(s)
      BY <1>1, <2>1 DEF Data!Serve
    <2>2. CASE Data!Fault(s) /\ UNCHANGED stored
      BY <1>1, <2>2 DEF Data!Fault
    <2> QED BY <2>1, <2>2
  <1>3. /\ ApplyShape(a) /\ OnCourse(a) /\ stored = [k \in PKs |-> stored[k]]
    BY <1>1 DEF AppliesSound
  <1>4. /\ b.st = "ok" /\ b.calls = a.calls /\ b.crossed = a.crossed /\ b.kept = a.kept
        /\ b.shown = a.shown /\ b.rekeyed = a.rekeyed /\ e.shown = a.shown /\ e.rekeyed = a.rekeyed
        /\ e.st = "error" /\ e.calls = a.calls /\ e.crossed = a.crossed /\ e.kept = a.kept
        /\ b \in [st : LoadState, calls : {b.calls}, crossed : BOOLEAN, rekeyed : {b.rekeyed}, shown : {b.shown},
                kept : {b.kept}]
        /\ e \in [st : LoadState, calls : {e.calls}, crossed : BOOLEAN, rekeyed : {e.rekeyed}, shown : {e.shown},
                kept : {e.kept}]
    BY <1>1, <1>3 DEF ApplyShape, LoadState
  <1>5. CASE /\ a.st = "sent" /\ Data!Possible(c)
             /\ stored' = [stored EXCEPT ![c.k] = IF c.op = "delete" THEN Absent ELSE c.v]
             /\ applies' = [applies EXCEPT ![s] = b]
    <2>1. IsSequence(a.calls) /\ Len(a.calls) >= 1
      BY <1>3, <1>5 DEF ApplyShape
    <2>2. c = a.calls[1] /\ c.k \in PKs
      <3>1. PICK S : a.calls \in Seq(S)
        BY <2>1 DEF IsSequence
      <3> QED BY <1>1, <1>5, <2>1, <3>1 DEF Data!Possible
    <2>3. stored' = [stored EXCEPT ![c.k] = Effect(c)]
      BY <1>5 DEF Effect
    <2>4. stored' = [k \in PKs |-> stored'[k]]
      BY <1>3, <2>3
    <2>5. ~a.crossed => Reaches(a.calls, 2, stored', a.kept)
      <3> SUFFICES ASSUME ~a.crossed PROVE Reaches(a.calls, 2, stored', a.kept)
        OBVIOUS
      <3>1. Reaches(a.calls, 1, stored, a.kept)
        BY <1>3, <1>5 DEF OnCourse
      <3>2. PICK row, goal, old, new : row = a.calls /\ goal = a.kept /\ old = stored /\ new = stored'
        OBVIOUS
      <3>3. Reaches(row, 2, new, goal)
        <4>1. /\ IsSequence(row) /\ Len(row) >= 1 /\ c = row[1] /\ c.k \in PKs
              /\ old = [k \in PKs |-> old[k]] /\ new = [old EXCEPT ![c.k] = Effect(c)] /\ Reaches(row, 1, old, goal)
          BY <1>3, <2>1, <2>2, <2>3, <3>1, <3>2
        <4> QED BY <4>1, ReachesNext
      <3> QED BY <3>2, <3>3
    <2>6. ApplyShape(b)
      BY <1>3, <1>4, <1>5 DEF ApplyShape
    <2>7. OnCourseNext(b)
      BY <1>4, <2>5 DEF OnCourseNext
    <2> QED BY <1>1, <1>4, <1>5, <2>4, <2>6, <2>7, OneApply
  <1>6. CASE a.st \in {"sent", "ok"} /\ stored' = stored /\ applies' = [applies EXCEPT ![s] = e]
    <2>1. ApplyShape(e)
      BY <1>3, <1>4, <1>6 DEF ApplyShape
    <2>2. OnCourseNext(e)
      BY <1>4 DEF OnCourseNext
    <2>3. stored' = [k \in PKs |-> stored'[k]]
      BY <1>3, <1>6
    <2> QED BY <1>1, <1>4, <1>6, <2>1, <2>2, <2>3, OneApply
  <1> QED BY <1>2, <1>5, <1>6, AppliesKept

\* An apply goes on with its next call, or ends.
LEMMA ApplyMoves ==
  ASSUME AppliesSound, NEW s \in Data!Slots,
         Data!ApplyGoesOn(s) \/ Data!Applied(s) \/ Data!ApplyFails(s)
  PROVE  AppliesSound'
  <1>1. stored' = stored /\ stored' = [k \in PKs |-> stored'[k]]
    BY DEF AppliesSound, Data!ApplyGoesOn, Data!Applied, Data!ApplyFails
  <1>2. CASE Data!Applied(s) \/ Data!ApplyFails(s)
    <2>1. applies' = [applies EXCEPT ![s] = Data!NoApply]
      BY <1>2 DEF Data!Applied, Data!ApplyFails
    <2>2. PICK r : r = Data!NoApply
      OBVIOUS
    <2>3. ApplyShape(r) /\ r.st = "none" /\ OnCourseNext(r)
      BY <2>2, NothingApplied DEF OnCourseNext
    <2> QED BY <1>1, <2>1, <2>2, <2>3, OneApply
  <1>3. CASE Data!ApplyGoesOn(s)
    <2>1. PICK a, rest, b : a = applies[s] /\ rest = Tail(a.calls) /\ b = [a EXCEPT !.st = "sent", !.calls = rest]
      OBVIOUS
    <2>2. a.st = "ok" /\ Len(a.calls) > 1 /\ applies' = [applies EXCEPT ![s] = b]
      BY <1>3, <2>1 DEF Data!ApplyGoesOn
    <2>3. /\ ApplyShape(a) /\ OnCourse(a)
      BY <2>1 DEF AppliesSound
    <2>4. /\ b.st = "sent" /\ b.calls = rest /\ b.crossed = a.crossed /\ b.kept = a.kept
          /\ b.shown = a.shown /\ b.rekeyed = a.rekeyed
          /\ b \in [st : LoadState, calls : {b.calls}, crossed : BOOLEAN, rekeyed : {b.rekeyed}, shown : {b.shown},
                kept : {b.kept}]
      BY <2>1, <2>3 DEF ApplyShape, LoadState
    <2>5. IsSequence(a.calls) /\ a.kept = [k \in PKs |-> a.kept[k]] /\ (~a.rekeyed => a.shown = a.kept)
      BY <2>2, <2>3 DEF ApplyShape
    <2>6. IsSequence(rest) /\ Len(rest) >= 1 /\ Len(a.calls) >= 1
      <3>1. PICK S : a.calls \in Seq(S)
        BY <2>5 DEF IsSequence
      <3>2. PICK row : row = a.calls /\ row \in Seq(S) /\ Len(row) > 1
        BY <2>2, <3>1
      <3>3. row # <<>>
        BY <3>2
      <3>4. Tail(row) \in Seq(S) /\ Len(Tail(row)) = Len(row) - 1 /\ Len(row) \in Nat
        BY <3>2, <3>3
      <3> QED BY <2>1, <3>2, <3>4 DEF IsSequence
    <2>7. ~a.crossed => Reaches(rest, 1, stored', a.kept)
      <3> SUFFICES ASSUME ~a.crossed PROVE Reaches(rest, 1, stored', a.kept)
        OBVIOUS
      <3>1. PICK row, goal, old : row = a.calls /\ goal = a.kept /\ old = stored
        OBVIOUS
      <3>2. /\ IsSequence(row) /\ Len(row) >= 1 /\ Reaches(row, 2, old, goal) /\ rest = Tail(row)
        BY <2>1, <2>2, <2>3, <2>5, <2>6, <3>1 DEF OnCourse
      <3>3. Reaches(rest, 1, old, goal)
        BY <3>2, ReachesTail
      <3> QED BY <1>1, <3>1, <3>3
    <2>8. ApplyShape(b)
      BY <2>4, <2>5, <2>6 DEF ApplyShape
    <2>9. OnCourseNext(b)
      BY <2>4, <2>7 DEF OnCourseNext
    <2>10. applies[s].st # "none" /\ b.crossed = applies[s].crossed
      BY <2>1, <2>2, <2>4
    <2> QED BY <1>1, <2>2, <2>8, <2>9, <2>10, OneApply
  <1> QED BY <1>2, <1>3

LEMMA ApplyInit == ASSUME Data!Init PROVE AppliesSound
  <1>1. /\ applies = [s \in Data!Slots |-> Data!NoApply] /\ stored \in [PKs -> Vals]
    BY DEF Data!Init
  <1>2. \A s \in Data!Slots : ApplyShape(applies[s]) /\ applies[s].st = "none"
    BY <1>1, NothingApplied
  <1>3. \A s \in Data!Slots : OnCourse(applies[s])
    BY <1>2 DEF OnCourse
  <1> QED BY <1>1, <1>2, <1>3 DEF AppliesSound

LEMMA ApplyStep ==
  ASSUME PagesLoaded, DraftSound, AppliesSound, Data!Next
  PROVE  AppliesSound'
  <1>1. CASE \E n \in 1..(PageSize + MaxEvents) :
               \/ \E k \in PKs \cup {Null} : Data!UpdateCell(n, "k", k)
               \/ \E v \in Vals \cup {Null} : Data!UpdateCell(n, "v", v)
               \/ Data!SelectRow(n)
    <2>1. UNCHANGED <<applies, stored>>
      BY <1>1 DEF Data!UpdateCell, Data!SelectRow
    <2> QED BY <2>1, AppliesKept
  <1>2. CASE Data!AddRow \/ Data!DeleteSelectedRow \/ Data!Discard
    <2>1. UNCHANGED <<applies, stored>>
      BY <1>2 DEF Data!AddRow, Data!DeleteSelectedRow, Data!Discard
    <2> QED BY <2>1, AppliesKept
  <1>3. CASE (\E q \in Data!Queries : Data!Turn(q)) \/ \E only \in Vals \cup {Absent} : Data!ApplyFilters(only)
    <2>1. UNCHANGED <<applies, stored>>
      BY <1>3 DEF Data!Turn, Data!ApplyFilters
    <2> QED BY <2>1, AppliesKept
  <1>4. CASE \E s \in Data!Slots : Data!Loaded(s) \/ Data!LoadFails(s)
    <2>1. UNCHANGED <<applies, stored>>
      BY <1>4 DEF Data!Loaded, Data!LoadFails
    <2> QED BY <2>1, AppliesKept
  <1>5. CASE Data!ServerStep
    <2>1. PICK s \in Data!Slots : Data!Serve(s) \/ (Data!Fault(s) /\ UNCHANGED stored)
      BY <1>5 DEF Data!ServerStep
    <2> QED BY <2>1, ApplyServed
  <1> QED BY <1>1, <1>2, <1>3, <1>4, <1>5, ApplyStarts, ApplyMoves, Zenon DEF Data!Next

\* Where the data view is shown, its page, its draft and its applies are in order.
ApplyShown == page = "data" => ApplyInv

LEMMA ApplyAlways == PagesSpec => []ApplyShown
  <1>1. PagesInit => ApplyShown
    <2> SUFFICES ASSUME PagesInit, Data!Init PROVE ApplyInv
      BY DEF PagesInit, ApplyShown
    <2>1. draft = Data!EmptyDraft
      BY DEF Data!Init
    <2>2. DraftSound
      BY <2>1, NothingSound DEF DraftSound
    <2> QED BY <2>2, ApplyInit, PagesInitial DEF ApplyInv
  <1>2. DataShown /\ DataShown' /\ ApplyShown /\ [PagesNext]_<<pageVars, viewVars, page>> => ApplyShown'
    <2> SUFFICES ASSUME DataInv, DataInv', PagesLoaded, DraftSound, AppliesSound, page = "data",
                        [PagesNext]_<<pageVars, viewVars, page>>
                 PROVE  ApplyInv'
      BY OnePageMoves DEF DataShown, ApplyShown, ApplyInv
    <2>1. CASE UNCHANGED dataVars
      <3>1. PagesLoaded'
        BY <2>1 DEF PagesLoaded, dataVars, LoadsTyped, ReloadShape, IsSequence, Data!Slots, Data!Queries, LoadState
      <3>2. DraftSound'
        BY <2>1 DEF DraftSound, SoundDraft, DraftShape, IsSequence, dataVars
      <3>3. AppliesSound'
        BY <2>1, AppliesKept DEF dataVars
      <3> QED BY <3>1, <3>2, <3>3 DEF ApplyInv
    <2>2. CASE Data!Next
      <3>1. PagesLoaded' /\ DraftSound' /\ AppliesSound'
        BY <2>2, PagesStay, DraftStays, ApplyStep
      <3> QED BY <3>1 DEF ApplyInv
    <2> QED BY <2>1, <2>2, OnePageMoves
  <1> QED BY <1>1, <1>2, DataAlways, PTL DEF PagesSpec

\* When the last call of an apply has succeeded, the table is what the screen showed at
\* the click, every other row as it was, for any table, page size and draft and whatever
\* calls fail, unless two applies were under way together (TableView.tsx 93-115 and
\* 191-212).  Where a key cell of a loaded row was edited, which is shown but never sent
\* (tableMutations.ts 54), the other cells of that row are under the key it was loaded
\* with and nothing else is touched: that key alone is lost.
THEOREM AppliesAsShown == PagesSpec => []AppliedIsWhatWasShown
  <1>1. ApplyShown => AppliedIsWhatWasShown
    <2> SUFFICES ASSUME ApplyInv, NEW s \in Data!Slots, applies[s].st = "ok", Len(applies[s].calls) = 1,
                        ~applies[s].crossed
                 PROVE  /\ stored = applies[s].kept
                        /\ ~applies[s].rekeyed => stored = applies[s].shown
      BY DEF ApplyShown, AppliedIsWhatWasShown, Data!AppliedIsWhatWasShown
    <2>1. PICK row, goal, old : row = applies[s].calls /\ goal = applies[s].kept /\ old = stored
      OBVIOUS
    <2>2. ApplyShape(applies[s]) /\ OnCourse(applies[s]) /\ old = [k \in PKs |-> old[k]]
      BY <2>1 DEF ApplyInv, AppliesSound
    <2>3. Reaches(row, 2, old, goal) /\ goal = [k \in PKs |-> goal[k]] /\ Len(row) = 1
      BY <2>1, <2>2 DEF ApplyShape, OnCourse
    <2>4. old = goal
      BY <2>2, <2>3, ReachesEnd
    <2>5. ~applies[s].rekeyed => applies[s].shown = applies[s].kept
      BY <2>2 DEF ApplyShape
    <2> QED BY <2>1, <2>4, <2>5
  <1> QED BY <1>1, ApplyAlways, PTL

-----------------------------------------------------------------------------
(* The key browser. A list that no other load crossed holds what the scan  *)
(* has passed; the tree of a list files every key once, by induction over  *)
(* the list.                                                               *)

\* A list without repetition, and what it holds.
Once(s) == IsSequence(s) /\ \A i, j \in 1..Len(s) : s[i] = s[j] => i = j
Has(s, x) == \E i \in 1..Len(s) : s[i] = x
Lists(ks, S) == Once(ks) /\ \A k : k \in S <=> Has(ks, k)

Size(d) == Len(Keyspace[d])

\* The keys of database d that pattern m matches, at the places from a to b.
Found(d, m, a, b) == {k \in Matching[m] : \E i \in a..b : i \in DOMAIN Keyspace[d] /\ Keyspace[d][i] = k}

\* How far a scan has come that goes on at cursor c.
Upto(d, c) == IF c = 0 THEN Size(d) ELSE c

\* The page that was served is the next one.
Page(d, m, l) ==
  \E end \in l.cursor..Size(d) : /\ Lists(l.page, Found(d, m, l.cursor + 1, end))
                                 /\ l.next \in Nat /\ Upto(d, l.next) = end

\* The list holds what the scan has passed.
ReadUpto(d, m, ks, c) == c \in 0..Size(d) /\ Lists(ks, Found(d, m, 1, c))

ScanShape(l) ==
  l \in [id : {l.id}, match : {l.match}, cursor : {l.cursor}, append : BOOLEAN, served : BOOLEAN,
         page : {l.page}, next : {l.next}]

\* A load that no other crossed goes on where the list ends, or begins anew.
InLine(d, m, ks, c, l) ==
  /\ ScanShape(l) /\ l.match = m
  /\ l.append => c # 0 /\ l.cursor = c /\ ReadUpto(d, m, ks, c)
  /\ ~l.append => l.cursor = 0
  /\ l.served => Page(d, m, l)

KeysInv ==
  /\ db \in DOMAIN Keyspace /\ mixed \in BOOLEAN
  /\ \A l \in scans : ScanShape(l)
  /\ ~mixed => /\ \A l, o \in scans : l = o
               /\ \A l \in scans : InLine(db, match, keys, cursor, l)
               /\ scans = {} => ReadUpto(db, match, keys, Upto(db, cursor))

\* What holds for 0, and with a number for the next one, holds up to m.
LEMMA CountUp ==
  ASSUME NEW m \in Nat, NEW S, 0 \in S, \A n \in 0..m : n < m /\ n \in S => n + 1 \in S
  PROVE  \A n \in 0..m : n \in S
  <1> SUFFICES ASSUME NEW T, T = {n \in 0..m : n \notin S}, T # {} PROVE FALSE
    OBVIOUS
  <1>1. T \subseteq Nat
    OBVIOUS
  <1>2. PICK x \in T : \A y \in T : x <= y
    BY <1>1, LeastNumber
  <1>3. x \in 0..m /\ x \notin S /\ x # 0 /\ x \in Nat
    OBVIOUS
  <1>4. x - 1 \in 0..m /\ x - 1 < m /\ ~(x <= x - 1) /\ (x - 1) + 1 = x
    BY <1>3
  <1>5. x - 1 \in S
    BY <1>2, <1>4
  <1>6. (x - 1) + 1 \in S
    BY <1>4, <1>5
  <1> QED BY <1>3, <1>4, <1>6

KeyNames == Seq(Nat) \ {<<>>}

LEMMA SameParts ==
  ASSUME NEW s \in Seq(Nat), NEW t \in Seq(Nat), Len(s) = Len(t), \A i \in 1..Len(s) : s[i] = t[i]
  PROVE  s = t
  <1>1. PICK n \in Nat : n = Len(s)
    OBVIOUS
  <1>2. s \in [1..n -> Nat] /\ t \in [1..n -> Nat]
    BY <1>1
  <1>3. \A i \in 1..n : s[i] = t[i]
    BY <1>1
  <1> QED BY ONLY <1>2, <1>3

\* The folder a key lies in.
LEMMA FolderOfKey ==
  ASSUME NEW k \in KeyNames
  PROVE  /\ Len(k) \in Nat /\ Len(k) >= 1 /\ Browser!Folder(k) \in Seq(Nat)
         /\ Len(Browser!Folder(k)) = Len(k) - 1
         /\ \A i \in 1..(Len(k) - 1) : Browser!Folder(k)[i] = k[i]
         /\ Browser!Folder(k) = <<>> \/ Browser!Folder(k) \in Browser!FolderPathForKey(k)
         /\ Browser!FolderPathForKey(k) \subseteq Seq(Nat)
  <1>1. k \in Seq(Nat) /\ k # <<>> /\ Len(k) \in Nat
    BY DEF KeyNames
  <1>2. Len(k) >= 1
    BY <1>1
  <1>3. PICK m \in Nat : m = Len(k) - 1
    BY <1>1, <1>2
  <1>4. PICK f : f = SubSeq(k, 1, m)
    OBVIOUS
  <1>5. f \in Seq(Nat) /\ Len(f) = m /\ \A i \in 1..m : f[i] = k[i]
    BY <1>1, <1>3, <1>4
  <1>6. Browser!Folder(k) = f
    BY <1>3, <1>4, Zenon DEF Browser!Folder
  <1>7. f = <<>> \/ f \in Browser!FolderPathForKey(k)
    <2>1. CASE m = 0
      BY <1>5, <2>1
    <2>2. CASE m # 0
      <3>1. m \in 1..(Len(k) - 1)
        BY <1>1, <1>3, <2>2
      <3> QED BY <1>4, <3>1 DEF Browser!FolderPathForKey
    <2> QED BY <2>1, <2>2
  <1>8. Browser!FolderPathForKey(k) \subseteq Seq(Nat)
    <2> SUFFICES ASSUME NEW i \in 1..(Len(k) - 1) PROVE SubSeq(k, 1, i) \in Seq(Nat)
      BY DEF Browser!FolderPathForKey
    <2> QED BY <1>1
  <1> QED BY <1>1, <1>2, <1>3, <1>5, <1>6, <1>7, <1>8

\* To lie under a folder is to begin with its parts.
LEMMA UnderFolder ==
  ASSUME NEW p \in Seq(Nat), NEW s \in Seq(Nat)
  PROVE  Browser!Under(p, s) <=> Len(p) <= Len(s) /\ \A i \in 1..Len(p) : s[i] = p[i]
  <1>1. Len(p) \in Nat /\ Len(s) \in Nat
    OBVIOUS
  <1>2. ASSUME Len(p) <= Len(s)
        PROVE  SubSeq(s, 1, Len(p)) = p <=> \A i \in 1..Len(p) : s[i] = p[i]
    <2>1. PICK f : f = SubSeq(s, 1, Len(p))
      OBVIOUS
    <2>2. f \in Seq(Nat) /\ Len(f) = Len(p) /\ \A i \in 1..Len(p) : f[i] = s[i]
      BY <1>1, <1>2, <2>1
    <2>3. ASSUME \A i \in 1..Len(p) : s[i] = p[i] PROVE f = p
      <3>1. Len(f) = Len(p) /\ \A i \in 1..Len(f) : f[i] = p[i]
        BY <2>2, <2>3, Zenon
      <3> QED BY ONLY <2>2, <3>1, p \in Seq(Nat), SameParts
    <2>4. ASSUME f = p PROVE \A i \in 1..Len(p) : s[i] = p[i]
      BY <2>2, <2>4
    <2> QED BY <2>1, <2>3, <2>4
  <1> QED BY <1>2, Zenon DEF Browser!Under

\* A key lies under a folder when its own folder does, or is that one.
LEMMA KeyUnderFolder ==
  ASSUME NEW p \in Seq(Nat), NEW k \in KeyNames
  PROVE  Browser!Under(p, Browser!Folder(k)) <=> Browser!Under(p, k) /\ k # p
  <1>1. PICK f : f = Browser!Folder(k)
    OBVIOUS
  <1>2. /\ Len(k) \in Nat /\ Len(k) >= 1 /\ f \in Seq(Nat) /\ Len(f) = Len(k) - 1
        /\ \A i \in 1..(Len(k) - 1) : f[i] = k[i]
    BY <1>1, FolderOfKey
  <1>3. k \in Seq(Nat) /\ Len(p) \in Nat
    BY DEF KeyNames
  <1>4. Browser!Under(p, f) <=> Len(p) <= Len(f) /\ \A i \in 1..Len(p) : f[i] = p[i]
    BY <1>2, UnderFolder
  <1>5. Browser!Under(p, k) <=> Len(p) <= Len(k) /\ \A i \in 1..Len(p) : k[i] = p[i]
    BY <1>3, UnderFolder
  <1>6. ASSUME Browser!Under(p, f) PROVE Browser!Under(p, k) /\ k # p
    <2>1. Len(p) <= Len(k) /\ Len(p) # Len(k)
      BY <1>2, <1>3, <1>4, <1>6
    <2>2. \A i \in 1..Len(p) : i \in 1..(Len(k) - 1)
      BY <1>2, <1>3, <1>4, <1>6
    <2>3. \A i \in 1..Len(p) : k[i] = p[i]
      BY <1>2, <1>4, <1>6, <2>2
    <2> QED BY <1>5, <2>1, <2>3
  <1>7. ASSUME Browser!Under(p, k), k # p PROVE Browser!Under(p, f)
    <2>1. Len(p) # Len(k)
      <3> SUFFICES ASSUME Len(p) = Len(k) PROVE FALSE
        OBVIOUS
      <3>1. \A i \in 1..Len(k) : k[i] = p[i]
        BY <1>5, <1>7
      <3>2. k = p
        BY <1>3, <3>1, SameParts
      <3> QED BY <1>7, <3>2
    <2>2. Len(p) <= Len(f)
      BY <1>2, <1>3, <1>5, <1>7, <2>1
    <2>3. \A i \in 1..Len(p) : i \in 1..(Len(k) - 1)
      BY <1>2, <1>3, <2>2
    <2>4. \A i \in 1..Len(p) : f[i] = p[i]
      BY <1>2, <1>5, <1>7, <2>3
    <2> QED BY <1>4, <2>2, <2>4
  <1> QED BY <1>1, <1>6, <1>7

-----------------------------------------------------------------------------

Root == [p \in {<<>>} |-> <<>>]

\* The trees that the loop over ks passes through.
Grows(f, ks, m) == f = [n \in 0..m |-> IF n = 0 THEN Root ELSE Browser!InsertKey(f[n - 1], ks[n])]

\* The loop over the first m keys makes a tree.
LEMMA LoopEnds ==
  ASSUME NEW ks, NEW m \in Nat
  PROVE  \E f : Grows(f, ks, m)
  <1> DEFINE S == {n \in 0..m : \E f : Grows(f, ks, n)}
  <1>1. 0 \in S
    <2>1. PICK f : f = [n \in 0..0 |-> Root]
      OBVIOUS
    <2>2. f = [n \in 0..0 |-> IF n = 0 THEN Root ELSE Browser!InsertKey(f[n - 1], ks[n])]
      BY <2>1
    <2>3. Grows(f, ks, 0)
      BY <2>2, Zenon DEF Grows
    <2> QED BY <2>3
  <1>2. ASSUME NEW n \in 0..m, n < m, n \in S PROVE n + 1 \in S
    <2>1. PICK f : Grows(f, ks, n)
      BY <1>2
    <2>2. PICK g : g = [i \in 0..(n + 1) |-> IF i = n + 1 THEN Browser!InsertKey(f[n], ks[n + 1]) ELSE f[i]]
      OBVIOUS
    <2>3. \A i \in 0..(n + 1) : g[i] = IF i = 0 THEN Root ELSE Browser!InsertKey(g[i - 1], ks[i])
      <3> SUFFICES ASSUME NEW i \in 0..(n + 1)
                   PROVE  g[i] = IF i = 0 THEN Root ELSE Browser!InsertKey(g[i - 1], ks[i])
        OBVIOUS
      <3>1. CASE i = n + 1
        <4>1. i # 0 /\ i - 1 = n /\ n \in 0..(n + 1) /\ n # n + 1
          BY <3>1
        <4>2. g[i] = Browser!InsertKey(f[n], ks[n + 1]) /\ g[n] = f[n]
          BY <2>2, <3>1, <4>1
        <4> QED BY <3>1, <4>1, <4>2
      <3>2. CASE i # n + 1
        <4>1. i \in 0..n /\ (i # 0 => i - 1 \in 0..(n + 1) /\ i - 1 # n + 1)
          BY <3>2
        <4>2. g[i] = f[i] /\ (i # 0 => g[i - 1] = f[i - 1])
          BY <2>2, <3>2, <4>1
        <4>3. f[i] = IF i = 0 THEN Root ELSE Browser!InsertKey(f[i - 1], ks[i])
          BY <2>1, <4>1 DEF Grows
        <4> QED BY <4>2, <4>3
      <3> QED BY <3>1, <3>2
    <2>4. Grows(g, ks, n + 1)
      <3>1. g = [i \in 0..(n + 1) |-> g[i]]
        BY <2>2
      <3> QED BY <2>3, <3>1 DEF Grows
    <2>5. n + 1 \in 0..m
      BY <1>2
    <2> QED BY <2>4, <2>5
  <1>3. \A n \in 0..m : n \in S
    <2> HIDE DEF S
    <2> QED BY <1>1, <1>2, CountUp
  <1> QED BY <1>3

LEMMA TreeOfLoop ==
  ASSUME NEW ks, Len(ks) \in Nat
  PROVE  \E f : Grows(f, ks, Len(ks)) /\ Browser!BuildRedisKeyTree(ks) = f[Len(ks)]
  <1>1. PICK m \in Nat : m = Len(ks)
    OBVIOUS
  <1> DEFINE F == CHOOSE f : Grows(f, ks, m)
  <1>2. Grows(F, ks, m)
    BY <1>1, LoopEnds, Zenon
  <1>3. Browser!BuildRedisKeyTree(ks) = F[m]
    BY <1>1 DEF Browser!BuildRedisKeyTree, Browser!Loop, Grows, Root
  <1> QED BY <1>1, <1>2, <1>3
\* The tree of the first n keys: a folder for each that one of them lies in, and in it
\* the keys that lie directly there, each once.
TreeOf(t, ks, n) ==
  /\ \A p : p \in DOMAIN t <=> p = <<>> \/ \E i \in 1..n : p \in Browser!FolderPathForKey(ks[i])
  /\ \A p \in DOMAIN t : Once(t[p])
  /\ \A p \in DOMAIN t : \A k : Has(t[p], k) <=> \E i \in 1..n : ks[i] = k /\ Browser!Folder(k) = p

LEMMA EmptyHasNone == Once(<<>>) /\ \A x : ~Has(<<>>, x)
  <1>1. <<>> \in Seq({}) /\ 1..Len(<<>>) = {}
    OBVIOUS
  <1>2. IsSequence(<<>>)
    BY <1>1 DEF IsSequence
  <1> QED BY <1>1, <1>2, Zenon DEF Once, Has

LEMMA RootIsTree == ASSUME NEW ks PROVE TreeOf(Root, ks, 0)
  <1>1. DOMAIN Root = {<<>>} /\ Root[<<>>] = <<>>
    BY DEF Root
  <1>2. 1..0 = {}
    OBVIOUS
  <1>3. \A p : p \in DOMAIN Root <=> p = <<>> \/ \E i \in 1..0 : p \in Browser!FolderPathForKey(ks[i])
    BY <1>1, <1>2
  <1>4. \A p \in DOMAIN Root : Root[p] = <<>>
    BY <1>1
  <1>5. \A p \in DOMAIN Root : Once(Root[p])
    BY <1>4, EmptyHasNone, Zenon
  <1>6. \A p \in DOMAIN Root : \A k : Has(Root[p], k) <=> \E i \in 1..0 : ks[i] = k /\ Browser!Folder(k) = p
    BY <1>2, <1>4, EmptyHasNone, Zenon
  <1> QED BY <1>3, <1>5, <1>6 DEF TreeOf

\* Two lists without repetition and with nothing in common, one after the other.
LEMMA JoinOnce ==
  ASSUME NEW s, NEW o, Once(s), Once(o), \A x : ~(Has(s, x) /\ Has(o, x))
  PROVE  Once(s \o o) /\ \A x : Has(s \o o, x) <=> Has(s, x) \/ Has(o, x)
  <1>1. IsSequence(s) /\ IsSequence(o)
    BY DEF Once
  <1>2. PICK t : t = s \o o
    OBVIOUS
  <1>3. /\ IsSequence(s \o o) /\ Len(s) \in Nat /\ Len(o) \in Nat /\ Len(s \o o) = Len(s) + Len(o)
        /\ \A i \in 1..Len(s) : (s \o o)[i] = s[i]
        /\ \A i \in 1..Len(o) : (s \o o)[Len(s) + i] = o[i]
    BY ONLY <1>1, JoinIsSequence
  <1>4. PICK m \in Nat, n \in Nat : m = Len(s) /\ n = Len(o)
    BY <1>3
  <1>5. IsSequence(t) /\ Len(t) = m + n
    BY <1>2, <1>3, <1>4
  <1>6. (\A i \in 1..m : t[i] = s[i]) /\ \A i \in 1..n : t[m + i] = o[i]
    BY <1>2, <1>3, <1>4, Zenon
  <1>7. \A i, j \in 1..m : s[i] = s[j] => i = j
    BY <1>4, Zenon DEF Once
  <1>8. \A i, j \in 1..n : o[i] = o[j] => i = j
    BY <1>4, Zenon DEF Once
  <1>9. \A i \in 1..m : \A j \in 1..n : s[i] # o[j]
    BY <1>4, Zenon DEF Has
  <1>10. \A i \in 1..(m + n) : i \in 1..m \/ \E j \in 1..n : i = m + j
    <2> SUFFICES ASSUME NEW i \in 1..(m + n), i \notin 1..m PROVE \E j \in 1..n : i = m + j
      OBVIOUS
    <2>1. i - m \in 1..n /\ i = m + (i - m)
      OBVIOUS
    <2> QED BY <2>1
  <1>11. \A i \in 1..m : i \in 1..(m + n)
    OBVIOUS
  <1>12. \A j \in 1..n : m + j \in 1..(m + n)
    OBVIOUS
  <1>13. ASSUME NEW i \in 1..Len(t), NEW j \in 1..Len(t), t[i] = t[j] PROVE i = j
    <2>1. i \in 1..(m + n) /\ j \in 1..(m + n)
      BY <1>5
    <2>2. CASE i \in 1..m /\ j \in 1..m
      BY <1>6, <1>7, <1>13, <2>2, Zenon
    <2>3. ASSUME NEW a \in 1..n, j = m + a, i \in 1..m PROVE FALSE
      BY <1>6, <1>9, <1>13, <2>3, Zenon
    <2>4. ASSUME NEW a \in 1..n, i = m + a, j \in 1..m PROVE FALSE
      BY <1>6, <1>9, <1>13, <2>4, Zenon
    <2>5. ASSUME NEW a \in 1..n, i = m + a, NEW b \in 1..n, j = m + b PROVE i = j
      <3>1. t[i] = o[a] /\ t[j] = o[b]
        BY <1>6, <2>5, Zenon
      <3> QED BY <1>8, <1>13, <2>5, <3>1, Zenon
    <2> QED BY <1>10, <2>1, <2>2, <2>3, <2>4, <2>5, Zenon
  <1>14. ASSUME NEW x PROVE Has(t, x) <=> Has(s, x) \/ Has(o, x)
    <2>1. Has(t, x) <=> \E i \in 1..(m + n) : t[i] = x
      BY <1>5, Zenon DEF Has
    <2>2. Has(s, x) <=> \E i \in 1..m : s[i] = x
      BY <1>4, Zenon DEF Has
    <2>3. Has(o, x) <=> \E i \in 1..n : o[i] = x
      BY <1>4, Zenon DEF Has
    <2> QED BY <1>6, <1>10, <1>11, <1>12, <2>1, <2>2, <2>3, Zenon
  <1>15. Once(t)
    BY <1>5, <1>13, Zenon DEF Once
  <1> QED BY <1>2, <1>14, <1>15, Zenon

LEMMA OneHasOne == ASSUME NEW k PROVE Once(<<k>>) /\ \A x : Has(<<k>>, x) <=> x = k
  <1>1. PICK o : o = <<k>>
    OBVIOUS
  <1>2. IsSequence(o) /\ Len(o) = 1 /\ o[1] = k
    BY <1>1, OneIsSequence
  <1>3. 1..Len(o) = {1}
    BY <1>2
  <1>4. Once(o) /\ \A x : Has(o, x) <=> x = k
    BY <1>2, <1>3, Zenon DEF Once, Has
  <1> QED BY <1>1, <1>4, Zenon

\* One more key goes into its folder, and the folders on the way are there.
LEMMA InsertGrows ==
  ASSUME NEW ks, NEW n \in Nat, NEW t, TreeOf(t, ks, n), NEW k \in KeyNames, k = ks[n + 1],
         \A i \in 1..n : ks[i] # k /\ ks[i] \in KeyNames
  PROVE  TreeOf(Browser!InsertKey(t, k), ks, n + 1)
  <1>1. PICK f, path, new : f = Browser!Folder(k) /\ path = Browser!FolderPathForKey(k) /\ new = Browser!InsertKey(t, k)
    OBVIOUS
  <1> DEFINE old(p) == IF p \in DOMAIN t THEN t[p] ELSE <<>>
             add(p) == IF p = f THEN <<k>> ELSE <<>>
  <1>2. new = [p \in DOMAIN t \cup path |-> old(p) \o add(p)]
    BY <1>1, Zenon DEF Browser!InsertKey
  <1>3. \A p : p \in DOMAIN t <=> p = <<>> \/ \E i \in 1..n : p \in Browser!FolderPathForKey(ks[i])
    BY DEF TreeOf
  <1>4. \A p \in DOMAIN t : Once(t[p]) /\ \A x : Has(t[p], x) <=> \E i \in 1..n : ks[i] = x /\ Browser!Folder(x) = p
    BY DEF TreeOf
  <1>5. \A i \in 1..(n + 1) : i \in 1..n \/ i = n + 1
    OBVIOUS
  <1>6. n + 1 \in 1..(n + 1) /\ \A i \in 1..n : i \in 1..(n + 1)
    OBVIOUS
  <1>7. DOMAIN new = DOMAIN t \cup path /\ \A p \in DOMAIN new : new[p] = old(p) \o add(p)
    <2> HIDE DEF old, add
    <2> QED BY <1>2
  <1>8. ASSUME NEW p
        PROVE  p \in DOMAIN new <=> p = <<>> \/ \E i \in 1..(n + 1) : p \in Browser!FolderPathForKey(ks[i])
    <2> HIDE DEF old, add
    <2>1. p \in DOMAIN new <=> p \in DOMAIN t \/ p \in path
      BY <1>7
    <2>2. p \in path <=> p \in Browser!FolderPathForKey(ks[n + 1])
      BY <1>1
    <2>3. (\E i \in 1..(n + 1) : p \in Browser!FolderPathForKey(ks[i])) <=>
            (\E i \in 1..n : p \in Browser!FolderPathForKey(ks[i])) \/ p \in Browser!FolderPathForKey(ks[n + 1])
      BY <1>5, <1>6, Zenon
    <2> QED BY <1>3, <2>1, <2>2, <2>3, Zenon
  <1>9. ASSUME NEW p \in DOMAIN new
        PROVE  Once(old(p)) /\ \A x : Has(old(p), x) <=> \E i \in 1..n : ks[i] = x /\ Browser!Folder(x) = p
    <2>1. CASE p \in DOMAIN t
      BY <1>4, <2>1, Zenon
    <2>2. CASE p \notin DOMAIN t
      <3>1. Once(old(p)) /\ \A x : ~Has(old(p), x)
        BY <2>2, EmptyHasNone, Zenon
      <3>2. ASSUME NEW i \in 1..n, Browser!Folder(ks[i]) = p PROVE FALSE
        <4>1. p = <<>> \/ p \in Browser!FolderPathForKey(ks[i])
          BY <3>2, FolderOfKey
        <4> QED BY <1>3, <2>2, <4>1
      <3> HIDE DEF old
      <3> QED BY <3>1, <3>2, Zenon
    <2> QED BY <2>1, <2>2
  <1>10. ASSUME NEW p PROVE Once(add(p)) /\ \A x : Has(add(p), x) <=> x = k /\ Browser!Folder(x) = p
    <2>1. CASE p = f
      BY <1>1, <2>1, OneHasOne, Zenon
    <2>2. CASE p # f
      BY <1>1, <2>2, EmptyHasNone, Zenon
    <2> QED BY <2>1, <2>2
  <1> HIDE DEF old, add
  <1>11. ASSUME NEW p \in DOMAIN new
         PROVE  Once(new[p]) /\ \A x : Has(new[p], x) <=> \E i \in 1..(n + 1) : ks[i] = x /\ Browser!Folder(x) = p
    <2>1. \A x : ~(Has(old(p), x) /\ Has(add(p), x))
      BY <1>9, <1>10, Zenon
    <2>2. Once(old(p) \o add(p)) /\ \A x : Has(old(p) \o add(p), x) <=> Has(old(p), x) \/ Has(add(p), x)
      BY <1>9, <1>10, <2>1, JoinOnce, Zenon
    <2>3. ASSUME NEW x
          PROVE  (\E i \in 1..(n + 1) : ks[i] = x /\ Browser!Folder(x) = p) <=>
                   (\E i \in 1..n : ks[i] = x /\ Browser!Folder(x) = p) \/ (x = k /\ Browser!Folder(x) = p)
      BY <1>5, <1>6, Zenon
    <2>4. new[p] = old(p) \o add(p)
      BY <1>7, Zenon
    <2>5. ASSUME NEW x
          PROVE  Has(new[p], x) <=> \E i \in 1..(n + 1) : ks[i] = x /\ Browser!Folder(x) = p
      <3>1. Has(new[p], x) <=> Has(old(p), x) \/ Has(add(p), x)
        BY <2>2, <2>4, Zenon
      <3>2. Has(old(p), x) <=> \E i \in 1..n : ks[i] = x /\ Browser!Folder(x) = p
        BY <1>9, Zenon
      <3>3. Has(add(p), x) <=> x = k /\ Browser!Folder(x) = p
        BY <1>10, Zenon
      <3> QED BY <2>3, <3>1, <3>2, <3>3, Zenon
    <2> QED BY <2>2, <2>4, <2>5, Zenon
  <1>12. TreeOf(new, ks, n + 1)
    BY <1>8, <1>11, Zenon DEF TreeOf
  <1> QED BY <1>1, <1>12

\* The tree that is built of a list of keys without repetition.
LEMMA TreeOfKeys ==
  ASSUME NEW ks, IsSequence(ks), \A i \in 1..Len(ks) : ks[i] \in KeyNames,
         \A i, j \in 1..Len(ks) : ks[i] = ks[j] => i = j
  PROVE  TreeOf(Browser!BuildRedisKeyTree(ks), ks, Len(ks))
  <1>1. PICK m \in Nat : m = Len(ks)
    BY DEF IsSequence
  <1>2. PICK f : Grows(f, ks, m) /\ Browser!BuildRedisKeyTree(ks) = f[m]
    BY <1>1, TreeOfLoop
  <1> DEFINE S == {n \in 0..m : TreeOf(f[n], ks, n)}
  <1>3. \A n \in 0..m : f[n] = IF n = 0 THEN Root ELSE Browser!InsertKey(f[n - 1], ks[n])
    BY <1>2 DEF Grows
  <1>4. 0 \in S
    <2>1. f[0] = Root
      BY <1>3
    <2> QED BY <2>1, RootIsTree
  <1>5. ASSUME NEW n \in 0..m, n < m, n \in S PROVE n + 1 \in S
    <2>1. n \in Nat /\ n + 1 \in 1..m /\ n + 1 \in 0..m /\ n + 1 # 0 /\ (n + 1) - 1 = n
      BY <1>5
    <2>2. PICK k : k = ks[n + 1]
      OBVIOUS
    <2>3. k \in KeyNames
      BY <1>1, <2>1, <2>2
    <2>4. \A i \in 1..n : ks[i] # k /\ ks[i] \in KeyNames
      <3> SUFFICES ASSUME NEW i \in 1..n PROVE ks[i] # k /\ ks[i] \in KeyNames
        OBVIOUS
      <3>1. i \in 1..m /\ i # n + 1
        BY <2>1
      <3> QED BY <1>1, <2>1, <2>2, <3>1
    <2>5. PICK t : t = f[n]
      OBVIOUS
    <2>6. TreeOf(t, ks, n)
      BY <1>5, <2>5
    <2>7. TreeOf(Browser!InsertKey(t, k), ks, n + 1)
      BY <2>1, <2>2, <2>3, <2>4, <2>6, InsertGrows
    <2>8. f[n + 1] = Browser!InsertKey(t, k)
      BY <1>3, <2>1, <2>2, <2>5
    <2> QED BY <2>1, <2>7, <2>8
  <1>6. \A n \in 0..m : n \in S
    <2> HIDE DEF S
    <2> QED BY <1>4, <1>5, CountUp
  <1>7. m \in 0..m
    OBVIOUS
  <1>8. TreeOf(f[m], ks, m)
    BY <1>6, <1>7
  <1> QED BY <1>1, <1>2, <1>8

-----------------------------------------------------------------------------
(* The tree is whole when the list is.                                     *)

LEMMA ElementsOf == ASSUME NEW s, IsSequence(s) PROVE \A x : x \in Browser!Elements(s) <=> Has(s, x)
  <1>1. PICK S : s \in Seq(S)
    BY DEF IsSequence
  <1>2. DOMAIN s = 1..Len(s)
    BY <1>1
  <1> QED BY <1>2, Zenon DEF Browser!Elements, Has

\* A list has finitely many elements.
LEMMA ListIsFinite ==
  ASSUME NEW ks, IsSequence(ks), NEW F, \A k : k \in F <=> Has(ks, k)
  PROVE  IsFiniteSet(F)
  <1>1. PICK m \in Nat : m = Len(ks)
    BY DEF IsSequence
  <1>2. PICK g : g = [i \in 1..m |-> ks[i]]
    OBVIOUS
  <1>3. \A i \in 1..m : g[i] \in F
    BY <1>1, <1>2 DEF Has
  <1>4. g \in [1..m -> F]
    BY <1>2, <1>3
  <1>5. \A k \in F : \E i \in 1..m : g[i] = k
    BY <1>1, <1>2 DEF Has
  <1>6. g \in Surjection(1..m, F)
    BY <1>4, <1>5 DEF Surjection
  <1>7. 1 \in Nat /\ m \in Nat /\ IsFiniteSet(1..m)
    BY FS_Interval
  <1> QED BY <1>6, <1>7, FS_Surjection

LEMMA BrowserCardinality == \A S : Browser!Cardinality(S) = Cardinality(S)
  BY DEF Browser!Cardinality, Cardinality, Browser!IsFiniteSet, IsFiniteSet

\* The tree has the keys of F in their folders, each once.
Filed(t, F) ==
  /\ \A p \in DOMAIN t : p \in Seq(Nat) /\ Once(t[p])
  /\ \A p \in DOMAIN t : \A k : Has(t[p], k) <=> k \in F /\ Browser!Folder(k) = p
  /\ \A k \in F : Browser!Folder(k) \in DOMAIN t

LEMMA TreeIsFiled ==
  ASSUME NEW ks, NEW F, F \subseteq KeyNames, Lists(ks, F)
  PROVE  Filed(Browser!BuildRedisKeyTree(ks), F)
  <1>0. Once(ks) /\ \A k : k \in F <=> Has(ks, k)
    BY DEF Lists
  <1> PICK t : t = Browser!BuildRedisKeyTree(ks)
    OBVIOUS
  <1>1. IsSequence(ks) /\ \A i, j \in 1..Len(ks) : ks[i] = ks[j] => i = j
    BY <1>0 DEF Once
  <1>2. \A i \in 1..Len(ks) : ks[i] \in F /\ ks[i] \in KeyNames
    BY <1>0, Zenon DEF Has
  <1>3. TreeOf(t, ks, Len(ks))
    BY <1>1, <1>2, TreeOfKeys
  <1>4. \A p : p \in DOMAIN t <=> p = <<>> \/ \E i \in 1..Len(ks) : p \in Browser!FolderPathForKey(ks[i])
    BY <1>3 DEF TreeOf
  <1>5. \A p \in DOMAIN t : Once(t[p])
    BY <1>3 DEF TreeOf
  <1>6. \A p \in DOMAIN t : \A k : Has(t[p], k) <=> \E i \in 1..Len(ks) : ks[i] = k /\ Browser!Folder(k) = p
    BY <1>3 DEF TreeOf
  <1>7. \A p \in DOMAIN t : \A k : Has(t[p], k) <=> k \in F /\ Browser!Folder(k) = p
    <2> SUFFICES ASSUME NEW p \in DOMAIN t, NEW k PROVE Has(t[p], k) <=> k \in F /\ Browser!Folder(k) = p
      OBVIOUS
    <2>1. Has(t[p], k) <=> \E i \in 1..Len(ks) : ks[i] = k /\ Browser!Folder(k) = p
      BY <1>6, Zenon
    <2>2. k \in F <=> \E i \in 1..Len(ks) : ks[i] = k
      BY <1>0, Zenon DEF Has
    <2> QED BY <2>1, <2>2, Zenon
  <1>8. ASSUME NEW p \in DOMAIN t PROVE p \in Seq(Nat)
    <2>1. CASE p = <<>>
      BY <2>1
    <2>2. ASSUME NEW i \in 1..Len(ks), p \in Browser!FolderPathForKey(ks[i]) PROVE p \in Seq(Nat)
      BY <1>2, <2>2, FolderOfKey
    <2> QED BY <1>4, <2>1, <2>2
  <1>9. ASSUME NEW k \in F PROVE Browser!Folder(k) \in DOMAIN t
    <2>1. Browser!Folder(k) = <<>> \/ Browser!Folder(k) \in Browser!FolderPathForKey(k)
      BY FolderOfKey
    <2>2. PICK i \in 1..Len(ks) : ks[i] = k
      BY <1>0, Zenon DEF Has
    <2> QED BY <1>4, <2>1, <2>2, Zenon
  <1> QED BY <1>5, <1>7, <1>8, <1>9 DEF Filed

\* A folder counts the keys below it.
LEMMA FolderCounts ==
  ASSUME NEW t, NEW F, F \subseteq KeyNames, IsFiniteSet(F), Filed(t, F), NEW p \in DOMAIN t
  PROVE  Browser!CountKeys(t, p) = Browser!Cardinality({k \in F : Browser!Under(p, k) /\ k # p})
  <1>0. /\ \A q \in DOMAIN t : q \in Seq(Nat) /\ Once(t[q])
        /\ \A q \in DOMAIN t : \A k : Has(t[q], k) <=> k \in F /\ Browser!Folder(k) = q
        /\ \A k \in F : Browser!Folder(k) \in DOMAIN t
    BY DEF Filed
  <1>1. PICK A : A = UNION {{q} \X (1..Len(t[q])) : q \in {q \in DOMAIN t : Browser!Under(p, q)}}
    OBVIOUS
  <1>2. PICK B : B = {k \in F : Browser!Under(p, k) /\ k # p}
    OBVIOUS
  <1>3. IsFiniteSet(B)
    <2>1. B \in SUBSET F
      BY <1>2
    <2> QED BY <2>1, FS_Subset
  <1>4. \A a \in A : a[1] \in DOMAIN t /\ Browser!Under(p, a[1]) /\ a[2] \in 1..Len(t[a[1]]) /\ a = <<a[1], a[2]>>
    BY <1>1
  <1>5. \A q \in DOMAIN t : \A i \in 1..Len(t[q]) : Browser!Under(p, q) => <<q, i>> \in A
    BY <1>1
  <1>6. PICK g : g = [a \in A |-> t[a[1]][a[2]]]
    OBVIOUS
  <1>7. \A a \in A : g[a] \in F /\ Browser!Folder(g[a]) = a[1]
    <2> SUFFICES ASSUME NEW a \in A PROVE g[a] \in F /\ Browser!Folder(g[a]) = a[1]
      OBVIOUS
    <2>1. g[a] = t[a[1]][a[2]]
      BY <1>6
    <2>2. Has(t[a[1]], g[a])
      BY <1>4, <2>1, Zenon DEF Has
    <2> QED BY <1>0, <1>4, <2>2, Zenon
  <1>8. \A k \in F : Browser!Under(p, Browser!Folder(k)) <=> Browser!Under(p, k) /\ k # p
    <2> SUFFICES ASSUME NEW k \in F PROVE Browser!Under(p, Browser!Folder(k)) <=> Browser!Under(p, k) /\ k # p
      OBVIOUS
    <2>1. k \in KeyNames /\ p \in Seq(Nat)
      BY <1>0
    <2> QED BY <2>1, KeyUnderFolder, Zenon
  <1>9. \A a \in A : g[a] \in B
    <2> SUFFICES ASSUME NEW a \in A PROVE g[a] \in B
      OBVIOUS
    <2>1. PICK k, q : k = g[a] /\ q = a[1]
      OBVIOUS
    <2>2. k \in F /\ Browser!Folder(k) = q /\ Browser!Under(p, q)
      BY <1>4, <1>7, <2>1
    <2>3. Browser!Under(p, k) /\ k # p
      BY <1>8, <2>2, Zenon
    <2>4. k \in B
      BY <1>2, <2>2, <2>3, Zenon
    <2> QED BY <2>1, <2>4
  <1>10. g \in [A -> B]
    BY <1>6, <1>9
  <1>11. ASSUME NEW a \in A, NEW b \in A, g[a] = g[b] PROVE a = b
    <2>1. a[1] = b[1]
      BY <1>7, <1>11
    <2>2. PICK s : s = t[a[1]]
      OBVIOUS
    <2>3. g[a] = s[a[2]] /\ g[b] = s[b[2]] /\ a[2] \in 1..Len(s) /\ b[2] \in 1..Len(s)
      BY <1>4, <1>6, <2>1, <2>2
    <2>4. Once(s)
      BY <1>0, <1>4, <2>2, Zenon
    <2>5. a[2] = b[2]
      BY <1>11, <2>3, <2>4, Zenon DEF Once
    <2> QED BY <1>4, <2>1, <2>5, Zenon
  <1>12. ASSUME NEW k \in B PROVE \E a \in A : g[a] = k
    <2>1. PICK q : q = Browser!Folder(k)
      OBVIOUS
    <2>2. k \in F /\ q \in DOMAIN t /\ Browser!Under(p, q)
      BY <1>0, <1>2, <1>8, <2>1, Zenon
    <2>3. Has(t[q], k)
      BY <1>0, <2>1, <2>2, Zenon
    <2>4. PICK i \in 1..Len(t[q]) : t[q][i] = k
      BY <2>3, Zenon DEF Has
    <2>5. <<q, i>> \in A
      BY <1>5, <2>2
    <2>6. g[<<q, i>>] = t[q][i]
      BY <1>6, <2>5
    <2> QED BY <2>4, <2>5, <2>6
  <1>13. g \in Injection(A, B)
    BY <1>10, <1>11 DEF Injection, IsInjective
  <1>14. g \in Surjection(A, B)
    BY <1>10, <1>12 DEF Surjection
  <1>15. Cardinality(A) = Cardinality(B)
    BY <1>3, <1>13, <1>14, FS_Injection
  <1>16. Browser!CountKeys(t, p) = Browser!Cardinality(A)
    BY <1>1, Zenon DEF Browser!CountKeys
  <1> QED BY <1>2, <1>15, <1>16, BrowserCardinality, Zenon

\* What the screen shows of a list is whole.
Whole(ks, F) ==
  LET tree == Browser!BuildRedisKeyTree(ks)
  IN /\ UNION {Browser!Elements(tree[p]) : p \in DOMAIN tree} = F
     /\ \A k \in F : k \in Browser!Elements(tree[Browser!Folder(k)])
     /\ \A p \in DOMAIN tree :
          Browser!CountKeys(tree, p) = Browser!Cardinality({k \in F : Browser!Under(p, k) /\ k # p})

LEMMA ListIsWhole ==
  ASSUME NEW ks, NEW F, Lists(ks, F), F \subseteq KeyNames
  PROVE  Whole(ks, F)
  <1>1. PICK t : t = Browser!BuildRedisKeyTree(ks)
    OBVIOUS
  <1>2. Once(ks) /\ IsSequence(ks) /\ \A k : k \in F <=> Has(ks, k)
    BY DEF Lists, Once
  <1>3. IsFiniteSet(F)
    BY <1>2, ListIsFinite
  <1>9. Filed(t, F)
    BY <1>1, TreeIsFiled
  <1>4. /\ \A p \in DOMAIN t : p \in Seq(Nat) /\ Once(t[p])
        /\ \A p \in DOMAIN t : \A k : Has(t[p], k) <=> k \in F /\ Browser!Folder(k) = p
        /\ \A k \in F : Browser!Folder(k) \in DOMAIN t
    BY <1>9 DEF Filed
  <1>5. \A p \in DOMAIN t : \A k : k \in Browser!Elements(t[p]) <=> k \in F /\ Browser!Folder(k) = p
    <2> SUFFICES ASSUME NEW p \in DOMAIN t, NEW k
                 PROVE  k \in Browser!Elements(t[p]) <=> k \in F /\ Browser!Folder(k) = p
      OBVIOUS
    <2>1. IsSequence(t[p])
      BY <1>4 DEF Once
    <2>2. k \in Browser!Elements(t[p]) <=> Has(t[p], k)
      BY <2>1, ElementsOf
    <2> QED BY <1>4, <2>2, Zenon
  <1>6. UNION {Browser!Elements(t[p]) : p \in DOMAIN t} = F
    <2>1. \A k : k \in UNION {Browser!Elements(t[p]) : p \in DOMAIN t} <=> \E p \in DOMAIN t : k \in Browser!Elements(t[p])
      BY Zenon
    <2>2. \A k : k \in F <=> \E p \in DOMAIN t : k \in Browser!Elements(t[p])
      BY <1>4, <1>5, Zenon
    <2> QED BY <2>1, <2>2, Zenon
  <1>7. \A k \in F : k \in Browser!Elements(t[Browser!Folder(k)])
    BY <1>4, <1>5, Zenon
  <1>8. ASSUME NEW p \in DOMAIN t
        PROVE  Browser!CountKeys(t, p) = Browser!Cardinality({k \in F : Browser!Under(p, k) /\ k # p})
    BY <1>3, <1>9, FolderCounts
  <1> QED BY <1>1, <1>6, <1>7, <1>8, Zenon DEF Whole

-----------------------------------------------------------------------------
(* The scan.                                                               *)

LEMMA KeyspaceKeys ==
  ASSUME NEW d \in DOMAIN Keyspace
  PROVE  /\ Size(d) \in Nat /\ DOMAIN Keyspace[d] = 1..Size(d)
         /\ \A i \in 1..Size(d) : Keyspace[d][i] \in KeyNames
         /\ \A i, j \in 1..Size(d) : Keyspace[d][i] = Keyspace[d][j] => i = j
  <1>1. PICK s : s = Keyspace[d]
    OBVIOUS
  <1>2. s \in Seq(KeyNames) /\ \A i, j \in DOMAIN s : s[i] = s[j] => i = j
    BY <1>1, KeyspaceAssumption, Zenon DEF KeyNames
  <1>3. Len(s) \in Nat /\ DOMAIN s = 1..Len(s) /\ \A i \in 1..Len(s) : s[i] \in KeyNames
    BY <1>2
  <1>4. \A i, j \in 1..Len(s) : s[i] = s[j] => i = j
    BY <1>2, <1>3, Zenon
  <1> QED BY <1>1, <1>3, <1>4, Zenon DEF Size

\* Two pages that follow each other.
LEMMA FoundOn ==
  ASSUME NEW d \in DOMAIN Keyspace, NEW m, NEW c \in Nat, NEW e \in c..Size(d)
  PROVE  /\ \A k : k \in Found(d, m, 1, e) <=> k \in Found(d, m, 1, c) \/ k \in Found(d, m, c + 1, e)
         /\ \A k : ~(k \in Found(d, m, 1, c) /\ k \in Found(d, m, c + 1, e))
  <1>1. Size(d) \in Nat /\ e \in Nat /\ DOMAIN Keyspace[d] = 1..Size(d)
    BY KeyspaceKeys
  <1>2. \A i, j \in DOMAIN Keyspace[d] : Keyspace[d][i] = Keyspace[d][j] => i = j
    BY KeyspaceAssumption, Zenon
  <1>3. \A i : i \in 1..e <=> i \in 1..c \/ i \in (c + 1)..e
    BY <1>1
  <1>4. \A i \in 1..c : i \notin (c + 1)..e
    OBVIOUS
  <1> DEFINE At(k, i) == i \in DOMAIN Keyspace[d] /\ Keyspace[d][i] = k
  <1>5. ASSUME NEW k
        PROVE  /\ k \in Found(d, m, 1, e) <=> k \in Matching[m] /\ \E i \in 1..e : At(k, i)
               /\ k \in Found(d, m, 1, c) <=> k \in Matching[m] /\ \E i \in 1..c : At(k, i)
               /\ k \in Found(d, m, c + 1, e) <=> k \in Matching[m] /\ \E i \in (c + 1)..e : At(k, i)
    BY Zenon DEF Found
  <1>6. ASSUME NEW k
        PROVE  k \in Found(d, m, 1, e) <=> k \in Found(d, m, 1, c) \/ k \in Found(d, m, c + 1, e)
    <2> HIDE DEF At
    <2>1. (\E i \in 1..e : At(k, i)) <=> (\E i \in 1..c : At(k, i)) \/ \E i \in (c + 1)..e : At(k, i)
      BY <1>3, Zenon
    <2> QED BY <1>5, <2>1, Zenon
  <1>7. ASSUME NEW k, k \in Found(d, m, 1, c), k \in Found(d, m, c + 1, e) PROVE FALSE
    <2>1. PICK i \in 1..c : At(k, i)
      BY <1>5, <1>7, Zenon
    <2>2. PICK j \in (c + 1)..e : At(k, j)
      BY <1>5, <1>7, Zenon
    <2>3. i = j
      BY <1>2, <2>1, <2>2, Zenon
    <2> QED BY <1>4, <2>3
  <1> QED BY <1>6, <1>7, Zenon

\* A further page behind the earlier ones.
LEMMA ReadOn ==
  ASSUME NEW d \in DOMAIN Keyspace, NEW m, NEW c \in Nat, NEW e \in c..Size(d), NEW ks, NEW more,
         Lists(ks, Found(d, m, 1, c)), Lists(more, Found(d, m, c + 1, e))
  PROVE  Lists(ks \o more, Found(d, m, 1, e))
  <1>1. PICK A, B, C : A = Found(d, m, 1, c) /\ B = Found(d, m, c + 1, e) /\ C = Found(d, m, 1, e)
    OBVIOUS
  <1>2. (\A k : k \in C <=> k \in A \/ k \in B) /\ \A k : ~(k \in A /\ k \in B)
    BY <1>1, FoundOn
  <1>3. Once(ks) /\ Once(more) /\ (\A k : k \in A <=> Has(ks, k)) /\ \A k : k \in B <=> Has(more, k)
    BY <1>1 DEF Lists
  <1>4. \A x : ~(Has(ks, x) /\ Has(more, x))
    BY <1>2, <1>3, Zenon
  <1>5. Once(ks \o more) /\ \A x : Has(ks \o more, x) <=> Has(ks, x) \/ Has(more, x)
    BY <1>3, <1>4, JoinOnce, Zenon
  <1>6. \A k : k \in C <=> Has(ks \o more, k)
    BY <1>2, <1>3, <1>5, Zenon
  <1> QED BY <1>1, <1>5, <1>6, Zenon DEF Lists

LEMMA BrowserInOrder == \A S : Browser!InOrder(S) = InOrder(S)
  BY DEF Browser!InOrder, InOrder, Browser!Rank, Rank, Browser!Cardinality, Cardinality, Browser!IsFiniteSet, IsFiniteSet

LEMMA BrowserLeast ==
  ASSUME NEW a \in Nat, NEW b \in Nat
  PROVE  Browser!Least({a, b}) = IF a <= b THEN a ELSE b
  <1>1. \E i \in {a, b} : \A j \in {a, b} : i <= j
    OBVIOUS
  <1>2. PICK x : x = CHOOSE i \in {a, b} : \A j \in {a, b} : i <= j
    OBVIOUS
  <1>3. x \in {a, b} /\ \A j \in {a, b} : x <= j
    BY <1>1, <1>2, Zenon
  <1>4. x = IF a <= b THEN a ELSE b
    BY <1>3
  <1> QED BY <1>2, <1>4, Zenon DEF Browser!Least

\* What Redis answers lists the keys that match between two places.
LEMMA PageLists ==
  ASSUME NEW d \in DOMAIN Keyspace, NEW m, NEW c \in Nat, NEW e \in c..Size(d),
         NEW S, S = {i \in (c + 1)..e : Keyspace[d][i] \in Matching[m]},
         NEW g, g = Browser!InOrder(S),
         NEW ks, ks = [n \in DOMAIN g |-> Keyspace[d][g[n]]]
  PROVE  Lists(ks, Found(d, m, c + 1, e))
  <1>1. Size(d) \in Nat /\ e \in Nat /\ e <= Size(d) /\ DOMAIN Keyspace[d] = 1..Size(d)
    BY KeyspaceKeys
  <1>2. /\ \A i \in 1..Size(d) : Keyspace[d][i] \in KeyNames
        /\ \A i, j \in 1..Size(d) : Keyspace[d][i] = Keyspace[d][j] => i = j
    BY KeyspaceKeys, Zenon
  <1>3. S \in SUBSET ((c + 1)..e) /\ S \subseteq Nat /\ S \subseteq 1..Size(d)
    BY <1>1
  <1>4. IsFiniteSet(S)
    <2>1. c + 1 \in Int /\ e \in Int
      BY <1>1
    <2>2. IsFiniteSet((c + 1)..e)
      BY <2>1, FS_Interval
    <2> QED BY <1>3, <2>2, FS_Subset
  <1>5. PICK n \in Nat : n = Cardinality(S)
    BY <1>4, FS_CardinalityType
  <1>6. g = InOrder(S)
    BY BrowserInOrder
  <1>7. /\ g \in [1..n -> S] /\ \A i, j \in 1..n : i < j => g[i] < g[j]
        /\ \A x \in S : \E i \in 1..n : g[i] = x
    <2>1. IsFiniteSet(S) /\ S \subseteq Nat
      BY <1>3, <1>4
    <2>2. /\ InOrder(S) \in [1..Cardinality(S) -> S]
          /\ \A i, j \in 1..Cardinality(S) : i < j => InOrder(S)[i] < InOrder(S)[j]
          /\ \A x \in S : \E i \in 1..Cardinality(S) : InOrder(S)[i] = x
      BY ONLY <2>1, InOrderEnumerates
    <2> QED BY <1>5, <1>6, <2>2, Zenon
  <1>8. DOMAIN g = 1..n /\ \A i \in 1..n : g[i] \in S /\ g[i] \in Nat
    BY <1>3, <1>7
  <1>9. ASSUME NEW i \in 1..n, NEW j \in 1..n, g[i] = g[j] PROVE i = j
    <2>1. i < j \/ j < i \/ i = j
      OBVIOUS
    <2>2. ~(g[i] < g[j]) /\ ~(g[j] < g[i])
      BY <1>8, <1>9
    <2> QED BY <1>7, <2>1, <2>2
  <1>10. ks = [i \in 1..n |-> Keyspace[d][g[i]]]
    BY <1>8
  <1>11. \A i \in 1..n : ks[i] = Keyspace[d][g[i]]
    BY <1>10
  <1>12. ks \in Seq(KeyNames) /\ Len(ks) = n
    <2>1. \A i \in 1..n : Keyspace[d][g[i]] \in KeyNames
      BY <1>2, <1>3, <1>8
    <2>2. ks \in [1..n -> KeyNames]
      BY <1>10, <2>1
    <2> QED BY <2>2
  <1>13. IsSequence(ks)
    BY <1>12 DEF IsSequence
  <1>14. ASSUME NEW i \in 1..n, NEW j \in 1..n, ks[i] = ks[j] PROVE i = j
    <2>1. g[i] = g[j]
      BY <1>2, <1>3, <1>8, <1>11, <1>14
    <2> QED BY <1>9, <2>1
  <1>15. Once(ks)
    BY ONLY <1>12, <1>13, <1>14, Zenon DEF Once
  <1>16. ASSUME NEW k PROVE k \in Found(d, m, c + 1, e) <=> Has(ks, k)
    <2>1. Has(ks, k) <=> \E i \in 1..n : Keyspace[d][g[i]] = k
      BY <1>11, <1>12 DEF Has
    <2>2. (\E i \in 1..n : Keyspace[d][g[i]] = k) <=> \E x \in S : Keyspace[d][x] = k
      <3>1. ASSUME NEW i \in 1..n, Keyspace[d][g[i]] = k PROVE \E x \in S : Keyspace[d][x] = k
        BY <1>8, <3>1, Zenon
      <3>2. ASSUME NEW x \in S, Keyspace[d][x] = k PROVE \E i \in 1..n : Keyspace[d][g[i]] = k
        <4>1. PICK i \in 1..n : g[i] = x
          BY <1>7
        <4> QED BY <3>2, <4>1
      <3> QED BY <3>1, <3>2, Zenon
    <2>3. k \in Found(d, m, c + 1, e) <=> k \in Matching[m] /\ \E i \in (c + 1)..e : i \in DOMAIN Keyspace[d] /\ Keyspace[d][i] = k
      BY Zenon DEF Found
    <2>4. \A i \in (c + 1)..e : i \in DOMAIN Keyspace[d]
      BY <1>1
    <2>5. (\E x \in S : Keyspace[d][x] = k) <=> k \in Matching[m] /\ \E i \in (c + 1)..e : Keyspace[d][i] = k
      OBVIOUS
    <2> QED BY <2>1, <2>2, <2>3, <2>4, <2>5, Zenon
  <1> QED BY <1>15, <1>16, Zenon DEF Lists

-----------------------------------------------------------------------------
(* Every step of the browser.                                              *)

LEMMA KeysInit == ASSUME Browser!Init PROVE KeysInv
  <1>1. PICK l : l = Browser!Scan(1, "*", 0, FALSE)
    OBVIOUS
  <1>2. l = [id |-> 1, match |-> "*", cursor |-> 0, append |-> FALSE, served |-> FALSE, page |-> <<>>, next |-> 0]
    BY <1>1 DEF Browser!Scan
  <1>3. scans = {l} /\ match = "*" /\ db \in DOMAIN Keyspace /\ mixed = FALSE
    BY <1>1 DEF Browser!Init
  <1>4. ScanShape(l)
    BY <1>2 DEF ScanShape
  <1>5. InLine(db, match, keys, cursor, l)
    BY <1>2, <1>3, <1>4 DEF InLine
  <1> QED BY <1>3, <1>4, <1>5 DEF KeysInv

\* A load begins: it is in line when no other is under way.
LEMMA LoadStep ==
  ASSUME KeysInv, NEW m, NEW c, NEW append \in BOOLEAN, Browser!Load(m, c, append), match' = m,
         UNCHANGED <<cursor, keys, db>>, append => m = match /\ c = cursor /\ cursor # 0, ~append => c = 0
  PROVE  KeysInv'
  <1>1. PICK n : n = Browser!Scan(asked', m, c, append)
    OBVIOUS
  <1>2. n = [id |-> asked', match |-> m, cursor |-> c, append |-> append, served |-> FALSE, page |-> <<>>, next |-> 0]
    BY <1>1 DEF Browser!Scan
  <1>3. scans' = scans \cup {n} /\ mixed' = (scans # {} \/ (mixed /\ append))
    BY <1>1 DEF Browser!Load
  <1>4. ScanShape(n)
    BY <1>2 DEF ScanShape
  <1>5. n.match = m /\ n.append = append /\ n.cursor = c /\ n.served = FALSE
    BY <1>2
  <1>6. db' \in DOMAIN Keyspace /\ mixed' \in BOOLEAN
    BY <1>3 DEF KeysInv
  <1>7. \A l \in scans' : ScanShape(l)
    BY <1>3, <1>4 DEF KeysInv
  <1>8. ASSUME ~mixed' PROVE scans' = {n} /\ InLine(db', match', keys', cursor', n)
    <2>1. scans = {} /\ ~(mixed /\ append)
      BY <1>3, <1>8
    <2>2. append => ReadUpto(db, match, keys, cursor)
      <3> HAVE append
      <3>1. ReadUpto(db, match, keys, Upto(db, cursor))
        BY <2>1 DEF KeysInv
      <3> QED BY <3>1, Zenon DEF Upto
    <2> QED BY <1>3, <1>4, <1>5, <2>1, <2>2 DEF InLine
  <1> QED BY <1>6, <1>7, <1>8 DEF KeysInv

LEMMA PageServed ==
  ASSUME KeysInv, NEW l \in scans, Browser!Serve(l)
  PROVE  KeysInv'
  <1>1. db \in DOMAIN Keyspace /\ ScanShape(l) /\ Size(db) \in Nat /\ ScanCount \in Nat /\ ScanCount # 0
    BY KeyspaceKeys, KeyspaceAssumption DEF KeysInv
  <1>2. PICK e : e = Browser!Least({l.cursor + ScanCount, Len(Keyspace[db])})
    OBVIOUS
  <1>3. PICK S : S = {i \in (l.cursor + 1)..e : Keyspace[db][i] \in Matching[l.match]}
    OBVIOUS
  <1>4. PICK g : g = Browser!InOrder(S)
    OBVIOUS
  <1>5. PICK ks : ks = [n \in DOMAIN g |-> Keyspace[db][g[n]]]
    OBVIOUS
  <1>6. PICK z : z = IF e = Size(db) THEN 0 ELSE e
    OBVIOUS
  <1>7. PICK n : n = [l EXCEPT !.served = TRUE, !.page = ks, !.next = z]
    OBVIOUS
  <1>8. /\ ~l.served /\ scans' = (scans \ {l}) \cup {n}
        /\ UNCHANGED <<match, cursor, keys, db, mixed>>
    BY <1>2, <1>3, <1>4, <1>5, <1>6, <1>7, Zenon DEF Browser!Serve, Size
  <1>9. /\ ScanShape(n) /\ n.match = l.match /\ n.cursor = l.cursor /\ n.append = l.append
        /\ n.page = ks /\ n.next = z
    BY <1>1, <1>7 DEF ScanShape
  <1>10. \A o \in scans' : ScanShape(o)
    BY <1>8, <1>9 DEF KeysInv
  <1>11. ASSUME ~mixed PROVE scans' = {n} /\ InLine(db, match, keys, cursor, n)
    <2>1. (\A o \in scans : o = l) /\ InLine(db, match, keys, cursor, l)
      BY <1>11 DEF KeysInv
    <2>2. scans' = {n}
      BY <1>8, <2>1
    <2>3. /\ l.match = match /\ l.append \in BOOLEAN
          /\ l.append => cursor # 0 /\ l.cursor = cursor /\ ReadUpto(db, match, keys, cursor)
          /\ ~l.append => l.cursor = 0
      BY <1>1, <2>1 DEF InLine, ScanShape
    <2>4. PICK c \in Nat : c = l.cursor /\ c <= Size(db)
      <3>1. CASE l.append
        BY <1>1, <2>3, <3>1 DEF ReadUpto
      <3>2. CASE ~l.append
        BY <1>1, <2>3, <3>2
      <3> QED BY <2>3, <3>1, <3>2
    <2>5. e = IF c + ScanCount <= Size(db) THEN c + ScanCount ELSE Size(db)
      <3>1. c + ScanCount \in Nat /\ Size(db) \in Nat
        BY <1>1
      <3>2. e = Browser!Least({c + ScanCount, Size(db)})
        BY <1>2, <2>4, Zenon DEF Size
      <3> QED BY <3>1, <3>2, BrowserLeast
    <2>6. e \in Nat /\ e \in c..Size(db) /\ (e = 0 => Size(db) = 0)
      BY <1>1, <2>4, <2>5
    <2>7. S = {i \in (c + 1)..e : Keyspace[db][i] \in Matching[match]}
      BY <1>3, <2>3, <2>4, Zenon
    <2>8. Lists(ks, Found(db, match, c + 1, e))
      BY ONLY <1>1, <1>4, <1>5, <2>4, <2>6, <2>7, PageLists
    <2>9. z \in Nat /\ Upto(db, z) = e
      BY <1>6, <2>6 DEF Upto
    <2>10. Page(db, match, n)
      <3>1. e \in n.cursor..Size(db) /\ Lists(n.page, Found(db, match, n.cursor + 1, e))
        BY <1>9, <2>4, <2>6, <2>8
      <3> QED BY <1>9, <2>9, <3>1, Zenon DEF Page
    <2> QED BY <1>9, <2>2, <2>3, <2>10, Zenon DEF InLine
  <1>12. db' \in DOMAIN Keyspace /\ mixed' \in BOOLEAN
    BY <1>1, <1>8 DEF KeysInv
  <1>13. ASSUME ~mixed' PROVE scans' = {n} /\ InLine(db', match', keys', cursor', n)
    BY <1>8, <1>11, <1>13
  <1> QED BY <1>10, <1>12, <1>13 DEF KeysInv

LEMMA LoadedStep ==
  ASSUME KeysInv, NEW l \in scans, Browser!Loaded(l)
  PROVE  KeysInv'
  <1>1. db \in DOMAIN Keyspace /\ mixed \in BOOLEAN /\ ScanShape(l) /\ Size(db) \in Nat
    BY KeyspaceKeys DEF KeysInv
  <1>2. /\ l.served /\ keys' = (IF l.append THEN keys \o l.page ELSE l.page) /\ cursor' = l.next
        /\ scans' = scans \ {l} /\ UNCHANGED <<match, db, mixed>>
    BY DEF Browser!Loaded
  <1>3. \A o \in scans' : ScanShape(o)
    BY <1>2 DEF KeysInv
  <1>4. ASSUME ~mixed PROVE scans' = {} /\ ReadUpto(db, match, keys', Upto(db, l.next))
    <2>1. (\A o \in scans : o = l) /\ InLine(db, match, keys, cursor, l)
      BY <1>4 DEF KeysInv
    <2>2. scans' = {}
      BY <1>2, <2>1
    <2>3. /\ l.append \in BOOLEAN
          /\ l.append => l.cursor = cursor /\ ReadUpto(db, match, keys, cursor)
          /\ ~l.append => l.cursor = 0
          /\ Page(db, match, l)
      BY <1>1, <1>2, <2>1 DEF InLine, ScanShape
    <2>4. PICK e \in l.cursor..Size(db) : /\ Lists(l.page, Found(db, match, l.cursor + 1, e))
                                          /\ Upto(db, l.next) = e
      BY <2>3, Zenon DEF Page
    <2>5. CASE l.append
      <3>1. cursor \in Nat /\ Lists(keys, Found(db, match, 1, cursor)) /\ e \in cursor..Size(db)
        BY <1>1, <2>3, <2>4, <2>5 DEF ReadUpto
      <3>2. PICK c \in Nat : c = cursor
        BY <3>1
      <3>3. Lists(keys, Found(db, match, 1, c)) /\ Lists(l.page, Found(db, match, c + 1, e)) /\ e \in c..Size(db)
        BY <2>3, <2>4, <2>5, <3>1, <3>2, Zenon
      <3>4. Lists(keys \o l.page, Found(db, match, 1, e))
        BY ONLY <1>1, <3>3, ReadOn
      <3>5. e \in 0..Size(db)
        BY <1>1, <3>3
      <3> QED BY <1>2, <2>2, <2>4, <2>5, <3>4, <3>5, Zenon DEF ReadUpto
    <2>6. CASE ~l.append
      <3>1. l.cursor = 0 /\ l.cursor + 1 = 1 /\ e \in 0..Size(db)
        BY <2>3, <2>4, <2>6
      <3>2. Lists(l.page, Found(db, match, 1, e))
        BY <2>4, <3>1, Zenon
      <3> QED BY <1>2, <2>2, <2>4, <2>6, <3>1, <3>2, Zenon DEF ReadUpto
    <2> QED BY <2>3, <2>5, <2>6
  <1>5. ASSUME ~mixed' PROVE scans' = {} /\ ReadUpto(db', match', keys', Upto(db', cursor'))
    BY <1>2, <1>4, <1>5
  <1> QED BY <1>1, <1>2, <1>3, <1>5 DEF KeysInv

LEMMA LoadFailsStep ==
  ASSUME KeysInv, NEW l \in scans, Browser!LoadFails(l)
  PROVE  KeysInv'
  <1>1. db \in DOMAIN Keyspace /\ mixed \in BOOLEAN /\ ScanShape(l) /\ l.append \in BOOLEAN
    BY DEF KeysInv, ScanShape
  <1>2. scans' = scans \ {l} /\ mixed' = (mixed \/ ~l.append) /\ UNCHANGED <<match, cursor, keys, db>>
    BY DEF Browser!LoadFails
  <1>3. \A o \in scans' : ScanShape(o)
    BY <1>2 DEF KeysInv
  <1>4. ASSUME ~mixed' PROVE scans' = {} /\ ReadUpto(db, match, keys, Upto(db, cursor))
    <2>1. (\A o \in scans : o = l) /\ InLine(db, match, keys, cursor, l) /\ l.append
      BY <1>1, <1>2, <1>4 DEF KeysInv
    <2>2. scans' = {}
      BY <1>2, <2>1
    <2>3. cursor # 0 /\ ReadUpto(db, match, keys, cursor)
      BY <2>1 DEF InLine
    <2> QED BY <2>2, <2>3, Zenon DEF Upto
  <1>5. ASSUME ~mixed' PROVE scans' = {} /\ ReadUpto(db', match', keys', Upto(db', cursor'))
    BY <1>2, <1>4, <1>5
  <1>6. mixed' \in BOOLEAN
    BY <1>1, <1>2
  <1> QED BY <1>1, <1>2, <1>3, <1>5, <1>6 DEF KeysInv

LEMMA KeysStep ==
  ASSUME KeysInv, Browser!Next \/ UNCHANGED browserVars
  PROVE  KeysInv'
  <1>1. ASSUME UNCHANGED <<match, cursor, keys, scans, db, mixed>> PROVE KeysInv'
    BY <1>1 DEF KeysInv
  <1>2. ASSUME NEW m \in DOMAIN Matching, Browser!SetMatch(m) PROVE KeysInv'
    <2>1. Browser!Load(m, 0, FALSE) /\ match' = m /\ UNCHANGED <<cursor, keys, db>>
      BY <1>2 DEF Browser!SetMatch
    <2> QED BY <2>1, LoadStep
  <1>3. ASSUME Browser!ScanAgain PROVE KeysInv'
    <2>1. Browser!Load(match, 0, FALSE) /\ match' = match /\ UNCHANGED <<cursor, keys, db>>
      BY <1>3 DEF Browser!ScanAgain
    <2> QED BY <2>1, LoadStep
  <1>4. ASSUME Browser!LoadMore PROVE KeysInv'
    <2>1. Browser!Load(match, cursor, TRUE) /\ match' = match /\ cursor # 0 /\ UNCHANGED <<cursor, keys, db>>
      BY <1>4 DEF Browser!LoadMore
    <2> QED BY <2>1, LoadStep
  <1>5. ASSUME NEW l \in scans, Browser!Serve(l) \/ Browser!Loaded(l) \/ Browser!LoadFails(l) PROVE KeysInv'
    BY <1>5, PageServed, LoadedStep, LoadFailsStep
  <1>6. ASSUME NEW p, Browser!ToggleFolder(p) PROVE KeysInv'
    BY <1>1, <1>6 DEF Browser!ToggleFolder
  <1>7. ASSUME NEW k, Browser!OpenKey(k) PROVE KeysInv'
    BY <1>1, <1>7 DEF Browser!OpenKey
  <1>8. ASSUME NEW d \in DOMAIN Keyspace, Browser!SwitchDatabase(d) PROVE KeysInv'
    BY <1>8 DEF Browser!SwitchDatabase, KeysInv
  <1>9. CASE UNCHANGED browserVars
    BY <1>1, <1>9 DEF browserVars
  <1>10. CASE Browser!Next
    BY <1>2, <1>3, <1>4, <1>5, <1>6, <1>7, <1>8, <1>10, Zenon DEF Browser!Next
  <1> QED BY <1>9, <1>10

\* A list that holds what a scan has passed up to the end is drawn whole.
LEMMA KeysShown == ASSUME KeysInv PROVE Browser!TreeIsWhole
  <1> SUFFICES ASSUME scans = {}, cursor = 0, ~mixed
               PROVE  Whole(keys, Browser!Elements(Keyspace[db]) \cap Matching[match])
    BY Zenon DEF Browser!TreeIsWhole, Whole
  <1>1. PICK F : F = Browser!Elements(Keyspace[db]) \cap Matching[match]
    OBVIOUS
  <1>2. db \in DOMAIN Keyspace /\ ReadUpto(db, match, keys, Upto(db, cursor))
    BY DEF KeysInv
  <1>3. Lists(keys, Found(db, match, 1, Size(db)))
    BY <1>2, Zenon DEF ReadUpto, Upto
  <1>4. DOMAIN Keyspace[db] = 1..Size(db) /\ \A i \in 1..Size(db) : Keyspace[db][i] \in KeyNames
    BY <1>2, KeyspaceKeys
  <1>5. Found(db, match, 1, Size(db)) = F
    BY <1>1, <1>4, Zenon DEF Found, Browser!Elements
  <1>6. F \subseteq KeyNames
    BY <1>1, <1>4, Zenon DEF Browser!Elements
  <1>7. Whole(keys, F)
    BY <1>3, <1>5, <1>6, ListIsWhole, Zenon
  <1> QED BY <1>1, <1>7

LEMMA KeysAlways == PagesSpec => [](page = "keys" => KeysInv)
  <1>1. ASSUME PagesInit PROVE page = "keys" => KeysInv
    BY <1>1, KeysInit DEF PagesInit
  <1>2. ASSUME page = "keys" => KeysInv, [PagesNext]_<<pageVars, viewVars, page>>
        PROVE  (page = "keys" => KeysInv)'
    BY <1>2, OnePageMoves, KeysStep
  <1> QED BY <1>1, <1>2, PTL DEF PagesSpec

\* A scan of keys that came to its end, crossed by no other load, is drawn whole: every
\* key of the database that matches the pattern lies in the folder its name says, and
\* every folder counts the keys below it, for keyspaces, keys and pages of any size
\* (RedisKeyTree.tsx load, redisKeyHierarchy.ts buildRedisKeyTree).
THEOREM TreesAreWhole == PagesSpec => []TreeIsWhole
  <1>1. (page = "keys" => KeysInv) => TreeIsWhole
    BY KeysShown DEF TreeIsWhole
  <1> QED BY <1>1, KeysAlways, PTL

=============================================================================
