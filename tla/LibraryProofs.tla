--------------------------- MODULE LibraryProofs ----------------------------
(***************************************************************************)
(* Theorems about the parts that share no state but the wiki they read:    *)
(* what kb serve answers, what kb convo ingest keeps and decides, what a   *)
(* clean glossary promises and a build reports of it, and what kb lint     *)
(* --apply leaves, for any wikis, lines, names, sources and labels.        *)
(***************************************************************************)
EXTENDS LibraryInv, TLAPS, FiniteSetTheorems, WellFoundedInduction, NaturalsInduction

(***************************************************************************)
(* Sequences and sets of numbers.                                          *)
(***************************************************************************)
(* A set of some of the numbers up to n is finite. *)
LEMMA PartIsFinite ==
  ASSUME NEW n \in Nat, NEW S \in SUBSET (1..n)
  PROVE  IsFiniteSet(S)
<1>1. IsFiniteSet(1..n)
  BY FS_Interval
<1> QED
  BY <1>1, FS_Subset

(* A longer set of numbers in order: the new one comes last (InOrder). *)
LEMMA InOrderExtends ==
  ASSUME NEW S \in SUBSET Nat, IsFiniteSet(S), NEW x \in Nat, \A y \in S : y < x,
         NEW k \in InOrder(S)
  PROVE  /\ Cardinality(S) \in Nat
         /\ DOMAIN k = 1..Cardinality(S)
         /\ [i \in 1..Cardinality(S) + 1 |-> IF i <= Cardinality(S) THEN k[i] ELSE x]
               \in InOrder(S \cup {x})
<1> DEFINE n == Cardinality(S)
           l == [i \in 1..n + 1 |-> IF i <= n THEN k[i] ELSE x]
<1>1. n \in Nat
  BY FS_CardinalityType
<1>2. x \notin S
  OBVIOUS
<1>3. Cardinality(S \cup {x}) = n + 1
  BY <1>2, FS_AddElement
<1>4. k \in [1..n -> S] /\ \A i, j \in 1..n : i < j => k[i] < k[j]
  BY DEF InOrder
<1> HIDE DEF n
<1>5. l \in [1..n + 1 -> S \cup {x}]
  BY <1>1, <1>4
<1>6. \A i, j \in 1..n + 1 : i < j => l[i] < l[j]
  <2> SUFFICES ASSUME NEW i \in 1..n + 1, NEW j \in 1..n + 1, i < j
               PROVE  l[i] < l[j]
    OBVIOUS
  <2>1. i \in 1..n /\ l[i] = k[i]
    BY <1>1
  <2>2. CASE j = n + 1
    <3>1. l[j] = x
      BY <2>2, <1>1
    <3>2. k[i] \in S
      BY <1>4, <2>1
    <3> QED
      BY <3>1, <3>2, <2>1
  <2>3. CASE j # n + 1
    <3>1. j \in 1..n /\ l[j] = k[j]
      BY <2>3, <1>1
    <3> QED
      BY <3>1, <2>1, <1>4
  <2> QED
    BY <2>2, <2>3
<1>7. l \in InOrder(S \cup {x})
  BY <1>5, <1>6, <1>3 DEF InOrder
<1> QED
  BY <1>1, <1>4, <1>7 DEF n

(* A function on 1..n is a sequence. *)
LEMMA SeqOfFunction ==
  ASSUME NEW U, NEW n \in Nat, NEW a \in [1..n -> U]
  PROVE  a \in Seq(U) /\ Len(a) = n
OBVIOUS

(* A sequence is a function into any set that has its elements. *)
LEMMA SeqIsFunction ==
  ASSUME NEW T, NEW a \in Seq(T), NEW U, \A k \in 1..Len(a) : a[k] \in U
  PROVE  a \in [1..Len(a) -> U]
OBVIOUS

(* One sequence after another (ListScope). *)
LEMMA Joined ==
  ASSUME NEW T, NEW a \in Seq(T), NEW b \in Seq(T)
  PROVE  /\ a \o b \in Seq(T) /\ Len(a \o b) = Len(a) + Len(b)
         /\ Len(a) \in Nat /\ Len(b) \in Nat
         /\ \A i \in 1..Len(a) : (a \o b)[i] = a[i]
         /\ \A i \in 1..Len(b) : (a \o b)[Len(a) + i] = b[i]
OBVIOUS

(* Appending to a sequence (Answer). *)
LEMMA Appended ==
  ASSUME NEW s, s \in Seq(ToSet(s)), NEW e
  PROVE  /\ Append(s, e) \in Seq(ToSet(Append(s, e)))
         /\ Len(s) \in Nat /\ DOMAIN s = 1..Len(s)
         /\ DOMAIN Append(s, e) = 1..Len(s) + 1
         /\ \A k \in 1..Len(s) : Append(s, e)[k] = s[k]
         /\ Append(s, e)[Len(s) + 1] = e
<1> DEFINE T == ToSet(s) \cup {e}
<1>1. s \in Seq(T)
  OBVIOUS
<1> HIDE DEF T
<1>2. e \in T
  BY DEF T
<1>3. Append(s, e) \in Seq(T) /\ Len(Append(s, e)) = Len(s) + 1
  BY <1>1, <1>2
<1>4. /\ Len(s) \in Nat /\ DOMAIN s = 1..Len(s)
      /\ DOMAIN Append(s, e) = 1..Len(s) + 1
      /\ \A k \in 1..Len(s) : Append(s, e)[k] = s[k]
      /\ Append(s, e)[Len(s) + 1] = e
  BY <1>1, <1>2
<1> DEFINE U == ToSet(Append(s, e))
<1>5. \A k \in 1..Len(s) + 1 : Append(s, e)[k] \in U
  BY <1>4 DEF ToSet
<1> HIDE DEF U
<1>6. Append(s, e) \in [1..Len(s) + 1 -> U]
  BY <1>3, <1>5, SeqIsFunction
<1>7. Append(s, e) \in Seq(U)
  <2>1. Len(s) + 1 \in Nat
    BY <1>4
  <2> QED
    BY <1>6, <2>1, SeqOfFunction, Zenon
<1> QED
  BY <1>4, <1>7 DEF U

(* A finite set as a sequence is one of its elements (ArticlesOf). *)
LEMMA SetToSeqType ==
  ASSUME NEW S, IsFiniteSet(S)
  PROVE  SetToSeq(S) \in Seq(S)
<1>1. PICK n \in Nat : ExistsBijection(1..n, S)
  BY FS_NatBijection
<1>2. Cardinality(S) = n
  BY <1>1, FS_CountingElements
<1>3. PICK f \in Bijection(1..n, S) : TRUE
  BY <1>1 DEF ExistsBijection
<1>4. f \in [1..Cardinality(S) -> S] /\ IsInjective(f)
  BY <1>2, <1>3 DEF Bijection, Injection, IsInjective
<1>5. SetToSeq(S) \in [1..Cardinality(S) -> S]
  BY <1>4 DEF SetToSeq
<1> QED
  BY <1>5, <1>2

(* The least of a set of numbers is one of them (StartCluster, Lookup). *)
LEMMA LeastInSet ==
  ASSUME NEW S \in SUBSET Nat, S # {}
  PROVE  \E x \in S : \A y \in S : x <= y
<1>1. PICK x \in S : \A y \in S : ~ (<<y, x>> \in OpToRel(<, Nat))
  BY NatLessThanWellFounded, WFMin, Zenon
<1>2. \A y \in S : ~ (y < x)
  BY <1>1, Zenon DEF OpToRel
<1> QED
  BY <1>2

(* All members of a set of numbers are in its order, each once (InOrder). *)
LEMMA InOrderIsAll ==
  ASSUME NEW S \in SUBSET Nat, IsFiniteSet(S), NEW k \in InOrder(S)
  PROVE  /\ Cardinality(S) \in Nat /\ k \in [1..Cardinality(S) -> S] /\ DOMAIN k = 1..Cardinality(S)
         /\ \A i, j \in 1..Cardinality(S) : i # j => k[i] # k[j]
         /\ \A x \in S : \E i \in 1..Cardinality(S) : k[i] = x
<1> DEFINE n == Cardinality(S)   I == 1..n
<1>1. n \in Nat
  BY FS_CardinalityType
<1>2. k \in [I -> S] /\ \A i, j \in I : i < j => k[i] < k[j]
  BY DEF InOrder
<1>3. \A i, j \in I : i # j => k[i] # k[j]
  <2> SUFFICES ASSUME NEW i \in I, NEW j \in I, i # j PROVE k[i] # k[j]
    OBVIOUS
  <2>1. k[i] \in Nat /\ k[j] \in Nat
    BY <1>2
  <2>2. i < j \/ j < i
    BY <1>1
  <2> QED
    BY <1>2, <2>1, <2>2
<1>4. IsFiniteSet(I) /\ Cardinality(I) = n
  BY <1>1, FS_Interval
<1> HIDE DEF n, I
<1>5. k \in Injection(I, S)
  BY <1>2, <1>3 DEF Injection, IsInjective
<1>6. k \in Surjection(I, S)
  BY <1>4, <1>5, FS_Injection DEF n
<1>7. \A x \in S : \E i \in I : k[i] = x
  BY <1>6 DEF Surjection
<1> QED
  BY <1>1, <1>2, <1>3, <1>7 DEF n, I

(* Finitely many numbers have a greatest. *)
LEMMA GreatestInSet ==
  ASSUME NEW S \in SUBSET Nat, IsFiniteSet(S), S # {}
  PROVE  \E x \in S : \A y \in S : y <= x
<1> DEFINE Above(x) == {y \in S : y > x}
           N == {Cardinality(Above(x)) : x \in S}
<1>1. \A x \in S : IsFiniteSet(Above(x)) /\ Cardinality(Above(x)) \in Nat
  BY FS_Subset, FS_CardinalityType
<1>2. N \subseteq Nat /\ N # {}
  BY <1>1
<1>3. PICK m \in N : \A n \in N : m <= n
  BY <1>2, LeastInSet
<1>4. PICK x \in S : m = Cardinality(Above(x))
  OBVIOUS
<1>5. ASSUME NEW y \in S, y > x PROVE FALSE
  <2> DEFINE A == Above(x)   B == Above(y)
  <2>0. \A z \in S : z > y => z > x
    BY <1>5
  <2>a. (\A z : z \in A <=> z \in S /\ z > x) /\ (\A z : z \in B <=> z \in S /\ z > y)
    OBVIOUS
  <2>1. B \in SUBSET A /\ y \in A /\ y \notin B
    <3>1. y \in Nat /\ ~ (y > y)
      OBVIOUS
    <3> HIDE DEF A, B
    <3>2. y \in A /\ y \notin B
      BY <1>5, <2>a, <3>1
    <3>3. \A z \in B : z \in A
      BY <2>0, <2>a
    <3> QED
      BY <3>2, <3>3
  <2>2. IsFiniteSet(A) /\ Cardinality(A) \in Nat /\ Cardinality(B) \in Nat
    BY <1>1
  <2>3. Cardinality(A) = m /\ m <= Cardinality(B)
    BY <1>3, <1>4
  <2> HIDE DEF A, B
  <2>4. Cardinality(B) <= Cardinality(A) /\ Cardinality(A) # Cardinality(B)
    BY <2>1, <2>2, FS_Subset
  <2> QED
    BY <2>2, <2>3, <2>4
<1> QED
  BY <1>5

(* A set of numbers has an order (InOrder). *)
LEMMA OrderExists ==
  ASSUME NEW S \in SUBSET Nat, IsFiniteSet(S)
  PROVE  InOrder(S) # {}
<1> DEFINE Lost == {n \in Nat : \E T \in SUBSET Nat : IsFiniteSet(T) /\ Cardinality(T) = n /\ InOrder(T) = {}}
<1> SUFFICES ASSUME InOrder(S) = {}
             PROVE  FALSE
  OBVIOUS
<1>1. Cardinality(S) \in Lost /\ Lost \subseteq Nat
  BY FS_CardinalityType
<1>2. PICK n \in Lost : \A m \in Lost : n <= m
  BY <1>1, LeastInSet
<1>3. PICK T \in SUBSET Nat : IsFiniteSet(T) /\ Cardinality(T) = n /\ InOrder(T) = {}
  BY <1>2
<1>4. n \in Nat
  BY <1>1, <1>2
<1>5. CASE T = {}
  <2>1. Cardinality(T) = 0
    BY <1>5, FS_EmptySet
  <2>2. <<>> \in InOrder(T)
    BY <1>5, <2>1 DEF InOrder
  <2> QED
    BY <1>3, <2>2
<1>6. CASE T # {}
  <2>1. PICK x \in T : \A y \in T : y <= x
    BY <1>3, <1>6, GreatestInSet
  <2> DEFINE R == T \ {x}
  <2>2. /\ R \in SUBSET Nat /\ IsFiniteSet(R) /\ Cardinality(R) = n - 1 /\ Cardinality(R) \in Nat
        /\ x \in Nat /\ \A y \in R : y < x
    BY <1>3, <2>1, FS_RemoveElement, FS_CardinalityType
  <2>3. R \cup {x} = T
    OBVIOUS
  <2>4. n - 1 \notin Lost
    BY <1>2, <1>4
  <2>5. InOrder(R) # {}
    BY <2>2, <2>4
  <2> HIDE DEF R
  <2>6. PICK k \in InOrder(R) : TRUE
    BY <2>5
  <2>7. \E l : l \in InOrder(R \cup {x})
    BY <2>2, <2>6, InOrderExtends
  <2> QED
    BY <1>3, <2>3, <2>7
<1> QED
  BY <1>5, <1>6

(* What a finite set is mapped onto is finite. *)
LEMMA ImageIsFinite ==
  ASSUME NEW S, IsFiniteSet(S), NEW f, NEW T, \A y : y \in T <=> \E x \in S : y = f[x]
  PROVE  IsFiniteSet(T)
<1> DEFINE g == [x \in S |-> f[x]]
<1>1. g \in Surjection(S, T)
  BY DEF Surjection
<1> HIDE DEF g
<1> QED
  BY <1>1, FS_Surjection

(***************************************************************************)
(* The server.                                                             *)
(***************************************************************************)
(* The answers are those to the lines listed. *)
Tells(line, ans, rec) ==
    /\ DOMAIN ans = DOMAIN line
    /\ \A k \in DOMAIN line : ans[k].to = IF rec[line[k]].method = "garbled" THEN 0 ELSE line[k]

(* What is answered is so whatever is received after it. *)
LEMMA TellsStill ==
  ASSUME NEW n \in Nat, NEW S \in SUBSET (1..n), NEW line \in InOrder(S),
         NEW ans, NEW rec, NEW rec2, \A i \in 1..n : rec2[i] = rec[i], Tells(line, ans, rec)
  PROVE  Tells(line, ans, rec2)
<1>1. \A k \in DOMAIN line : line[k] \in 1..n
  BY DEF InOrder
<1> QED
  BY <1>1 DEF Tells

(* One more line is answered, after all the others. *)
LEMMA TellsMore ==
  ASSUME NEW n \in Nat, NEW S \in SUBSET (1..n), NEW x \in Nat, \A y \in S : y < x,
         NEW line \in InOrder(S), NEW ans, ans \in Seq(ToSet(ans)), NEW rec, Tells(line, ans, rec),
         NEW e, e.to = IF rec[x].method = "garbled" THEN 0 ELSE x
  PROVE  \E l \in InOrder(S \cup {x}) : Tells(l, Append(ans, e), rec)
<1> DEFINE c == Cardinality(S)
           l == [i \in 1..c + 1 |-> IF i <= c THEN line[i] ELSE x]
<1>1. IsFiniteSet(S)
  BY PartIsFinite
<1>2. c \in Nat /\ DOMAIN line = 1..c /\ l \in InOrder(S \cup {x})
  <2>1. S \in SUBSET Nat
    OBVIOUS
  <2> QED
    BY <1>1, <2>1, InOrderExtends, Zenon
<1>3. /\ Len(ans) \in Nat /\ DOMAIN ans = 1..Len(ans)
      /\ DOMAIN Append(ans, e) = 1..Len(ans) + 1
      /\ \A k \in 1..Len(ans) : Append(ans, e)[k] = ans[k]
      /\ Append(ans, e)[Len(ans) + 1] = e
  BY Appended
<1>4. Len(ans) = c
  BY <1>2, <1>3 DEF Tells
<1> DEFINE app == Append(ans, e)
<1>5. /\ DOMAIN app = 1..c + 1 /\ app[c + 1] = e
      /\ \A k \in 1..c : app[k].to = IF rec[line[k]].method = "garbled" THEN 0 ELSE line[k]
  BY <1>2, <1>3, <1>4 DEF Tells
<1> HIDE DEF c, app
<1>6. DOMAIN l = 1..c + 1 /\ l[c + 1] = x /\ \A k \in 1..c : l[k] = line[k]
  BY <1>2
<1>7. \A k \in 1..c + 1 : app[k].to = IF rec[l[k]].method = "garbled" THEN 0 ELSE l[k]
  <2> TAKE k \in 1..c + 1
  <2>1. CASE k = c + 1
    BY <2>1, <1>5, <1>6
  <2>2. CASE k # c + 1
    <3>1. k \in 1..c
      BY <2>2, <1>2
    <3> QED
      BY <3>1, <1>5, <1>6
  <2> QED
    BY <2>1, <2>2
<1>8. Tells(l, app, rec)
  BY <1>5, <1>6, <1>7 DEF Tells
<1> QED
  BY <1>2, <1>8 DEF app

(* The property in these words (AnsweredInOrder). *)
LEMMA AnsweredTells ==
  /\ call = NoCall => (AnsweredInOrder <=> \E line \in InOrder(Due) : Tells(line, answers, received))
  /\ call # NoCall => (AnsweredInOrder <=> \E line \in InOrder(Due \ {now}) :
                                               Tells(line, answers, received))
BY DEF AnsweredInOrder, Tells

(* What is to be answered are lines (Due). *)
LEMMA DueLines ==
  ASSUME ServerTypes
  PROVE  now \in Nat /\ Due \in SUBSET (1..now)
<1>1. now \in Nat
  BY DEF ServerTypes, now
<1> QED
  BY <1>1 DEF Due

(* Sets with the same elements are the same. *)
LEMMA SameElements ==
  ASSUME NEW A, NEW B, \A i : i \in A <=> i \in B
  PROVE  A = B
OBVIOUS

(* A line is received (Receive). *)
LEMMA Received ==
  ASSUME ServerTypes, NEW m \in Messages, Receive(m)
  PROVE  /\ now \in Nat /\ now' = now + 1
         /\ received' \in Seq(Messages)
         /\ \A i \in 1..now : received'[i] = received[i]
         /\ received'[now + 1] = m
         /\ Due \in SUBSET (1..now)
         /\ Due' = IF IsDue(m) THEN Due \cup {now + 1} ELSE Due
<1>1. received \in Seq(Messages) /\ received' = Append(received, m)
  BY DEF ServerTypes, Receive
<1>2. /\ now \in Nat /\ now' = now + 1
      /\ received' \in Seq(Messages)
      /\ \A i \in 1..now : received'[i] = received[i]
      /\ received'[now + 1] = m
  BY <1>1 DEF now
<1>3. Due' = {i \in 1..now + 1 : IsDue(received'[i])}
  BY <1>2 DEF Due
<1>4. \A i \in 1..now : i \in Due' <=> i \in Due
  <2>1. \A i \in 1..now : i \in Due' <=> IsDue(received'[i])
    BY <1>2, <1>3
  <2>2. \A i \in 1..now : i \in Due <=> IsDue(received[i])
    BY DEF Due
  <2> QED
    BY <1>2, <2>1, <2>2, Zenon
<1>5. now + 1 \in Due' <=> IsDue(m)
  BY <1>2, <1>3
<1>6. Due \in SUBSET (1..now) /\ Due' \in SUBSET (1..now + 1)
  BY <1>2, <1>3 DEF Due
<1>7. \A i : i \in 1..now + 1 => i \in 1..now \/ i = now + 1
  BY <1>2
<1>8. now + 1 \notin 1..now
  BY <1>2
<1>9. ASSUME IsDue(m) PROVE Due' = Due \cup {now + 1}
  <2>1. now + 1 \in Due'
    BY <1>5, <1>9, Zenon
  <2>2. \A i : i \in Due' <=> i \in Due \cup {now + 1}
    BY <1>4, <1>6, <1>7, <2>1
  <2> QED
    BY ONLY <2>2, SameElements, Zenon
<1>10. ASSUME ~IsDue(m) PROVE Due' = Due
  <2>1. now + 1 \notin Due'
    BY <1>5, <1>10, Zenon
  <2>2. \A i : i \in Due' <=> i \in Due
    BY <1>4, <1>6, <1>7, <1>8, <2>1
  <2> QED
    BY ONLY <2>2, SameElements, Zenon
<1> QED
  BY <1>2, <1>6, <1>9, <1>10, Zenon

-----------------------------------------------------------------------------
(* The types of what a step does to the lines and the answers. *)

(* A line that is not answered, or not yet (Notified, StartCall). *)
LEMMA TypesAfterLine ==
  ASSUME ServerTypes, NEW m \in Messages, Receive(m), answers' = answers
  PROVE  ServerTypes'
<1>1. stored' = stored /\ concept' = concept
  BY DEF Receive
<1>2. now \in Nat /\ now' = now + 1 /\ received' \in Seq(Messages)
  BY Received
<1>3. \A k \in DOMAIN answers' : answers'[k].to \in 0..now'
  BY <1>2 DEF ServerTypes
<1> QED
  BY <1>1, <1>2, <1>3 DEF ServerTypes

(* An answer (Answer). *)
LEMMA TypesAfterAnswer ==
  ASSUME answers \in Seq(ToSet(answers)), NEW n \in Nat, NEW n2 \in Nat, n <= n2,
         \A k \in DOMAIN answers : answers[k].to \in 0..n,
         NEW to \in 0..n2, NEW what, Answer(to, what)
  PROVE  /\ answers' \in Seq(ToSet(answers')) /\ \A k \in DOMAIN answers' : answers'[k].to \in 0..n2
         /\ answers' = Append(answers, [to |-> to, result |-> what])
         /\ Len(answers) \in Nat /\ DOMAIN answers = 1..Len(answers)
         /\ DOMAIN answers' = 1..Len(answers) + 1
         /\ \A k \in 1..Len(answers) : answers'[k] = answers[k]
         /\ answers'[Len(answers) + 1] = [to |-> to, result |-> what]
<1> DEFINE e == [to |-> to, result |-> what]
<1>1. answers' = Append(answers, e)
  BY DEF Answer
<1> HIDE DEF e
<1>2. /\ answers' \in Seq(ToSet(answers'))
      /\ Len(answers) \in Nat /\ DOMAIN answers = 1..Len(answers)
      /\ DOMAIN answers' = 1..Len(answers) + 1
      /\ \A k \in 1..Len(answers) : answers'[k] = answers[k]
      /\ answers'[Len(answers) + 1] = e
  BY <1>1, Appended
<1>3. \A k \in DOMAIN answers' : answers'[k].to \in 0..n2
  <2> TAKE k \in DOMAIN answers'
  <2>1. CASE k \in 1..Len(answers)
    <3>1. answers'[k].to \in 0..n
      BY <2>1, <1>2
    <3> QED
      BY <3>1
  <2>2. CASE k = Len(answers) + 1
    <3>1. answers'[k].to = to
      BY <2>2, <1>2 DEF e
    <3> QED
      BY <3>1
  <2> QED
    BY <1>2, <2>1, <2>2
<1> QED
  BY <1>1, <1>2, <1>3 DEF e

-----------------------------------------------------------------------------
(* The order of the answers. *)

(* A line that is not answered (SkipLine, StopServing, Notified). *)
LEMMA OrderAfterLine ==
  ASSUME ServerTypes, AnsweredInOrder, NEW m \in Messages, Receive(m), ~IsDue(m),
         UNCHANGED <<answers, call>>
  PROVE  AnsweredInOrder'
<1>1. /\ now \in Nat /\ Due \in SUBSET (1..now) /\ Due' = Due
      /\ \A i \in 1..now : received'[i] = received[i]
  BY Received
<1>2. call = NoCall /\ call' = NoCall
  BY DEF Receive
<1>3. PICK line \in InOrder(Due) : Tells(line, answers, received)
  BY <1>2, AnsweredTells
<1>4. Tells(line, answers, received')
  BY <1>1, <1>3, TellsStill
<1>5. \E l \in InOrder(Due') : Tells(l, answers', received')
  BY <1>1, <1>3, <1>4
<1> QED
  BY <1>2, <1>5 DEF AnsweredInOrder, Tells

(* A line that a tool is to answer (StartCall). *)
LEMMA OrderAfterCall ==
  ASSUME ServerTypes, AnsweredInOrder, NEW m \in Messages, Receive(m), IsDue(m),
         answers' = answers, call' # NoCall
  PROVE  AnsweredInOrder'
<1>1. /\ now \in Nat /\ now' = now + 1 /\ Due \in SUBSET (1..now) /\ Due' = Due \cup {now + 1}
      /\ \A i \in 1..now : received'[i] = received[i]
  BY Received
<1>2. call = NoCall
  BY DEF Receive
<1>3. PICK line \in InOrder(Due) : Tells(line, answers, received)
  BY <1>2, AnsweredTells
<1>4. Tells(line, answers, received')
  BY <1>1, <1>3, TellsStill
<1>5. Due' \ {now'} = Due
  <2>1. now + 1 \notin Due
    BY <1>1
  <2> QED
    BY <1>1, <2>1
<1>6. \E l \in InOrder(Due' \ {now'}) : Tells(l, answers', received')
  BY <1>3, <1>4, <1>5
<1> QED
  BY <1>6 DEF AnsweredInOrder, Tells

(* A line that is answered at once (Garbled, AnswerMethod, RefuseCall). *)
LEMMA OrderAfterAnswer ==
  ASSUME ServerTypes, AnsweredInOrder, NEW m \in Messages, Receive(m), IsDue(m), call' = call,
         NEW what, Answer(IF m.method = "garbled" THEN 0 ELSE now + 1, what)
  PROVE  AnsweredInOrder'
<1>1. /\ now \in Nat /\ now' = now + 1 /\ Due \in SUBSET (1..now) /\ Due' = Due \cup {now + 1}
      /\ \A i \in 1..now : received'[i] = received[i]
      /\ received'[now + 1] = m
  BY Received
<1>2. call = NoCall /\ call' = NoCall
  BY DEF Receive
<1>3. PICK line \in InOrder(Due) : Tells(line, answers, received)
  BY <1>2, AnsweredTells
<1>4. Tells(line, answers, received')
  BY <1>1, <1>3, TellsStill
<1> DEFINE x == now + 1
           e == [to |-> IF m.method = "garbled" THEN 0 ELSE x, result |-> what]
<1>5. answers' = Append(answers, e) /\ answers \in Seq(ToSet(answers))
  BY DEF Answer, ServerTypes
<1>6. e.to = IF received'[x].method = "garbled" THEN 0 ELSE x
  BY <1>1
<1>7. x \in Nat /\ \A y \in Due : y < x
  BY <1>1
<1> HIDE DEF x, e
<1>8. \E l \in InOrder(Due \cup {x}) : Tells(l, Append(answers, e), received')
  BY <1>1, <1>3, <1>4, <1>5, <1>6, <1>7, TellsMore
<1>9. \E l \in InOrder(Due') : Tells(l, answers', received')
  BY <1>1, <1>5, <1>8 DEF x
<1> QED
  BY <1>2, <1>9 DEF AnsweredInOrder, Tells

(* What another process does, or a tool that goes on. *)
LEMMA OrderAfterStep ==
  ASSUME AnsweredInOrder, UNCHANGED <<received, answers>>, call' = NoCall <=> call = NoCall
  PROVE  AnsweredInOrder'
BY DEF AnsweredInOrder, Due, now

(* The answer of a tool (Finish). *)
LEMMA OrderAfterFinish ==
  ASSUME ServerTypes, CallInv, AnsweredInOrder, call # NoCall, NEW what, Finish(what)
  PROVE  AnsweredInOrder'
<1>1. now \in Nat /\ Due \in SUBSET (1..now)
  BY DueLines
<1>2. now > 0 /\ received[now].method = "tools/call" /\ received[now].id
  BY DEF CallInv, CallOK
<1>3. IsDue(received[now])
  BY <1>2 DEF IsDue
<1>4. now \in Due
  <2>1. now \in 1..now
    BY <1>1, <1>2
  <2> QED
    BY <1>3, <2>1 DEF Due
<1> DEFINE S == Due \ {now}
<1>5. PICK line \in InOrder(S) : Tells(line, answers, received)
  BY AnsweredTells
<1> DEFINE e == [to |-> now, result |-> what]
<1>6. /\ answers' = Append(answers, e) /\ answers \in Seq(ToSet(answers))
      /\ received' = received /\ call' = NoCall
  BY DEF Finish, Answer, ServerTypes
<1>7. e.to = IF received[now].method = "garbled" THEN 0 ELSE now
  BY <1>2
<1>8. S \in SUBSET (1..now) /\ \A y \in S : y < now
  BY <1>1
<1>9. S \cup {now} = Due
  BY <1>4
<1> HIDE DEF S, e
<1>10. \E l \in InOrder(S \cup {now}) : Tells(l, Append(answers, e), received)
  BY <1>1, <1>5, <1>6, <1>7, <1>8, TellsMore
<1>11. Due' = Due
  BY <1>6 DEF Due, now
<1>12. \E l \in InOrder(Due') : Tells(l, answers', received')
  BY <1>6, <1>9, <1>10, <1>11
<1> QED
  BY <1>6, <1>12 DEF AnsweredInOrder, Tells

-----------------------------------------------------------------------------
(* The scopes of the results. *)

(* A line that is not answered, and what another process does. *)
LEMMA ScopesAfterLine ==
  ASSUME ServerTypes, ResultsKeepTheirScope, answers' = answers,
         \A i \in 1..now : received'[i] = received[i]
  PROVE  ResultsKeepTheirScope'
BY DEF ServerTypes, ResultsKeepTheirScope

(* An answer: of kb_search, each article with its own scope. *)
LEMMA ScopesAfterAnswer ==
  ASSUME ServerTypes, ResultsKeepTheirScope, now \in Nat, NEW n2 \in Nat, now <= n2,
         \A i \in 1..now : received'[i] = received[i],
         NEW to \in 0..n2, NEW what, Answer(to, what),
         to > 0 /\ received'[to].tool = "kb_search" => \A r \in what : r.scope = r.article[1]
  PROVE  ResultsKeepTheirScope'
<1>1. answers \in Seq(ToSet(answers)) /\ \A k \in DOMAIN answers : answers[k].to \in 0..now
  BY DEF ServerTypes
<1>2. /\ Len(answers) \in Nat /\ DOMAIN answers = 1..Len(answers)
      /\ DOMAIN answers' = 1..Len(answers) + 1
      /\ \A k \in 1..Len(answers) : answers'[k] = answers[k]
      /\ answers'[Len(answers) + 1] = [to |-> to, result |-> what]
  <2> DEFINE e == [to |-> to, result |-> what]
  <2>1. answers' = Append(answers, e)
    BY DEF Answer
  <2> HIDE DEF e
  <2>2. /\ Len(answers) \in Nat /\ DOMAIN answers = 1..Len(answers)
        /\ DOMAIN answers' = 1..Len(answers) + 1
        /\ \A k \in 1..Len(answers) : answers'[k] = answers[k]
        /\ answers'[Len(answers) + 1] = e
    BY <1>1, <2>1, Appended
  <2> QED
    BY <2>2 DEF e
<1> SUFFICES ASSUME NEW k \in DOMAIN answers', answers'[k].to > 0,
                    received'[answers'[k].to].tool = "kb_search"
             PROVE  \A r \in answers'[k].result : r.scope = r.article[1]
  BY DEF ResultsKeepTheirScope
<1>3. CASE k \in 1..Len(answers)
  <2>1. answers'[k] = answers[k] /\ answers[k].to \in 1..now /\ k \in DOMAIN answers
    BY <1>1, <1>2, <1>3
  <2>2. received'[answers[k].to] = received[answers[k].to]
    BY <2>1
  <2> QED
    BY <2>1, <2>2 DEF ResultsKeepTheirScope
<1>4. CASE k = Len(answers) + 1
  BY <1>2, <1>4
<1> QED
  BY <1>2, <1>3, <1>4

-----------------------------------------------------------------------------
(* The call in the works. *)

(* The lines received so far stay: so does what is said of the call. *)
LEMMA CallStill ==
  ASSUME NEW c, CallOK(c), UNCHANGED received
  PROVE  CallOK(c)'
BY DEF CallOK, now

(* What the tools read: the articles of a scope, in some order (ArticlesOf). *)
LEMMA ArticlesOfType ==
  ASSUME ServerTypes, NEW s
  PROVE  /\ ArticlesOf(s) \in Listing
         /\ \A i \in 1..Len(ArticlesOf(s)) : ArticlesOf(s)[i][1] = s
<1> DEFINE S == {a \in stored : a[1] = s}
<1>1. IsFiniteSet(Scope \X Name)
  BY WikiIsFinite, FS_Product
<1>2. S \subseteq Scope \X Name
  BY DEF ServerTypes
<1>3. IsFiniteSet(S)
  BY <1>1, <1>2, FS_Subset
<1>4. \A a \in S : a[1] = s
  OBVIOUS
<1>5. ArticlesOf(s) = SetToSeq(S)
  BY DEF ArticlesOf
<1> HIDE DEF S
<1>6. ArticlesOf(s) \in Seq(S)
  BY <1>3, <1>5, SetToSeqType
<1> QED
  BY <1>2, <1>4, <1>6 DEF Listing

(* kb_search lists a scope (ListScope). *)
LEMMA CallAfterListScope ==
  ASSUME ServerTypes, CallInv, ListScope
  PROVE  call' # NoCall /\ CallOK(call')
<1>1. CallOK(call) /\ call.tool = "kb_search"
  BY DEF CallInv, ListScope, Working
<1>2. call.todo \in Seq(Scope) /\ call.todo # <<>> /\ call.listed \in Listing /\ call.owners \in Seq(Scope)
  BY <1>1 DEF CallOK, Call, ListScope
<1> DEFINE s == Head(call.todo)
           new == ArticlesOf(s)
           own == [i \in 1..Len(new) |-> s]
           c == [call EXCEPT !.todo = Tail(@), !.listed = @ \o new, !.owners = @ \o own]
<1>3. s \in Scope /\ Tail(call.todo) \in Seq(Scope)
  BY <1>2
<1>4. new \in Listing /\ \A i \in 1..Len(new) : new[i][1] = s
  BY ArticlesOfType
<1>5. call' = c
  BY DEF ListScope, Continue
<1>6. own \in Seq(Scope) /\ Len(own) = Len(new) /\ \A i \in 1..Len(new) : own[i] = s
  <2> HIDE DEF s, new
  <2>1. Len(new) \in Nat
    BY <1>4 DEF Listing
  <2>2. own \in [1..Len(new) -> Scope]
    BY <1>3
  <2> QED
    BY <2>1, <2>2, SeqOfFunction
<1> HIDE DEF s, new, own
<1> DEFINE ls == call.listed \o new
           os == call.owners \o own
<1>7. ls \in Listing /\ os \in Seq(Scope) /\ Len(ls) = Len(os)
      /\ \A i \in 1..Len(ls) : os[i] = ls[i][1]
  <2>1. call.listed \in Seq(Scope \X Name) /\ new \in Seq(Scope \X Name)
    BY <1>2, <1>4 DEF Listing
  <2>2. Len(call.owners) = Len(call.listed) /\ \A i \in 1..Len(call.listed) : call.owners[i] = call.listed[i][1]
    BY <1>1 DEF CallOK
  <2>3. /\ ls \in Seq(Scope \X Name) /\ Len(ls) = Len(call.listed) + Len(new)
        /\ Len(call.listed) \in Nat /\ Len(new) \in Nat
        /\ \A i \in 1..Len(call.listed) : ls[i] = call.listed[i]
        /\ \A i \in 1..Len(new) : ls[Len(call.listed) + i] = new[i]
    BY <2>1, Joined
  <2>4. /\ os \in Seq(Scope) /\ Len(os) = Len(call.owners) + Len(own)
        /\ \A i \in 1..Len(call.owners) : os[i] = call.owners[i]
        /\ \A i \in 1..Len(own) : os[Len(call.owners) + i] = own[i]
    <3>1. call.owners \in Seq(Scope) /\ own \in Seq(Scope)
      BY <1>2, <1>6
    <3> QED
      BY <3>1, Joined
  <2> HIDE DEF ls, os
  <2>5. ASSUME NEW i \in 1..Len(ls) PROVE os[i] = ls[i][1]
    <3>1. CASE i \in 1..Len(call.listed)
      BY <3>1, <2>2, <2>3, <2>4
    <3>2. CASE i \notin 1..Len(call.listed)
      <4>1. PICK j \in 1..Len(new) : i = Len(call.listed) + j
        <5>1. i - Len(call.listed) \in 1..Len(new) /\ i = Len(call.listed) + (i - Len(call.listed))
          BY <3>2, <2>3
        <5> QED
          BY <5>1
      <4> QED
        BY <4>1, <1>4, <1>6, <2>2, <2>3, <2>4
    <3> QED
      BY <3>1, <3>2
  <2> QED
    BY <1>6, <2>2, <2>3, <2>4, <2>5 DEF Listing
<1> HIDE DEF ls, os
<1>8. c = [call EXCEPT !.todo = Tail(@), !.listed = ls, !.owners = os]
  BY DEF ls, os
<1>9. /\ c \in Call
      /\ c.tool = call.tool /\ c.scopes = call.scopes /\ c.step = call.step
      /\ c.todo = Tail(call.todo) /\ c.listed = ls /\ c.owners = os
  <2>1. call \in Call
    BY <1>1 DEF CallOK
  <2> HIDE DEF c
  <2> QED
    BY <1>3, <1>7, <1>8, <2>1 DEF Call
<1>10. CallOK(c)
  <2> HIDE DEF c
  <2>1. call.step = "start"
    BY DEF ListScope
  <2> QED
    BY <1>1, <1>3, <1>7, <1>9, <2>1 DEF CallOK
<1>11. c # NoCall
  BY <1>1, <1>9 DEF NoCall
<1> QED
  BY <1>5, <1>10, <1>11

(* kb_search drops what is excluded (Exclude). *)
LEMMA CallAfterExclude ==
  ASSUME ServerTypes, CallInv, Exclude
  PROVE  call' # NoCall /\ CallOK(call')
<1>1. CallOK(call) /\ call.tool = "kb_search" /\ call \in Call
  BY DEF CallInv, CallOK, Exclude, Working
<1>2. PICK at \in InOrder(Kept) :
         call' = [call EXCEPT !.step = "rank", !.listed = [k \in DOMAIN at |-> @[at[k]]],
                                               !.owners = [k \in DOMAIN at |-> @[at[k]]]]
  BY DEF Exclude, Continue
<1> DEFINE n == Cardinality(Kept)
           ls == [k \in DOMAIN at |-> call.listed[at[k]]]
           os == [k \in DOMAIN at |-> call.owners[at[k]]]
<1>3. /\ call.listed \in Seq(Scope \X Name) /\ call.owners \in Seq(Scope)
      /\ Len(call.owners) = Len(call.listed)
      /\ \A i \in 1..Len(call.listed) : call.owners[i] = call.listed[i][1]
  BY <1>1 DEF CallOK, Call, Listing
<1>4. Kept \subseteq 1..Len(call.listed)
  BY <1>3 DEF Kept
<1>5. n \in Nat
  <2>1. Len(call.listed) \in Nat
    BY <1>3
  <2>2. IsFiniteSet(1..Len(call.listed))
    BY <2>1, FS_Interval
  <2>3. IsFiniteSet(Kept)
    BY <2>2, <1>4, FS_Subset
  <2> QED
    BY <2>3, FS_CardinalityType
<1>6. DOMAIN at = 1..n /\ \A k \in 1..n : at[k] \in 1..Len(call.listed)
  BY <1>2, <1>4 DEF InOrder
<1> HIDE DEF n
<1>7. ls \in [1..n -> Scope \X Name] /\ os \in [1..n -> Scope] /\ \A k \in 1..n : os[k] = ls[k][1]
  BY <1>3, <1>6
<1>8. call' = [call EXCEPT !.step = "rank", !.listed = ls, !.owners = os]
  BY <1>2
<1> HIDE DEF ls, os
<1>9. ls \in Seq(Scope \X Name) /\ os \in Seq(Scope) /\ Len(ls) = n /\ Len(os) = n
  BY <1>5, <1>7, SeqOfFunction
<1>10. /\ call' \in Call
       /\ call'.tool = call.tool /\ call'.scopes = call.scopes /\ call'.step = "rank"
       /\ call'.todo = call.todo /\ call'.listed = ls /\ call'.owners = os
  BY <1>1, <1>8, <1>9 DEF Call, Listing
<1>11. CallOK(call')
  BY <1>1, <1>7, <1>9, <1>10 DEF CallOK
<1> QED
  BY <1>1, <1>10, <1>11 DEF NoCall

(* kb_glossary has read the index, or one article (ReadConcept, ReadDefinition). *)
LEMMA CallAfterReadConcept ==
  ASSUME ServerTypes, CallInv, Working, call.tool = "kb_glossary", NEW named \in Listing,
         call' = [call EXCEPT !.step = "define", !.todo = named]
  PROVE  call' # NoCall /\ CallOK(call')
<1>1. CallOK(call) /\ call \in Call
  BY DEF CallInv, CallOK, Working
<1>2. /\ call' \in Call
      /\ call'.tool = call.tool /\ call'.scopes = call.scopes /\ call'.step = "define"
      /\ call'.todo = named
  BY <1>1 DEF Call
<1> QED
  BY <1>1, <1>2 DEF CallOK, NoCall

LEMMA CallAfterReadDefinition ==
  ASSUME ServerTypes, CallInv, ReadDefinition
  PROVE  call' # NoCall /\ CallOK(call')
<1>1. CallOK(call) /\ call \in Call /\ call.step = "define"
  BY DEF CallInv, CallOK, ReadDefinition, Working
<1>2. call.tool = "kb_glossary" /\ call.todo \in Seq(Scope \X Name) /\ call.listed \in Seq(Scope \X Name)
      /\ call.todo # <<>>
  BY <1>1 DEF CallOK, Call, Listing, ReadDefinition
<1> DEFINE a == Head(call.todo)
           ls == IF a \in stored THEN Append(call.listed, a) ELSE call.listed
<1>3. a \in Scope \X Name /\ Tail(call.todo) \in Listing
  BY <1>2 DEF Listing
<1>4. call' = [call EXCEPT !.todo = Tail(call.todo), !.listed = ls]
  BY DEF ReadDefinition, Continue
<1> HIDE DEF a
<1>5. ls \in Listing
  BY <1>2, <1>3 DEF Listing
<1> HIDE DEF ls
<1>6. /\ call' \in Call
      /\ call'.tool = call.tool /\ call'.scopes = call.scopes /\ call'.step = "define"
      /\ call'.todo \in Listing
  BY <1>1, <1>3, <1>4, <1>5 DEF Call
<1> QED
  BY <1>1, <1>2, <1>6 DEF CallOK, NoCall

(* kb_stats has listed the articles (ListAll). *)
LEMMA CallAfterListAll ==
  ASSUME ServerTypes, CallInv, Working, call.tool = "kb_stats", NEW all \in Listing,
         call' = [call EXCEPT !.step = "count", !.listed = all]
  PROVE  call' # NoCall /\ CallOK(call')
<1>1. CallOK(call) /\ call \in Call
  BY DEF CallInv, CallOK, Working
<1>2. /\ call' \in Call
      /\ call'.tool = call.tool /\ call'.scopes = call.scopes /\ call'.step = "count"
  BY <1>1 DEF Call
<1> QED
  BY <1>1, <1>2 DEF CallOK, NoCall

(* A tool is called (StartCall). *)
LEMMA CallAfterStart ==
  ASSUME ServerTypes, NEW m \in Messages, StartCall(m)
  PROVE  call' # NoCall /\ CallOK(call)' /\ IsDue(m)
<1>1. Receive(m) /\ m.id /\ m.method = "tools/call" /\ m.tool \in Tools
  BY DEF StartCall, Notification
<1>2. now \in Nat /\ now' = now + 1 /\ received'[now + 1] = m
  BY <1>1, Received
<1>3. m.scopes \in Seq(Scope) /\ m.exclude \in BOOLEAN /\ (m.tool # "kb_search" => Len(m.scopes) = 1)
  BY <1>1, MessagesAssumption DEF Message, Request
<1>4. call' = [tool |-> m.tool, scopes |-> m.scopes, exclude |-> m.exclude, step |-> "start",
               todo |-> m.scopes, listed |-> <<>>, owners |-> <<>>]
  BY DEF StartCall
<1>5. /\ call' \in Call
      /\ call'.tool = m.tool /\ call'.scopes = m.scopes /\ call'.step = "start"
      /\ call'.todo = m.scopes /\ call'.listed = <<>> /\ call'.owners = <<>>
  BY <1>1, <1>3, <1>4 DEF Call, Listing
<1>6. now' > 0 /\ received'[now'] = m
  BY <1>2
<1>7. CallOK(call)'
  BY <1>1, <1>3, <1>5, <1>6 DEF CallOK
<1>8. IsDue(m)
  BY <1>1 DEF IsDue
<1> QED
  BY <1>1, <1>5, <1>7, <1>8 DEF NoCall, Tools

(* What kb_search answers: the first place of an article is one of them    *)
(* (ResultScope, RankResults).                                             *)
LEMMA RankedScopes ==
  ASSUME ServerTypes, CallInv, Working, call.tool = "kb_search", NEW a \in ToSet(call.listed)
  PROVE  ResultScope(a) = a[1]
<1>1. CallOK(call)
  BY DEF CallInv, Working
<1>2. /\ call.listed \in Seq(Scope \X Name)
      /\ \A i \in 1..Len(call.listed) : call.owners[i] = call.listed[i][1]
  BY <1>1 DEF CallOK, Call, Listing
<1> DEFINE P(i) == call.listed[i] = a /\ \A j \in 1..i - 1 : call.listed[j] # a
           places == {i \in DOMAIN call.listed : call.listed[i] = a}
<1>3. places # {} /\ places \subseteq Nat /\ DOMAIN call.listed = 1..Len(call.listed)
      /\ Len(call.listed) \in Nat
  BY <1>2 DEF ToSet
<1>4. PICK i \in places : \A j \in places : i <= j
  BY <1>3, LeastInSet
<1>5. i \in DOMAIN call.listed /\ P(i)
  BY <1>3, <1>4
<1> DEFINE k == CHOOSE x \in DOMAIN call.listed : P(x)
<1>6. k \in DOMAIN call.listed /\ P(k)
  <2> HIDE DEF P
  <2> QED
    BY <1>5
<1>7. ResultScope(a) = call.owners[k]
  BY DEF ResultScope
<1> QED
  BY <1>2, <1>3, <1>6, <1>7

-----------------------------------------------------------------------------
(* The steps of the server. *)

(* A line that is not answered. *)
LEMMA UnansweredStep ==
  ASSUME ServerInv, NEW m \in Messages, SkipLine(m) \/ StopServing(m) \/ Notified(m)
  PROVE  ServerInv'
<1>1. ServerTypes /\ AnsweredInOrder /\ ResultsKeepTheirScope
  BY DEF ServerInv
<1>2. Receive(m) /\ ~IsDue(m) /\ UNCHANGED <<answers, call>>
  BY DEF SkipLine, StopServing, Notified, Notification, IsDue
<1>3. call' = NoCall
  BY <1>2 DEF Receive
<1>4. \A i \in 1..now : received'[i] = received[i]
  BY <1>1, <1>2, Received
<1>5. ServerTypes' /\ AnsweredInOrder' /\ ResultsKeepTheirScope'
  BY <1>1, <1>2, <1>4, TypesAfterLine, OrderAfterLine, ScopesAfterLine
<1> QED
  BY <1>3, <1>5 DEF ServerInv, CallInv

(* A line that is answered at once. *)
LEMMA AnsweredStep ==
  ASSUME ServerInv, NEW m \in Messages, Garbled(m) \/ AnswerMethod(m) \/ RefuseCall(m)
  PROVE  ServerInv'
<1>1. ServerTypes /\ AnsweredInOrder /\ ResultsKeepTheirScope
  BY DEF ServerInv
<1>2. m \in Message
  BY MessagesAssumption
<1>3. m.tool # "kb_search" \/ m.method = "garbled"
  BY <1>2 DEF Message, Garbled, AnswerMethod, RefuseCall
<1>4. Receive(m) /\ IsDue(m) /\ call' = call
  BY DEF Garbled, AnswerMethod, RefuseCall, Notification, IsDue
<1> DEFINE to == IF m.method = "garbled" THEN 0 ELSE now + 1
<1>5. PICK what : Answer(to, what)
  <2>1. CASE Garbled(m)
    BY <2>1 DEF Garbled
  <2>2. CASE AnswerMethod(m)
    BY <2>2 DEF AnswerMethod
  <2>3. CASE RefuseCall(m)
    BY <2>3 DEF RefuseCall
  <2> QED
    BY <2>1, <2>2, <2>3
<1>6. /\ now \in Nat /\ now' = now + 1 /\ received' \in Seq(Messages)
      /\ \A i \in 1..now : received'[i] = received[i]
      /\ received'[now + 1] = m
  BY <1>1, <1>4, Received
<1>7. stored' = stored /\ concept' = concept /\ call' = NoCall
  BY <1>4 DEF Receive
<1>8. to \in 0..now + 1 /\ (to > 0 => received'[to].tool # "kb_search")
  BY <1>3, <1>6
<1>9. now + 1 \in Nat /\ now <= now + 1
  BY <1>6
<1>10. AnsweredInOrder'
  BY <1>1, <1>4, <1>5, OrderAfterAnswer
<1> HIDE DEF to
<1>11. answers' \in Seq(ToSet(answers')) /\ \A k \in DOMAIN answers' : answers'[k].to \in 0..now + 1
  <2>1. answers \in Seq(ToSet(answers)) /\ \A k \in DOMAIN answers : answers[k].to \in 0..now
    BY <1>1 DEF ServerTypes
  <2> QED
    BY <2>1, <1>5, <1>6, <1>8, <1>9, TypesAfterAnswer
<1>12. ServerTypes'
  BY <1>1, <1>6, <1>7, <1>11 DEF ServerTypes
<1>13. ResultsKeepTheirScope'
  BY <1>1, <1>5, <1>6, <1>8, <1>9, ScopesAfterAnswer
<1> QED
  BY <1>7, <1>10, <1>12, <1>13 DEF ServerInv, CallInv

(* A call of a tool. *)
LEMMA StartStep ==
  ASSUME ServerInv, NEW m \in Messages, StartCall(m)
  PROVE  ServerInv'
<1>1. ServerTypes /\ AnsweredInOrder /\ ResultsKeepTheirScope
  BY DEF ServerInv
<1>2. Receive(m) /\ answers' = answers
  BY DEF StartCall
<1>3. call' # NoCall /\ CallOK(call)' /\ IsDue(m)
  BY <1>1, CallAfterStart
<1>4. \A i \in 1..now : received'[i] = received[i]
  BY <1>1, <1>2, Received
<1>5. ServerTypes' /\ AnsweredInOrder' /\ ResultsKeepTheirScope'
  BY <1>1, <1>2, <1>3, <1>4, TypesAfterLine, OrderAfterCall, ScopesAfterLine
<1> QED
  BY <1>3, <1>5 DEF ServerInv, CallInv

(* A tool goes on. *)
LEMMA ContinueStep ==
  ASSUME ServerInv, Working, NEW c, Continue(c), c # NoCall, CallOK(c)
  PROVE  ServerInv'
<1>1. UNCHANGED <<stored, concept, received, answers>> /\ call' = c /\ call # NoCall
  BY DEF Continue, Working
<1>2. CallOK(call)'
  BY <1>1 DEF CallOK, now
<1>3. ServerTypes' /\ ResultsKeepTheirScope'
  BY <1>1 DEF ServerInv, ServerTypes, ResultsKeepTheirScope, now
<1>4. AnsweredInOrder'
  BY <1>1, OrderAfterStep DEF ServerInv
<1> QED
  BY <1>2, <1>3, <1>4 DEF ServerInv, CallInv

(* A tool has its answer. *)
LEMMA FinishStep ==
  ASSUME ServerInv, Working, NEW what, Finish(what),
         call.tool = "kb_search" => \A r \in what : r.scope = r.article[1]
  PROVE  ServerInv'
<1>1. ServerTypes /\ AnsweredInOrder /\ ResultsKeepTheirScope /\ CallOK(call) /\ CallInv
  BY DEF ServerInv, CallInv, Working
<1>2. UNCHANGED <<stored, concept, received>> /\ call' = NoCall /\ Answer(now, what)
  BY DEF Finish
<1>3. now \in Nat
  BY <1>1, DueLines
<1>4. received[now].tool = call.tool
  BY <1>1 DEF CallOK
<1>5. now \in 0..now /\ now <= now
  BY <1>3
<1>6. answers' \in Seq(ToSet(answers')) /\ \A k \in DOMAIN answers' : answers'[k].to \in 0..now
  <2>1. answers \in Seq(ToSet(answers)) /\ \A k \in DOMAIN answers : answers[k].to \in 0..now
    BY <1>1 DEF ServerTypes
  <2> QED
    BY <2>1, <1>2, <1>3, <1>5, TypesAfterAnswer
<1>7. ServerTypes'
  BY <1>1, <1>2, <1>6 DEF ServerTypes, now
<1>8. ResultsKeepTheirScope'
  BY <1>1, <1>2, <1>3, <1>4, <1>5, ScopesAfterAnswer
<1>9. AnsweredInOrder'
  BY <1>1, OrderAfterFinish DEF Working
<1> QED
  BY <1>2, <1>7, <1>8, <1>9 DEF ServerInv, CallInv

(* Another process changes the wiki. *)
LEMMA OtherStep ==
  ASSUME ServerInv, NEW a \in Scope \X Name, OtherSaves(a) \/ OtherDeletes(a)
  PROVE  ServerInv'
<1>1. UNCHANGED <<received, answers, call>>
  BY DEF OtherSaves, OtherDeletes
<1>2. stored' \in SUBSET (Scope \X Name) /\ concept' \in SUBSET (Scope \X Name)
  BY DEF OtherSaves, OtherDeletes, ServerInv, ServerTypes
<1>3. ServerTypes' /\ ResultsKeepTheirScope'
  BY <1>1, <1>2 DEF ServerInv, ServerTypes, ResultsKeepTheirScope, now
<1>4. AnsweredInOrder'
  BY <1>1, OrderAfterStep DEF ServerInv
<1>5. CallInv'
  BY <1>1 DEF ServerInv, CallInv, CallOK, now
<1> QED
  BY <1>3, <1>4, <1>5 DEF ServerInv

(* ServerInv is inductive. *)
LEMMA ServerInvStep ==
  ASSUME ServerInv, [ServerNext]_serverVars
  PROVE  ServerInv'
<1>1. ServerTypes /\ CallInv
  BY DEF ServerInv
<1>2. CASE Handle
  BY <1>2, UnansweredStep, AnsweredStep, StartStep DEF Handle
<1>3. CASE ListScope
  <2>1. call' # NoCall /\ CallOK(call') /\ Working /\ Continue(call')
    BY <1>1, <1>3, CallAfterListScope DEF ListScope, Continue
  <2> QED
    BY <2>1, ContinueStep
<1>4. CASE Exclude
  <2>1. call' # NoCall /\ CallOK(call') /\ Working /\ Continue(call')
    BY <1>1, <1>4, CallAfterExclude DEF Exclude, Continue
  <2> QED
    BY <2>1, ContinueStep
<1>5. CASE RankResults
  <2>1. PICK hits \in SUBSET ToSet(call.listed) :
           Finish({[article |-> a, scope |-> ResultScope(a)] : a \in hits})
    BY <1>5 DEF RankResults
  <2>2. Working /\ call.tool = "kb_search"
    BY <1>5 DEF RankResults
  <2>3. \A a \in hits : ResultScope(a) = a[1]
    BY <1>1, <2>2, RankedScopes
  <2> DEFINE what == {[article |-> a, scope |-> ResultScope(a)] : a \in hits}
  <2>4. \A r \in what : r.scope = r.article[1]
    BY <2>3
  <2> HIDE DEF what
  <2>5. Finish(what)
    BY <2>1 DEF what
  <2> QED
    BY <2>2, <2>4, <2>5, FinishStep
<1>6. CASE ReadConcept
  <2> DEFINE named == SetToSeq({a \in concept : a[1] = call.scopes[1]})
  <2>1. Working /\ call.tool = "kb_glossary"
    BY <1>6 DEF ReadConcept
  <2>2. named \in Listing
    <3> DEFINE S == {a \in concept : a[1] = call.scopes[1]}
    <3>1. S \subseteq Scope \X Name
      BY <1>1 DEF ServerTypes
    <3>2. IsFiniteSet(S)
      BY <3>1, WikiIsFinite, FS_Product, FS_Subset
    <3> HIDE DEF S
    <3>3. SetToSeq(S) \in Seq(S)
      BY <3>2, SetToSeqType
    <3> QED
      BY <3>1, <3>3 DEF Listing, S
  <2>3. IF named = <<>> THEN Finish("unresolved")
        ELSE Continue([call EXCEPT !.step = "define", !.todo = named])
    BY <1>6 DEF ReadConcept
  <2> HIDE DEF named
  <2>4. CASE named = <<>>
    BY <2>1, <2>3, <2>4, FinishStep
  <2>5. CASE named # <<>>
    <3>1. call' = [call EXCEPT !.step = "define", !.todo = named] /\ Continue(call')
      BY <2>3, <2>5 DEF Continue
    <3>2. call' # NoCall /\ CallOK(call')
      BY <3>1, <2>1, <2>2, <1>1, CallAfterReadConcept
    <3> QED
      BY <2>1, <3>1, <3>2, ContinueStep
  <2> QED
    BY <2>4, <2>5
<1>7. CASE ReadDefinition
  <2>1. call' # NoCall /\ CallOK(call') /\ Working /\ Continue(call')
    BY <1>1, <1>7, CallAfterReadDefinition DEF ReadDefinition, Continue
  <2> QED
    BY <2>1, ContinueStep
<1>8. CASE Define
  <2>1. Working /\ call.step = "define"
        /\ Finish({[article |-> a, scope |-> call.scopes[1]] : a \in ToSet(call.listed)})
    BY <1>8 DEF Define
  <2>2. call.tool = "kb_glossary"
    BY <1>1, <2>1 DEF CallInv, CallOK, Working
  <2> QED
    BY <2>1, <2>2, FinishStep
<1>9. CASE Show
  <2>1. Working /\ call.tool = "kb_show" /\ \E what : Finish(what)
    BY <1>9 DEF Show
  <2> QED
    BY <2>1, FinishStep
<1>10. CASE ListAll
  <2>1. Working /\ call.tool \in {"kb_list", "kb_stats"}
    BY <1>10 DEF ListAll
  <2> DEFINE all == ArticlesOf(call.scopes[1])
  <2>2. all \in Listing
    BY <1>1, ArticlesOfType
  <2>3. IF call.tool = "kb_stats" THEN Continue([call EXCEPT !.step = "count", !.listed = all])
        ELSE Finish({[article |-> a, scope |-> call.scopes[1]] : a \in ToSet(all)})
    BY <1>10 DEF ListAll
  <2> HIDE DEF all
  <2>4. CASE call.tool = "kb_stats"
    <3>1. call' = [call EXCEPT !.step = "count", !.listed = all] /\ Continue(call')
      BY <2>3, <2>4 DEF Continue
    <3>2. call' # NoCall /\ CallOK(call')
      BY <3>1, <2>1, <2>2, <2>4, <1>1, CallAfterListAll
    <3> QED
      BY <2>1, <3>1, <3>2, ContinueStep
  <2>5. CASE call.tool # "kb_stats"
    BY <2>1, <2>3, <2>5, FinishStep
  <2> QED
    BY <2>4, <2>5
<1>11. CASE Count
  <2>1. Working /\ call.step = "count"
        /\ Finish(<<Len(call.listed), \E a \in concept : a[1] = call.scopes[1]>>)
    BY <1>11 DEF Count
  <2>2. call.tool = "kb_stats"
    BY <1>1, <2>1 DEF CallInv, CallOK, Working
  <2> QED
    BY <2>1, <2>2, FinishStep
<1>12. CASE \E a \in Scope \X Name : OtherSaves(a) \/ OtherDeletes(a)
  BY <1>12, OtherStep
<1>13. CASE UNCHANGED serverVars
  BY <1>13 DEF serverVars, ServerInv, ServerTypes, CallInv, CallOK, AnsweredInOrder, Due, now,
               ResultsKeepTheirScope
<1> QED
  BY <1>2, <1>3, <1>4, <1>5, <1>6, <1>7, <1>8, <1>9, <1>10, <1>11, <1>12, <1>13 DEF ServerNext

(* It holds when the server starts. *)
LEMMA ServerInvStart ==
  ASSUME ServerInit
  PROVE  ServerInv
<1>1. stored \in SUBSET (Scope \X Name) /\ concept \in SUBSET (Scope \X Name)
  BY DEF ServerInit
<1>2. received = <<>> /\ answers = <<>> /\ call = NoCall
  BY DEF ServerInit
<1>3. ServerTypes
  BY <1>1, <1>2 DEF ServerTypes
<1>4. Due = {}
  BY <1>2 DEF Due, now
<1>5. Cardinality({}) = 0
  BY FS_EmptySet
<1>6. <<>> \in InOrder(Due)
  BY <1>4, <1>5 DEF InOrder
<1>7. AnsweredInOrder
  BY <1>2, <1>6 DEF AnsweredInOrder
<1> QED
  BY <1>2, <1>3, <1>7 DEF ServerInv, CallInv, ResultsKeepTheirScope

(* Every message with an id is answered exactly once and in the order they *)
(* came, whatever came before, whatever the tools met and whatever other   *)
(* processes did meanwhile (mcp.go:122-258).                               *)
THEOREM EveryLineIsAnswered == ServerInit /\ [][ServerNext]_serverVars => []AnsweredInOrder
<1>1. ServerInit => ServerInv
  BY ServerInvStart
<1>2. ServerInv /\ [ServerNext]_serverVars => ServerInv'
  BY ServerInvStep
<1>3. ServerInv => AnsweredInOrder
  BY DEF ServerInv
<1> QED
  BY <1>1, <1>2, <1>3, PTL

(* kb_search says of every article the scope it was listed from, however   *)
(* many scopes have an article of that id and whatever was excluded        *)
(* (mcp.go:425-494).                                                       *)
THEOREM ResultsAreScoped == ServerInit /\ [][ServerNext]_serverVars => []ResultsKeepTheirScope
<1>1. ServerInit => ServerInv
  BY ServerInvStart
<1>2. ServerInv /\ [ServerNext]_serverVars => ServerInv'
  BY ServerInvStep
<1>3. ServerInv => ResultsKeepTheirScope
  BY DEF ServerInv
<1> QED
  BY <1>1, <1>2, <1>3, PTL

(***************************************************************************)
(* The conversation.                                                       *)
(***************************************************************************)
(* The turns are numbered (Turns). *)
LEMMA TurnsNumbered ==
  ASSUME messages \in Seq(Utterance)
  PROVE  /\ Cardinality(Turns) \in Nat
         /\ Turns = 1..Cardinality(Turns)
         /\ IsFiniteSet(Turns)
<1> DEFINE S == TurnsUpTo(Len(messages))
           m == Cardinality(S)
<1>1. IsFiniteSet(1..Len(messages))
  BY FS_Interval
<1>2. m \in Nat
  <2>1. S \subseteq 1..Len(messages)
    BY DEF TurnsUpTo
  <2> QED
    BY <1>1, <2>1, FS_Subset, FS_CardinalityType
<1>3. Turns = 1..m
  BY DEF Turns
<1> HIDE DEF m
<1>4. IsFiniteSet(1..m) /\ Cardinality(1..m) = m
  BY <1>2, FS_Interval
<1> QED
  BY <1>2, <1>3, <1>4

(* So are the clusters (Clusters). *)
LEMMA ClustersNumbered ==
  ASSUME ClusterInv
  PROVE  /\ Newest \in Nat /\ Clusters = 1..Newest
         /\ \A t \in Turns : cluster[t] \in Nat /\ (cluster[t] # 0 => cluster[t] \in Clusters)
         /\ \A c \in Clusters : \E t \in Turns : cluster[t] = c
<1>1. IsFiniteSet(Turns)
  BY TurnsNumbered DEF ClusterInv, ClusterTypes
<1>2. IsFiniteSet({cluster[t] : t \in Turns})
  <2> DEFINE R == {cluster[t] : t \in Turns}
  <2>1. cluster \in Surjection(Turns, R)
    BY DEF ClusterInv, ClusterTypes, Surjection
  <2> QED
    BY <1>1, <2>1, FS_Surjection
<1>3. IsFiniteSet(Clusters)
  BY <1>2, FS_Subset DEF Clusters
<1>4. Newest \in Nat
  BY <1>3, FS_CardinalityType DEF Newest
<1> QED
  BY <1>4 DEF ClusterInv, ClusterTypes, Clusters

(* The turns and their names stay, with the transcript. *)
LEMMA TranscriptStays ==
  ASSUME UNCHANGED transcript
  PROVE  /\ Turns' = Turns /\ messages' = messages /\ format' = format
         /\ \A t : Names(t)' = Names(t)
         /\ \A S : Apart(S)' = Apart(S)
         /\ Decisions' = Decisions
BY DEF transcript, Turns, TurnsUpTo, Names, MessageOf, Apart, Decisions

-----------------------------------------------------------------------------
(* The clusters. *)

(* A new cluster starts from the first turn that has none (StartCluster). *)
LEMMA ClusterStarts ==
  ASSUME ClusterInv, StartCluster
  PROVE  ClusterInv'
<1>1. /\ Newest \in Nat /\ Clusters = 1..Newest
      /\ \A t \in Turns : cluster[t] \in Nat /\ (cluster[t] # 0 => cluster[t] \in Clusters)
      /\ \A c \in Clusters : \E t \in Turns : cluster[t] = c
  BY ClustersNumbered
<1>2. Cardinality(Turns) \in Nat /\ Turns = 1..Cardinality(Turns)
  BY TurnsNumbered DEF ClusterInv, ClusterTypes
<1> DEFINE first == CHOOSE t \in Unassigned : \A u \in Unassigned : t <= u
<1>3. first \in Turns /\ cluster[first] = 0
  <2>1. Unassigned # {} /\ Unassigned \in SUBSET Nat
    BY <1>2 DEF StartCluster, Unassigned
  <2>2. \E t \in Unassigned : \A u \in Unassigned : t <= u
    BY <2>1, LeastInSet
  <2>3. first \in Unassigned
    BY <2>2
  <2> QED
    BY <2>3 DEF Unassigned
<1> PICK n \in Nat : n = Newest + 1
  BY <1>1
<1> PICK i \in Turns : i = first
  BY <1>3
<1>4. /\ cluster' = [cluster EXCEPT ![i] = n] /\ shared' = Names(i) /\ visit' = 1 /\ grew' = FALSE
      /\ visit = 0 /\ ingested' = "clustering" /\ n = Newest + 1 /\ cluster[i] = 0
  BY <1>3 DEF StartCluster, Newest
<1>5. /\ Turns' = Turns /\ messages' = messages /\ \A t : Names(t)' = Names(t)
      /\ \A S : Apart(S)' = Apart(S)
  BY TranscriptStays DEF StartCluster
<1> HIDE DEF first
<1>6. /\ cluster' \in [Turns -> Nat] /\ cluster'[i] = n
      /\ \A t \in Turns : t # i => cluster'[t] = cluster[t]
  BY <1>1, <1>3, <1>4 DEF ClusterInv, ClusterTypes
<1>7. \A t \in Turns : cluster[t] # n
  BY <1>1, <1>4
<1>8. Clusters' = 1..n
  <2>1. \A c : c \in Clusters' <=> c # 0 /\ \E t \in Turns : cluster'[t] = c
    BY <1>5 DEF Clusters
  <2>2. ASSUME NEW c PROVE c \in Clusters' <=> c \in 1..n
    <3>1. CASE c = n
      BY <3>1, <1>1, <1>4, <1>6, <2>1
    <3>2. CASE c # n /\ c \in Clusters
      <4>1. PICK t \in Turns : cluster[t] = c
        BY <3>2, <1>1
      <4>2. cluster'[t] = c /\ c # 0
        BY <4>1, <3>2, <1>1, <1>4, <1>6
      <4>3. c \in 1..n
        BY <3>2, <1>1, <1>4
      <4> QED
        BY <4>2, <4>3, <2>1
    <3>3. CASE c # n /\ c \notin Clusters
      <4>1. c \notin 1..n
        BY <3>3, <1>1, <1>4
      <4>2. ~ (c # 0 /\ \E t \in Turns : cluster'[t] = c)
        BY <3>3, <1>1, <1>6
      <4> QED
        BY <4>1, <4>2, <2>1
    <3> QED
      BY <3>1, <3>2, <3>3
  <2> QED
    BY <2>2, SameElements
<1>9. Newest' = n
  <2>1. n \in Nat /\ Cardinality(1..n) = n
    BY <1>1, FS_Interval
  <2> QED
    BY <2>1, <1>8 DEF Newest
<1>10. \A c \in Clusters : TurnsOf(c)' = TurnsOf(c)
  <2> TAKE c \in Clusters
  <2>1. c # n /\ c # 0
    BY <1>1, <1>4
  <2>2. \A t \in Turns : cluster'[t] = c <=> cluster[t] = c
    BY <2>1, <1>4, <1>6
  <2> QED
    BY <2>2, <1>5 DEF TurnsOf
<1>11. TurnsOf(n)' = {i}
  <2>1. \A t \in Turns : cluster'[t] = n <=> t = i
    BY <1>6, <1>7
  <2> QED
    BY <2>1, <1>3, <1>5 DEF TurnsOf
<1>12. \A c : c \in Clusters' => c \in Clusters \/ c = n
  BY <1>1, <1>4, <1>8
<1>13. Undivided'
  <2> SUFFICES ASSUME NEW S \in SUBSET Turns, Apart(S), NEW c \in Clusters'
               PROVE  TurnsOf(c)' \subseteq S \/ TurnsOf(c)' \cap S = {}
    BY <1>5 DEF Undivided
  <2>1. CASE c \in Clusters
    BY <2>1, <1>10 DEF ClusterInv, Undivided
  <2>2. CASE c = n
    BY <2>2, <1>11
  <2> QED
    BY <2>1, <2>2, <1>12
<1>14. EndedApart'
  <2> SUFFICES ASSUME NEW c \in Clusters', c # n
               PROVE  Apart(TurnsOf(c))'
    BY <1>4, <1>9 DEF EndedApart
  <2>1. c \in Clusters
    BY <1>12
  <2>2. Apart(TurnsOf(c))
    BY <2>1, <1>4 DEF ClusterInv, EndedApart
  <2> QED
    BY <2>1, <2>2, <1>5, <1>10 DEF Apart
<1>15. PassInv'
  <2>1. shared' = UNION {Names(t)' : t \in TurnsOf(n)'}
    BY <1>4, <1>5, <1>11
  <2>2. n > 0 /\ \A t \in Turns : ~ t < 1
    BY <1>1, <1>2, <1>4
  <2> QED
    BY <2>1, <2>2, <1>4, <1>5, <1>9 DEF PassInv
<1>16. ClusterTypes'
  <2>1. visit' \in 0..Cardinality(Turns)' + 1 /\ grew' \in BOOLEAN
    <3>1. Cardinality(Turns)' = Cardinality(Turns)
      BY <1>5
    <3>2. 1 \in 0..Cardinality(Turns) + 1
      BY <1>2
    <3> QED
      BY <1>4, <3>1, <3>2
  <2>2. messages' \in Seq(Utterance) /\ cluster' \in [Turns' -> Nat]
    BY <1>5, <1>6 DEF ClusterInv, ClusterTypes
  <2>3. Clusters' = 1..Newest'
    BY <1>8, <1>9
  <2> QED
    BY <2>1, <2>2, <2>3 DEF ClusterTypes
<1> QED
  BY <1>4, <1>13, <1>14, <1>15, <1>16 DEF ClusterInv, AllClustered

(* A pass takes a turn in (Visit). *)
LEMMA TurnJoins ==
  ASSUME ClusterInv, Visit, Joins
  PROVE  ClusterInv'
<1>1. /\ Newest \in Nat /\ Clusters = 1..Newest
      /\ \A t \in Turns : cluster[t] \in Nat /\ (cluster[t] # 0 => cluster[t] \in Clusters)
      /\ \A c \in Clusters : \E t \in Turns : cluster[t] = c
  BY ClustersNumbered
<1>2. Cardinality(Turns) \in Nat /\ Turns = 1..Cardinality(Turns)
  BY TurnsNumbered DEF ClusterInv, ClusterTypes
<1> PICK n \in Nat : n = Newest
  BY <1>1
<1> PICK v \in Turns : v = visit
  BY DEF Visit
<1>3. /\ cluster' = [cluster EXCEPT ![v] = n] /\ shared' = shared \cup Names(v) /\ grew' = TRUE
      /\ visit' = v + 1 /\ ingested' = "clustering" /\ n = Newest
      /\ cluster[v] = 0 /\ shared \cap Names(v) # {}
  <2>1. Joins /\ v = visit /\ n = Newest /\ ingested' = "clustering" /\ visit' = v + 1
    BY DEF Visit
  <2>2. cluster' = [cluster EXCEPT ![v] = n] /\ shared' = shared \cup Names(v)
    BY <2>1 DEF Visit, Newest
  <2>3. grew' = TRUE
    BY <2>1 DEF Visit
  <2>4. cluster[v] = 0 /\ shared \cap Names(v) # {}
    BY <2>1 DEF Joins
  <2> QED
    BY <2>1, <2>2, <2>3, <2>4
<1>4. /\ Turns' = Turns /\ messages' = messages /\ \A t : Names(t)' = Names(t)
      /\ \A S : Apart(S)' = Apart(S)
  BY TranscriptStays DEF Visit
<1>5. /\ n > 0 /\ n \in Clusters
      /\ shared = UNION {Names(t) : t \in TurnsOf(n)}
  <2>1. visit # 0
    BY <1>2
  <2> QED
    BY <2>1, <1>1, <1>3 DEF ClusterInv, PassInv
<1>6. /\ cluster' \in [Turns -> Nat] /\ cluster'[v] = n
      /\ \A t \in Turns : t # v => cluster'[t] = cluster[t]
  BY <1>3 DEF ClusterInv, ClusterTypes
<1>7. Clusters' = Clusters
  <2>1. \A c : c \in Clusters' <=> c # 0 /\ \E t \in Turns : cluster'[t] = c
    BY <1>4 DEF Clusters
  <2>2. ASSUME NEW c PROVE c \in Clusters' <=> c \in Clusters
    <3>1. CASE c = n
      BY <3>1, <1>5, <1>6, <2>1
    <3>2. CASE c # n /\ c \in Clusters
      <4>1. PICK t \in Turns : cluster[t] = c
        BY <3>2, <1>1
      <4>2. cluster'[t] = c /\ c # 0
        BY <4>1, <3>2, <1>1, <1>3, <1>6
      <4> QED
        BY <4>2, <3>2, <2>1
    <3>3. CASE c # n /\ c \notin Clusters
      <4>1. ~ (c # 0 /\ \E t \in Turns : cluster'[t] = c)
        BY <3>3, <1>1, <1>6
      <4> QED
        BY <4>1, <3>3, <2>1
    <3> QED
      BY <3>1, <3>2, <3>3
  <2> QED
    BY <2>2, SameElements
<1>8. Newest' = n
  BY <1>3, <1>7 DEF Newest
<1>9. \A c \in Clusters : c # n => TurnsOf(c)' = TurnsOf(c)
  <2> SUFFICES ASSUME NEW c \in Clusters, c # n
               PROVE  TurnsOf(c)' = TurnsOf(c)
    OBVIOUS
  <2>1. c # 0
    BY <1>1
  <2>2. \A t \in Turns : cluster'[t] = c <=> cluster[t] = c
    BY <2>1, <1>3, <1>6
  <2> QED
    BY <2>2, <1>4 DEF TurnsOf
<1>10. TurnsOf(n)' = TurnsOf(n) \cup {v}
  <2>1. \A t \in Turns : cluster'[t] = n <=> cluster[t] = n \/ t = v
    BY <1>6
  <2> QED
    BY <2>1, <1>4 DEF TurnsOf
<1>11. PICK w \in TurnsOf(n) : Names(w) \cap Names(v) # {}
  BY <1>3, <1>5
<1>12. Undivided'
  <2> SUFFICES ASSUME NEW S \in SUBSET Turns, Apart(S), NEW c \in Clusters
               PROVE  TurnsOf(c)' \subseteq S \/ TurnsOf(c)' \cap S = {}
    BY <1>4, <1>7 DEF Undivided
  <2>1. TurnsOf(c) \subseteq S \/ TurnsOf(c) \cap S = {}
    BY DEF ClusterInv, Undivided
  <2>2. CASE c # n
    BY <2>1, <2>2, <1>9
  <2>3. CASE c = n
    <3>1. w \in Turns /\ w \in TurnsOf(n)
      BY DEF TurnsOf
    <3>2. Names(v) \cap Names(w) # {}
      BY <1>11
    <3>3. w \in S <=> v \in S
      BY <1>11, <3>1, <3>2 DEF Apart
    <3> QED
      BY <2>1, <2>3, <3>1, <3>3, <1>10
  <2> QED
    BY <2>2, <2>3
<1>13. EndedApart'
  <2> SUFFICES ASSUME NEW c \in Clusters, c # n
               PROVE  Apart(TurnsOf(c))'
    <3>1. visit' # 0
      BY <1>2, <1>3
    <3> QED
      BY <3>1, <1>7, <1>8 DEF EndedApart
  <2>1. Apart(TurnsOf(c))
    BY <1>3 DEF ClusterInv, EndedApart
  <2> QED
    BY <2>1, <1>4, <1>9 DEF Apart
<1>14. PassInv'
  <2>1. shared' = UNION {Names(t) : t \in TurnsOf(n) \cup {v}}
    BY <1>3, <1>5
  <2>2. shared' = UNION {Names(t)' : t \in TurnsOf(n)'}
    BY <2>1, <1>4, <1>10
  <2> QED
    BY <2>2, <1>3, <1>5, <1>8 DEF PassInv
<1>15. ClusterTypes'
  <2>1. visit' \in 0..Cardinality(Turns)' + 1 /\ grew' \in BOOLEAN
    <3>1. Cardinality(Turns)' = Cardinality(Turns)
      BY <1>4
    <3>2. v + 1 \in 0..Cardinality(Turns) + 1
      BY <1>2
    <3> QED
      BY <1>3, <3>1, <3>2
  <2>2. messages' \in Seq(Utterance) /\ cluster' \in [Turns' -> Nat]
    BY <1>4, <1>6 DEF ClusterInv, ClusterTypes
  <2>3. Clusters' = 1..Newest'
    BY <1>1, <1>3, <1>7, <1>8
  <2> QED
    BY <2>1, <2>2, <2>3 DEF ClusterTypes
<1> QED
  BY <1>3, <1>12, <1>13, <1>14, <1>15 DEF ClusterInv, AllClustered

(* A pass leaves a turn out (Visit). *)
LEMMA TurnPassed ==
  ASSUME ClusterInv, Visit, ~Joins
  PROVE  ClusterInv'
<1>1. /\ cluster' = cluster /\ shared' = shared /\ grew' = grew /\ visit' = visit + 1
      /\ ingested' = ingested /\ ingested = "clustering" /\ visit \in Turns
      /\ UNCHANGED transcript
  BY DEF Visit, ClusterInv, ClusterTypes
<1>2. Cardinality(Turns) \in Nat /\ Turns = 1..Cardinality(Turns)
  BY TurnsNumbered DEF ClusterInv, ClusterTypes
<1>3. /\ Turns' = Turns /\ messages' = messages /\ \A t : Names(t)' = Names(t)
      /\ \A S : Apart(S)' = Apart(S)
  BY <1>1, TranscriptStays
<1>4. Clusters' = Clusters /\ Newest' = Newest /\ \A c : TurnsOf(c)' = TurnsOf(c)
  BY <1>1, <1>3 DEF Clusters, Newest, TurnsOf
<1>5. visit # 0 /\ visit' # 0
  BY <1>1, <1>2
<1>6. cluster[visit] # 0 \/ shared \cap Names(visit) = {}
  BY DEF Joins
<1>7. PassInv'
  <2>1. Newest > 0 /\ shared = UNION {Names(t) : t \in TurnsOf(Newest)}
    BY <1>5 DEF ClusterInv, PassInv
  <2>2. shared' = UNION {Names(t)' : t \in TurnsOf(Newest)'} /\ Newest' > 0
    BY <2>1, <1>1, <1>3, <1>4
  <2>3. ASSUME ~grew', NEW t \in Turns, t < visit + 1, cluster[t] = 0
        PROVE  shared \cap Names(t) = {}
    <3>1. t < visit \/ t = visit
      BY <2>3, <1>1, <1>2
    <3> QED
      BY <3>1, <2>3, <1>1, <1>5, <1>6 DEF ClusterInv, PassInv
  <2> QED
    BY <2>2, <2>3, <1>1, <1>3, <1>4 DEF PassInv
<1>8. ClusterTypes'
  <2>1. Cardinality(Turns)' = Cardinality(Turns)
    BY <1>3
  <2>2. visit + 1 \in 0..Cardinality(Turns) + 1
    BY <1>1, <1>2
  <2> QED
    BY <2>1, <2>2, <1>1, <1>3, <1>4 DEF ClusterInv, ClusterTypes
<1>9. Undivided'
  BY <1>3, <1>4 DEF ClusterInv, Undivided
<1>10. EndedApart'
  BY <1>1, <1>3, <1>4, <1>5 DEF ClusterInv, EndedApart, Apart
<1> QED
  BY <1>1, <1>7, <1>8, <1>9, <1>10 DEF ClusterInv, AllClustered

(* A pass ends: if it has taken in none, the cluster shares no name with   *)
(* another turn (EndPass).                                                 *)
LEMMA PassEnds ==
  ASSUME ClusterInv, EndPass
  PROVE  ClusterInv'
<1>1. /\ cluster' = cluster /\ shared' = shared /\ grew' = FALSE /\ visit' = IF grew THEN 1 ELSE 0
      /\ visit = Cardinality(Turns) + 1
      /\ ingested' = ingested /\ ingested = "clustering"
      /\ UNCHANGED transcript
  BY DEF EndPass
<1>2. Cardinality(Turns) \in Nat /\ Turns = 1..Cardinality(Turns)
  BY TurnsNumbered DEF ClusterInv, ClusterTypes
<1>3. /\ Turns' = Turns /\ messages' = messages /\ \A t : Names(t)' = Names(t)
      /\ \A S : Apart(S)' = Apart(S)
  BY <1>1, TranscriptStays
<1>4. Clusters' = Clusters /\ Newest' = Newest /\ \A c : TurnsOf(c)' = TurnsOf(c)
  BY <1>1, <1>3 DEF Clusters, Newest, TurnsOf
<1>5. /\ Newest \in Nat /\ Clusters = 1..Newest
      /\ \A t \in Turns : cluster[t] \in Nat /\ (cluster[t] # 0 => cluster[t] \in Clusters)
  BY ClustersNumbered
<1>6. Newest > 0 /\ shared = UNION {Names(t) : t \in TurnsOf(Newest)}
  BY <1>1, <1>2 DEF ClusterInv, PassInv
<1>7. PassInv'
  <2>1. shared' = UNION {Names(t)' : t \in TurnsOf(Newest)'} /\ Newest' > 0
    BY <1>1, <1>3, <1>4, <1>6
  <2>2. visit' # 0 => \A t \in Turns : ~ t < visit'
    BY <1>1, <1>2
  <2> QED
    BY <2>1, <2>2, <1>3 DEF PassInv
<1>8. ClusterTypes'
  <2>1. Cardinality(Turns)' = Cardinality(Turns)
    BY <1>3
  <2>2. visit' \in 0..Cardinality(Turns) + 1
    BY <1>1, <1>2
  <2> QED
    BY <2>1, <2>2, <1>1, <1>3, <1>4 DEF ClusterInv, ClusterTypes
<1>9. Undivided'
  BY <1>3, <1>4 DEF ClusterInv, Undivided
<1>10. \A c \in Clusters : c # Newest => Apart(TurnsOf(c))
  BY <1>1, <1>2 DEF ClusterInv, EndedApart
<1>11. ~grew => Apart(TurnsOf(Newest))
  <2> SUFFICES ASSUME ~grew, NEW t \in TurnsOf(Newest), NEW u \in Turns \ TurnsOf(Newest)
               PROVE  Names(t) \cap Names(u) = {}
    BY DEF Apart
  <2>1. CASE cluster[u] = 0
    <3>1. u < visit /\ visit # 0
      BY <1>1, <1>2
    <3>2. shared \cap Names(u) = {}
      BY <2>1, <3>1 DEF ClusterInv, PassInv
    <3> QED
      BY <3>2, <1>6
  <2>2. CASE cluster[u] # 0
    <3>1. cluster[u] \in Clusters /\ cluster[u] # Newest /\ u \in TurnsOf(cluster[u])
      BY <2>2, <1>5 DEF TurnsOf
    <3>2. t \in Turns \ TurnsOf(cluster[u])
      BY <3>1 DEF TurnsOf
    <3> QED
      BY <3>1, <3>2, <1>10 DEF Apart
  <2> QED
    BY <2>1, <2>2
<1>12. EndedApart'
  <2> SUFFICES ASSUME NEW c \in Clusters, visit' = 0 \/ c # Newest
               PROVE  Apart(TurnsOf(c))
    BY <1>3, <1>4 DEF EndedApart, Apart
  <2> QED
    BY <1>1, <1>10, <1>11
<1> QED
  BY <1>1, <1>7, <1>8, <1>9, <1>12 DEF ClusterInv, AllClustered

(* The clusters are made: labels and articles leave them as they are       *)
(* (LabelClusters, SaveConversation, EndIngest).                           *)
LEMMA ClustersStay ==
  ASSUME ClusterInv, UNCHANGED <<transcript, cluster, shared, visit, grew>>,
         ingested' # "clustering" => visit = 0 /\ Unassigned = {}
  PROVE  ClusterInv'
<1>1. /\ Turns' = Turns /\ messages' = messages /\ \A t : Names(t)' = Names(t)
      /\ \A S : Apart(S)' = Apart(S)
  BY TranscriptStays
<1>2. /\ Clusters' = Clusters /\ Newest' = Newest /\ \A c : TurnsOf(c)' = TurnsOf(c)
      /\ Unassigned' = Unassigned
  BY <1>1 DEF Clusters, Newest, TurnsOf, Unassigned
<1>3. ClusterTypes'
  <2>1. Cardinality(Turns)' = Cardinality(Turns)
    BY <1>1
  <2> QED
    BY <2>1, <1>1, <1>2 DEF ClusterInv, ClusterTypes
<1>4. Undivided' /\ PassInv'
  BY <1>1, <1>2 DEF ClusterInv, Undivided, PassInv
<1>5. EndedApart'
  BY <1>1, <1>2 DEF ClusterInv, EndedApart, Apart
<1> QED
  BY <1>2, <1>3, <1>4, <1>5 DEF ClusterInv, AllClustered

(* It holds of a new conversation (ConvInit). *)
LEMMA ClusterInvStart ==
  ASSUME ConvInit
  PROVE  ClusterInv
<1>1. PICK n \in 1..MaxMessages : \E m \in [1..n -> Utterance] : ConvStart(m)
  BY DEF ConvInit
<1>2. PICK m \in [1..n -> Utterance] : ConvStart(m)
  BY <1>1
<1>3. messages \in Seq(Utterance)
  <2>1. n \in Nat
    BY <1>1
  <2>2. messages = m
    BY <1>2 DEF ConvStart
  <2> QED
    BY <2>1, <2>2, SeqOfFunction
<1>4. /\ cluster = [t \in Turns |-> 0] /\ visit = 0 /\ grew = FALSE /\ ingested = "clustering"
  BY <1>2 DEF ConvStart
<1>5. Clusters = {}
  BY <1>4 DEF Clusters
<1>6. Newest = 0
  BY <1>5, FS_EmptySet DEF Newest
<1>7. Cardinality(Turns) \in Nat
  BY <1>3, TurnsNumbered
<1>8. ClusterTypes
  <2>1. visit \in 0..Cardinality(Turns) + 1
    BY <1>4, <1>7
  <2>2. Clusters = 1..Newest
    BY <1>5, <1>6
  <2> QED
    BY <1>3, <1>4, <2>1, <2>2 DEF ClusterTypes
<1> QED
  BY <1>4, <1>5, <1>8 DEF ClusterInv, Undivided, EndedApart, PassInv, AllClustered

(* ClusterInv is inductive. *)
LEMMA ClusterInvStep ==
  ASSUME ClusterInv, [ConvNext]_convVars
  PROVE  ClusterInv'
<1>1. CASE StartCluster
  BY <1>1, ClusterStarts
<1>2. CASE Visit
  BY <1>2, TurnJoins, TurnPassed
<1>3. CASE EndPass
  BY <1>3, PassEnds
<1>4. CASE LabelClusters
  <2>1. UNCHANGED <<transcript, cluster, shared, visit, grew>> /\ visit = 0 /\ Unassigned = {}
    BY <1>4 DEF LabelClusters
  <2> QED
    BY <2>1, ClustersStay
<1>5. CASE EndIngest \/ \E c \in DOMAIN label : SaveConversation(c)
  <2>1. UNCHANGED <<transcript, cluster, shared, visit, grew>> /\ ingested # "clustering"
    BY <1>5 DEF EndIngest, SaveConversation
  <2> QED
    BY <2>1, ClustersStay DEF ClusterInv, AllClustered
<1>6. CASE UNCHANGED convVars
  <2>1. UNCHANGED <<transcript, cluster, shared, visit, grew>> /\ ingested' = ingested
    BY <1>6 DEF convVars
  <2> QED
    BY <2>1, ClustersStay DEF ClusterInv, AllClustered
<1> QED
  BY <1>1, <1>2, <1>3, <1>4, <1>5, <1>6 DEF ConvNext

(* ... and says that clusters are what chains of shared names connect. *)
LEMMA ClustersConnect ==
  ASSUME ClusterInv
  PROVE  ClustersAreChains
<1> SUFFICES ASSUME ingested \in {"saving", "done"}, NEW t \in Turns, NEW u \in Turns
             PROVE  cluster[t] = cluster[u] <=> Connected(t, u)
  BY DEF ClustersAreChains
<1>1. /\ Clusters = 1..Newest
      /\ \A x \in Turns : cluster[x] # 0 => cluster[x] \in Clusters
  BY ClustersNumbered
<1>2. visit = 0 /\ cluster[t] # 0 /\ cluster[u] # 0
  BY DEF ClusterInv, AllClustered, Unassigned
<1>3. cluster[t] \in Clusters
  BY <1>1, <1>2
<1>4. ASSUME cluster[t] = cluster[u] PROVE Connected(t, u)
  <2> SUFFICES ASSUME NEW S \in SUBSET Turns, Apart(S)
               PROVE  t \in S <=> u \in S
    BY DEF Connected
  <2>1. TurnsOf(cluster[t]) \subseteq S \/ TurnsOf(cluster[t]) \cap S = {}
    BY <1>3 DEF ClusterInv, Undivided
  <2>2. t \in TurnsOf(cluster[t]) /\ u \in TurnsOf(cluster[t])
    BY <1>4 DEF TurnsOf
  <2> QED
    BY <2>1, <2>2
<1>5. ASSUME Connected(t, u) PROVE cluster[t] = cluster[u]
  <2> DEFINE S == TurnsOf(cluster[t])
  <2>1. S \in SUBSET Turns /\ Apart(S) /\ t \in S
    BY <1>2, <1>3 DEF ClusterInv, EndedApart, TurnsOf
  <2>2. u \in S
    BY <2>1, <1>5 DEF Connected
  <2> QED
    BY <2>2 DEF TurnsOf
<1> QED
  BY <1>4, <1>5

(* Two turns of a conversation are in one cluster, and so in one article,  *)
(* exactly if a chain of turns that share names connects them (ClusterTopics). *)
THEOREM TopicsAreChains == ConvInit /\ [][ConvNext]_convVars => []ClustersAreChains
<1>1. ConvInit => ClusterInv
  BY ClusterInvStart
<1>2. ClusterInv /\ [ConvNext]_convVars => ClusterInv'
  BY ClusterInvStep
<1>3. ClusterInv => ClustersAreChains
  BY ClustersConnect
<1> QED
  BY <1>1, <1>2, <1>3, PTL

-----------------------------------------------------------------------------
(* The articles of the conversation. *)

(* Ids and articles are those of the clusters, which stay once made. *)
LEMMA IdsStay ==
  ASSUME UNCHANGED <<transcript, cluster>>
  PROVE  /\ Turns' = Turns /\ Clusters' = Clusters
         /\ \A c : TurnsOf(c)' = TurnsOf(c) /\ Labels(c)' = Labels(c) /\ Article(c)' = Article(c)
         /\ \A t : IdsOf(t)' = IdsOf(t)
<1>1. Turns' = Turns /\ messages' = messages /\ format' = format /\ \A t : Names(t)' = Names(t)
  BY TranscriptStays
<1>2. Clusters' = Clusters /\ \A c : TurnsOf(c)' = TurnsOf(c)
  BY <1>1 DEF Clusters, TurnsOf
<1>3. \A c : Labels(c)' = Labels(c)
  BY <1>1, <1>2 DEF Labels, Frequency
<1>4. \A c : Article(c)' = Article(c)
  <2>1. Decisions' = Decisions
    BY TranscriptStays
  <2>2. \A t : IndexOf(t)' = IndexOf(t)
    BY <1>1 DEF IndexOf, MessageOf, TurnsUpTo
  <2>3. \A t : DecisionsAt(t)' = DecisionsAt(t)
    BY <2>1, <2>2 DEF DecisionsAt
  <2> QED
    BY <1>2, <2>3 DEF Article
<1>5. \A t : IdsOf(t)' = IdsOf(t)
  BY <1>3 DEF IdsOf
<1> QED
  BY <1>1, <1>2, <1>3, <1>4, <1>5

(* How much is said of a topic is a number. *)
LEMMA TopicsAreFinite ==
  ASSUME ClusterInv
  PROVE  \A c : Cardinality(TurnsOf(c)) \in Nat
<1>1. IsFiniteSet(Turns)
  BY TurnsNumbered DEF ClusterInv, ClusterTypes
<1>2. \A c : TurnsOf(c) \subseteq Turns
  BY DEF TurnsOf
<1>3. \A c : IsFiniteSet(TurnsOf(c))
  BY <1>1, <1>2, FS_Subset
<1> QED
  BY <1>3, FS_CardinalityType

(* An article is saved (SaveConversation). *)
LEMMA ConversationSaved ==
  ASSUME ClusterInv, SavedInv, NEW c \in DOMAIN label, SaveConversation(c)
  PROVE  SavedInv'
<1>1. /\ UNCHANGED <<transcript, cluster>> /\ ingested = "saving" /\ ingested' = "saving"
      /\ label' = [d \in DOMAIN label \ {c} |-> label[d]]
      /\ convWiki' = [a \in DOMAIN convWiki \cup {ArticleOf(c)} |->
                         IF a = ArticleOf(c) THEN Article(c) ELSE convWiki[a]]
      /\ \A d \in DOMAIN label : Cardinality(TurnsOf(d)) <= Cardinality(TurnsOf(c))
  BY DEF SaveConversation
<1>2. /\ Turns' = Turns /\ Clusters' = Clusters
      /\ \A d : Labels(d)' = Labels(d) /\ Article(d)' = Article(d) /\ TurnsOf(d)' = TurnsOf(d)
      /\ \A t : IdsOf(t)' = IdsOf(t)
  BY <1>1, IdsStay
<1>3. /\ \A d \in DOMAIN label : d \in Clusters /\ label[d] \in Labels(d)
      /\ \A t \in Turns :
            \/ cluster[t] \in DOMAIN label
            \/ \E a \in IdsOf(t) \cap DOMAIN convWiki : SizeAt(a) <= Cardinality(TurnsOf(cluster[t]))
      /\ \A a \in DOMAIN convWiki, d \in DOMAIN label : Cardinality(TurnsOf(d)) <= SizeAt(a)
      /\ \A a \in DOMAIN convWiki : \E t \in Turns : a \in IdsOf(t) /\ convWiki[a] = Article(cluster[t])
  BY <1>1 DEF SavedInv
<1>s. \A d : Cardinality(TurnsOf(d)) \in Nat
  BY TopicsAreFinite
<1>z. \A a \in DOMAIN convWiki : SizeAt(a) \in Nat
  BY <1>3, <1>s DEF SizeAt, Article
<1>4. \A t \in Turns : cluster[t] = c => ArticleOf(c) \in IdsOf(t)
  BY <1>3 DEF ArticleOf, IdsOf
<1>5. PICK u \in Turns : cluster[u] = c
  BY <1>3, ClustersNumbered
<1>i. PICK id : id = ArticleOf(c)
  OBVIOUS
<1>6. DOMAIN label' = DOMAIN label \ {c} /\ DOMAIN convWiki' = DOMAIN convWiki \cup {id}
  BY <1>1, <1>i
<1>7. \A d \in DOMAIN label' : d \in Clusters' /\ label'[d] \in Labels(d)'
  BY <1>1, <1>2, <1>3, <1>6
<1>a. convWiki'[id] = Article(c) /\ \A a \in DOMAIN convWiki : a # id => convWiki'[a] = convWiki[a]
  BY <1>1, <1>i
<1>b. SizeAt(id)' = Cardinality(TurnsOf(c)) /\ \A a \in DOMAIN convWiki : a # id => SizeAt(a)' = SizeAt(a)
  <2>1. convWiki'[id].turns = TurnsOf(c)
    BY <1>a DEF Article
  <2> QED
    BY <1>a, <2>1 DEF SizeAt
<1>8. \A t \in Turns' :
         \/ cluster'[t] \in DOMAIN label'
         \/ \E a \in IdsOf(t)' \cap DOMAIN convWiki' : SizeAt(a)' <= Cardinality(TurnsOf(cluster[t])')
  <2> SUFFICES ASSUME NEW t \in Turns
               PROVE  \/ cluster[t] \in DOMAIN label'
                      \/ \E a \in IdsOf(t) \cap DOMAIN convWiki' :
                            SizeAt(a)' <= Cardinality(TurnsOf(cluster[t]))
    BY <1>1, <1>2
  <2>1. CASE cluster[t] = c
    <3>1. id \in IdsOf(t) \cap DOMAIN convWiki' /\ SizeAt(id)' <= Cardinality(TurnsOf(cluster[t]))
      BY <2>1, <1>i, <1>4, <1>6, <1>b, <1>s
    <3> QED
      BY <3>1
  <2>2. CASE cluster[t] # c /\ cluster[t] \in DOMAIN label
    BY <2>2, <1>6
  <2>3. CASE cluster[t] \notin DOMAIN label
    <3>1. PICK a \in IdsOf(t) \cap DOMAIN convWiki : SizeAt(a) <= Cardinality(TurnsOf(cluster[t]))
      BY <1>3, <2>3
    <3>2. Cardinality(TurnsOf(c)) <= SizeAt(a)
      BY <1>3, <3>1
    <3>3. SizeAt(a) \in Nat /\ Cardinality(TurnsOf(c)) \in Nat /\ Cardinality(TurnsOf(cluster[t])) \in Nat
      BY <1>s, <1>z, <3>1
    <3>4. SizeAt(a)' <= Cardinality(TurnsOf(cluster[t]))
      BY <1>b, <3>1, <3>2, <3>3
    <3> QED
      BY <1>6, <3>1, <3>4
  <2> QED
    BY <2>1, <2>2, <2>3
<1>c. \A a \in DOMAIN convWiki', d \in DOMAIN label' : Cardinality(TurnsOf(d)') <= SizeAt(a)'
  <2> SUFFICES ASSUME NEW a \in DOMAIN convWiki', NEW d \in DOMAIN label'
               PROVE  Cardinality(TurnsOf(d)) <= SizeAt(a)'
    BY <1>2
  <2>1. d \in DOMAIN label
    BY <1>6
  <2>2. CASE a = id
    BY <1>1, <1>b, <2>1, <2>2
  <2>3. CASE a # id
    BY <1>3, <1>6, <1>b, <2>1, <2>3
  <2> QED
    BY <2>2, <2>3
<1>9. \A a \in DOMAIN convWiki' : \E t \in Turns' : a \in IdsOf(t)' /\ convWiki'[a] = Article(cluster[t])'
  <2> SUFFICES ASSUME NEW a \in DOMAIN convWiki'
               PROVE  \E t \in Turns : a \in IdsOf(t) /\ convWiki'[a] = Article(cluster[t])
    <3>1. \A t : Article(cluster[t])' = Article(cluster[t])
      BY <1>1, <1>2
    <3> QED
      BY <1>2, <3>1
  <2>1. CASE a = ArticleOf(c)
    <3>1. convWiki'[a] = Article(c)
      BY <2>1, <1>1, <1>i, <1>6
    <3> QED
      BY <3>1, <2>1, <1>4, <1>5
  <2>2. CASE a # ArticleOf(c)
    <3>1. a \in DOMAIN convWiki /\ convWiki'[a] = convWiki[a]
      BY <2>2, <1>1, <1>i, <1>6
    <3> QED
      BY <3>1, <1>3
  <2> QED
    BY <2>1, <2>2
<1>d. \A t : Cardinality(TurnsOf(cluster[t]))' = Cardinality(TurnsOf(cluster[t])')
  BY <1>1, <1>2
<1> QED
  BY <1>1, <1>2, <1>7, <1>8, <1>9, <1>c, <1>d DEF SavedInv

(* The clusters get their labels (LabelClusters). *)
LEMMA ConversationLabelled ==
  ASSUME ClusterInv, SavedInv, LabelClusters
  PROVE  SavedInv'
<1>1. /\ UNCHANGED <<transcript, cluster, convWiki>> /\ ingested = "clustering" /\ ingested' = "saving"
      /\ Unassigned = {}
  BY DEF LabelClusters
<1>2. Turns' = Turns /\ Clusters' = Clusters /\ \A d : Labels(d)' = Labels(d)
  BY <1>1, IdsStay
<1>3. DOMAIN label' = Clusters /\ \A c \in Clusters : label'[c] \in Labels(c)
  BY DEF LabelClusters
<1>4. \A t \in Turns : cluster[t] \in Clusters
  BY <1>1, ClustersNumbered DEF Unassigned
<1>5. DOMAIN convWiki' = {}
  BY <1>1 DEF SavedInv
<1> QED
  BY <1>1, <1>2, <1>3, <1>4, <1>5 DEF SavedInv

(* Nothing else is said of labels or articles. *)
LEMMA ConversationStays ==
  ASSUME SavedInv, UNCHANGED <<transcript, cluster, label, convWiki>>,
         \/ ingested' = ingested
         \/ ingested = "saving" /\ ingested' = "done" /\ DOMAIN label = {}
  PROVE  SavedInv'
<1>1. /\ Turns' = Turns /\ Clusters' = Clusters
      /\ \A d : Labels(d)' = Labels(d) /\ Article(d)' = Article(d) /\ TurnsOf(d)' = TurnsOf(d)
      /\ \A t : IdsOf(t)' = IdsOf(t)
  BY IdsStay
<1>2. \A t : Article(cluster[t])' = Article(cluster[t]) /\ TurnsOf(cluster[t])' = TurnsOf(cluster[t])
  BY <1>1
<1>3. \A a : SizeAt(a)' = SizeAt(a)
  BY DEF SizeAt
<1> QED
  BY <1>1, <1>2, <1>3 DEF SavedInv

(* Before there are any (StartCluster, Visit, EndPass). *)
LEMMA ConversationClusters ==
  ASSUME SavedInv, ingested = "clustering", UNCHANGED <<ingested, convWiki>>
  PROVE  SavedInv'
BY DEF SavedInv

(* ConvInv is inductive. *)
LEMMA ConvInvStep ==
  ASSUME ConvInv, [ConvNext]_convVars
  PROVE  ConvInv'
<1>1. ClusterInv /\ SavedInv /\ format \in Format
  BY DEF ConvInv
<1>2. ClusterInv'
  BY <1>1, ClusterInvStep
<1>3. format' = format
  BY DEF ConvNext, StartCluster, Visit, EndPass, LabelClusters, EndIngest, SaveConversation,
         convVars, transcript
<1>4. SavedInv'
  <2>1. CASE StartCluster \/ Visit \/ EndPass
    BY <1>1, <2>1, ConversationClusters DEF StartCluster, Visit, EndPass
  <2>2. CASE LabelClusters
    BY <1>1, <2>2, ConversationLabelled
  <2>3. CASE EndIngest
    <3>1. DOMAIN label = {}
      BY <2>3 DEF EndIngest, NoClusters
    <3> QED
      BY <1>1, <2>3, <3>1, ConversationStays DEF EndIngest
  <2>4. CASE \E c \in DOMAIN label : SaveConversation(c)
    BY <1>1, <2>4, ConversationSaved
  <2>5. CASE UNCHANGED convVars
    BY <1>1, <2>5, ConversationStays DEF convVars
  <2> QED
    BY <2>1, <2>2, <2>3, <2>4, <2>5 DEF ConvNext
<1> QED
  BY <1>1, <1>2, <1>3, <1>4 DEF ConvInv

(* It holds of a new conversation. *)
LEMMA ConvInvStart ==
  ASSUME ConvInit
  PROVE  ConvInv
<1>1. ingested = "clustering" /\ convWiki = NoClusters /\ format \in Format
  BY DEF ConvInit, ConvStart
<1>2. DOMAIN convWiki = {}
  BY <1>1 DEF NoClusters
<1> QED
  BY <1>1, <1>2, ClusterInvStart DEF ConvInv, SavedInv

(* When the command is done every turn is in an article, unless a cluster  *)
(* that is no larger, and whose label reduces to an id of its own, has     *)
(* taken that file (ClusterTopics, GenerateArticles, cmdConvoIngest).      *)
THEOREM TurnsAreKept == ConvInit /\ [][ConvNext]_convVars => []EveryTurnIsKept
<1>1. ConvInit => ConvInv
  BY ConvInvStart
<1>2. ConvInv /\ [ConvNext]_convVars => ConvInv'
  BY ConvInvStep
<1>3. ConvInv => EveryTurnIsKept
  <2> SUFFICES ASSUME ConvInv, ingested = "done", NEW t \in Turns, ~Displaced(t)
               PROVE  \E a \in DOMAIN convWiki : t \in convWiki[a].turns
    BY DEF EveryTurnIsKept
  <2>1. PICK a \in IdsOf(t) \cap DOMAIN convWiki : SizeAt(a) <= Cardinality(TurnsOf(cluster[t]))
    BY DEF ConvInv, SavedInv
  <2>2. PICK u \in Turns : a \in IdsOf(u) /\ convWiki[a] = Article(cluster[u])
    BY <2>1 DEF ConvInv, SavedInv
  <2>a. convWiki[a].turns = TurnsOf(cluster[u])
    BY <2>2 DEF Article
  <2>3. cluster[u] = cluster[t]
    BY <2>1, <2>2, <2>a DEF Displaced, SizeAt
  <2>4. t \in convWiki[a].turns
    BY <2>2, <2>3 DEF Article, TurnsOf
  <2> QED
    BY <2>1, <2>4
<1> QED
  BY <1>1, <1>2, <1>3, PTL

(* The indices of a plain transcript are the positions of its turns: an    *)
(* article lists just what its turns decide (ExtractDecisions,             *)
(* GenerateArticles).                                                      *)
THEOREM DecisionsFollow ==
  ASSUME Format \subseteq {"plain"}
  PROVE  ConvInit /\ [][ConvNext]_convVars => []DecisionsFollowTurns
<1>1. ConvInit => ConvInv
  BY ConvInvStart
<1>2. ConvInv /\ [ConvNext]_convVars => ConvInv'
  BY ConvInvStep
<1>3. ConvInv => DecisionsFollowTurns
  <2> SUFFICES ASSUME ConvInv, NEW a \in DOMAIN convWiki
               PROVE  convWiki[a].decided = Decisions \cap convWiki[a].turns
    BY DEF DecisionsFollowTurns
  <2>1. format = "plain"
    BY DEF ConvInv
  <2>2. PICK c : convWiki[a] = Article(c)
    BY DEF ConvInv, SavedInv
  <2>3. \A t : DecisionsAt(t) = {u \in Decisions : u = t}
    BY <2>1 DEF DecisionsAt, IndexOf
  <2>4. UNION {DecisionsAt(t) : t \in TurnsOf(c)} = Decisions \cap TurnsOf(c)
    BY <2>3
  <2> QED
    BY <2>2, <2>4 DEF Article
<1> QED
  BY <1>1, <1>2, <1>3, PTL

(***************************************************************************)
(* The glossary.                                                           *)
(***************************************************************************)
GlossaryName == [word : STRING \cup {NoWord}, spaced : BOOLEAN]

(* What an entry is made of (Built). *)
LEMMA BuiltType ==
  ASSUME NEW f \in Files
  PROVE  /\ Built(f).id \in EntryId /\ Built(f).term \in GlossaryName
         /\ Built(f).aliases \in Seq(GlossaryName) /\ Built(f).related \in Seq(GlossaryName)
<1>1. f \in File
  BY FilesAssumption
<1>2. /\ f.term \in GlossaryName /\ f.aliases \in Seq(GlossaryName) /\ f.related \in Seq(GlossaryName)
      /\ f.base \in EntryId /\ (f.declared # 0 => f.declared \in EntryId)
  <2> DEFINE N == [word : STRING, spaced : BOOLEAN]
  <2>1. \A n \in N : n \in GlossaryName
    BY DEF GlossaryName
  <2>2. /\ f.term \in N /\ f.aliases \in Seq(N) /\ f.related \in Seq(N)
        /\ f.base \in EntryId /\ (f.declared # 0 => f.declared \in EntryId)
    BY <1>1 DEF File
  <2> HIDE DEF N
  <2>3. \A s \in Seq(N) : s \in Seq(GlossaryName)
    <3> TAKE s \in Seq(N)
    <3>1. Len(s) \in Nat /\ \A k \in 1..Len(s) : s[k] \in GlossaryName
      BY <2>1
    <3>2. s \in [1..Len(s) -> GlossaryName]
      BY <3>1, SeqIsFunction
    <3> QED
      BY <3>1, <3>2, SeqOfFunction
  <2> QED
    BY <2>1, <2>2, <2>3
<1>3. NoName \in GlossaryName
  BY DEF NoName, GlossaryName
<1> QED
  BY <1>2, <1>3 DEF Built, ParseSource, Fallback, IdOf

LEMMA EntryType ==
  ASSUME EntriesInv, NEW i \in Entries
  PROVE  /\ i \in Nat /\ entry[i].term \in GlossaryName
         /\ entry[i].aliases \in Seq(GlossaryName) /\ entry[i].related \in Seq(GlossaryName)
<1>1. i \in EntryId /\ \E f \in Files : entry[i] = Built(f)
  BY DEF EntriesInv
<1> QED
  BY <1>1, BuiltType, FilesAssumption

(* The names of an entry are its term and its aliases (NamesOf). *)
LEMMA NamesAre ==
  ASSUME EntriesInv, NEW i \in Entries
  PROVE  ToSet(NamesOf(entry[i])) = {entry[i].term} \cup ToSet(entry[i].aliases)
<1>1. entry[i].term \in GlossaryName /\ entry[i].aliases \in Seq(GlossaryName)
  BY EntryType
<1> DEFINE t == entry[i].term
           a == entry[i].aliases
           s == <<t>> \o a
<1>2. <<t>> \in Seq(GlossaryName) /\ Len(<<t>>) = 1 /\ <<t>>[1] = t
  BY <1>1
<1>3. t \in GlossaryName /\ a \in Seq(GlossaryName)
  BY <1>1
<1> HIDE DEF t, a
<1>4. /\ s \in Seq(GlossaryName) /\ Len(s) = 1 + Len(a) /\ Len(a) \in Nat
      /\ s[1] = t /\ \A k \in 1..Len(a) : s[1 + k] = a[k]
  BY <1>2, <1>3, Joined
<1> HIDE DEF s
<1>5. DOMAIN s = 1..1 + Len(a) /\ DOMAIN a = 1..Len(a)
  BY <1>3, <1>4
<1>6. ToSet(s) \subseteq {t} \cup ToSet(a)
  <2> SUFFICES ASSUME NEW k \in 1..1 + Len(a)
               PROVE  s[k] \in {t} \cup ToSet(a)
    BY <1>5 DEF ToSet
  <2>1. CASE k = 1
    BY <2>1, <1>4
  <2>2. CASE k # 1
    <3>1. k - 1 \in 1..Len(a) /\ k = 1 + (k - 1)
      BY <2>2, <1>4
    <3>2. s[k] = a[k - 1]
      BY <3>1, <1>4
    <3> QED
      BY <3>1, <3>2, <1>5 DEF ToSet
  <2> QED
    BY <2>1, <2>2
<1>7. t \in ToSet(s)
  <2>1. 1 \in DOMAIN s
    BY <1>4, <1>5
  <2> QED
    BY <2>1, <1>4 DEF ToSet
<1>8. ToSet(a) \subseteq ToSet(s)
  <2> SUFFICES ASSUME NEW k \in 1..Len(a)
               PROVE  a[k] \in ToSet(s)
    BY <1>5 DEF ToSet
  <2>1. 1 + k \in DOMAIN s /\ s[1 + k] = a[k]
    BY <1>4, <1>5
  <2> QED
    BY <2>1 DEF ToSet
<1>9. ToSet(s) = {t} \cup ToSet(a)
  BY <1>6, <1>7, <1>8
<1> QED
  BY <1>9 DEF NamesOf, s, t, a

(* Of the articles that satisfy something one comes first (FirstOf). *)
LEMMA SomeIsFirst ==
  ASSUME EntriesInv, NEW S \in SUBSET Entries, S # {}
  PROVE  \E i \in FirstOf(S) : TRUE
<1>1. S \subseteq Nat
  BY EntryType
<1> QED
  BY <1>1, LeastInSet DEF FirstOf

(* In a clean glossary a name is that of one article (Validate). *)
LEMMA CleanIsUnique ==
  ASSUME EntriesInv, Clean, NEW word, word # NoWord, NEW i \in Entries, NEW j \in Entries,
         Matches(i, word), Matches(j, word)
  PROVE  i = j
<1> SUFFICES ASSUME i # j
             PROVE  FALSE
  OBVIOUS
<1> DEFINE n == [word |-> word, spaced |-> FALSE]
<1>1. n # NoName
  BY DEF NoName
<1>2. n \in {entry[i].term} \cup ToSet(entry[i].aliases) /\ n \in {entry[j].term} \cup ToSet(entry[j].aliases)
  BY NamesAre DEF Matches
<1>3. i \in Nat /\ j \in Nat
  BY EntryType
<1> HIDE DEF n
<1>4. \A d \in Entries \X Entries : d[1] \in FirstOf(TermOwners(entry[d[2]].term)) => d[1] = d[2]
  BY DEF Clean, DuplicateTerms
<1>5. \A d \in Entries \X Entries : d[1] < d[2] => AliasesOf(d[1]) \cap AliasesOf(d[2]) = {}
  BY DEF Clean, DuplicateAliases
<1>6. \A d \in Entries \X Entries :
        d[1] # d[2] => \A m \in AliasesOf(d[1]) : d[2] \notin FirstOf(TermOwners(m))
  BY DEF Clean, Collisions
<1>7. \A k \in Entries, l \in Entries : k \in FirstOf(TermOwners(entry[l].term)) => k = l
  <2> TAKE k \in Entries, l \in Entries
  <2>1. <<k, l>> \in Entries \X Entries
    OBVIOUS
  <2> QED
    BY <2>1, <1>4
<1>8. \A k \in Entries, l \in Entries : k < l => AliasesOf(k) \cap AliasesOf(l) = {}
  <2> TAKE k \in Entries, l \in Entries
  <2>1. <<k, l>> \in Entries \X Entries
    OBVIOUS
  <2> QED
    BY <2>1, <1>5
<1>9. \A k \in Entries, l \in Entries :
        k # l => \A m \in AliasesOf(k) : l \notin FirstOf(TermOwners(m))
  <2> TAKE k \in Entries, l \in Entries
  <2>1. <<k, l>> \in Entries \X Entries
    OBVIOUS
  <2> QED
    BY <2>1, <1>6
(* Two terms: one of the two is not the first of that term. *)
<1>10. ASSUME NEW k \in Entries, NEW l \in Entries, k # l, entry[k].term = n, entry[l].term = n
       PROVE  FALSE
  <2>1. k \in TermOwners(n) /\ TermOwners(n) \subseteq Entries
    BY <1>1, <1>10 DEF TermOwners
  <2>2. PICK f \in FirstOf(TermOwners(n)) : TRUE
    BY <2>1, SomeIsFirst
  <2>3. f \in Entries
    BY <2>1, <2>2 DEF FirstOf
  <2> QED
    BY <1>7, <1>10, <2>2, <2>3
(* A term and an alias: the alias is the term of another. *)
<1>11. ASSUME NEW k \in Entries, NEW l \in Entries, k # l, n \in ToSet(entry[k].aliases), entry[l].term = n
       PROVE  FALSE
  <2>1. l \in TermOwners(n) /\ TermOwners(n) \subseteq Entries
    BY <1>1, <1>11 DEF TermOwners
  <2>2. PICK f \in FirstOf(TermOwners(n)) : TRUE
    BY <2>1, SomeIsFirst
  <2>3. f \in Entries /\ entry[f].term = n
    BY <2>2 DEF FirstOf, TermOwners
  <2>4. n \in AliasesOf(k)
    BY <1>1, <1>11 DEF AliasesOf
  <2>5. f = k
    BY <1>9, <2>2, <2>3, <2>4
  <2> QED
    BY <1>10, <1>11, <2>3, <2>5
<1>12. CASE entry[i].term = n /\ entry[j].term = n
  BY <1>10, <1>12
<1>13. CASE entry[i].term = n /\ n \in ToSet(entry[j].aliases)
  BY <1>11, <1>13
<1>14. CASE entry[j].term = n /\ n \in ToSet(entry[i].aliases)
  BY <1>11, <1>14
<1>15. CASE n \in ToSet(entry[i].aliases) /\ n \in ToSet(entry[j].aliases)
  <2>1. n \in AliasesOf(i) /\ n \in AliasesOf(j)
    BY <1>1, <1>15 DEF AliasesOf
  <2>2. i < j \/ j < i
    BY <1>3
  <2> QED
    BY <1>8, <2>1, <2>2
<1> QED
  BY <1>2, <1>12, <1>13, <1>14, <1>15

(* A name somebody has is found (Lookup). *)
LEMMA KnownIsFound ==
  ASSUME EntriesInv, NEW n \in GlossaryName, n \in Known, ~n.spaced
  PROVE  Lookup(n.word) # {}
<1>1. PICK i \in Entries : n \in ToSet(NamesOf(entry[i]))
  BY DEF Known
<1>2. n = [word |-> n.word, spaced |-> FALSE]
  BY DEF GlossaryName
<1>3. Matches(i, n.word)
  BY <1>1, <1>2 DEF Matches
<1> DEFINE S == {k \in Entries : Matches(k, n.word)}
<1>4. S # {} /\ S \subseteq Nat
  BY <1>3, EntryType
<1> HIDE DEF S
<1>5. PICK k \in S : \A l \in S : k <= l
  BY <1>4, LeastInSet
<1> QED
  BY <1>5 DEF Lookup, S

(* What kb glossary validate finds clean keeps its promise. *)
LEMMA CleanResolves ==
  ASSUME EntriesInv
  PROVE  CleanNamesResolve
<1> SUFFICES ASSUME Clean
             PROVE  /\ \A w \in Words : Cardinality({i \in Entries : Matches(i, w)}) <= 1
                    /\ \A i \in Entries : \A n \in ToSet(entry[i].related) \ {NoName} :
                           ~n.spaced => Lookup(n.word) # {}
  BY DEF CleanNamesResolve
<1>1. ASSUME NEW w \in Words PROVE Cardinality({i \in Entries : Matches(i, w)}) <= 1
  <2> DEFINE S == {i \in Entries : Matches(i, w)}
  <2>1. w # NoWord
    BY DEF Words
  <2>2. \A i \in S, j \in S : i = j
    BY <2>1, CleanIsUnique
  <2> HIDE DEF S
  <2>3. CASE S = {}
    BY <2>3, FS_EmptySet DEF S
  <2>4. CASE S # {}
    <3>1. PICK i \in S : S = {i}
      BY <2>2, <2>4
    <3>2. Cardinality({i}) = 1
      BY FS_Singleton
    <3> QED
      BY <3>1, <3>2 DEF S
  <2> QED
    BY <2>3, <2>4
<1>2. ASSUME NEW i \in Entries, NEW n \in ToSet(entry[i].related) \ {NoName}, ~n.spaced
      PROVE  Lookup(n.word) # {}
  <2>1. n \in Known
    BY <1>2 DEF Clean, Dangling
  <2>2. n \in GlossaryName
    BY EntryType DEF ToSet
  <2> QED
    BY <1>2, <2>1, <2>2, KnownIsFound
<1> QED
  BY <1>1, <1>2

(* EntriesInv is kept. *)
LEMMA EntriesInvStep == EntriesInv /\ [GlossaryNext]_glossaryVars => EntriesInv'
<1> SUFFICES ASSUME EntriesInv, [GlossaryNext]_glossaryVars
             PROVE  EntriesInv'
  OBVIOUS
<1>1. CASE UNCHANGED entry
  BY <1>1 DEF EntriesInv, Entries
<1>2. ASSUME NEW f \in Files, SaveEntry(f) PROVE EntriesInv'
  <2> DEFINE e == Built(f)
  <2>1. entry' = [i \in Entries \cup {e.id} |-> IF i = e.id THEN e ELSE entry[i]]
    BY <1>2 DEF SaveEntry
  <2>2. e.id \in EntryId
    BY BuiltType
  <2>3. Entries' = Entries \cup {e.id}
    BY <2>1 DEF Entries
  <2>4. ASSUME NEW i \in Entries' PROVE i \in EntryId /\ \E g \in Files : entry'[i] = Built(g)
    <3>1. CASE i = e.id
      <4>1. entry'[i] = Built(f)
        BY <3>1, <2>1, <2>3
      <4> QED
        BY <3>1, <4>1, <2>2
    <3>2. CASE i # e.id
      <4>1. i \in Entries /\ entry'[i] = entry[i]
        BY <3>2, <2>1, <2>3, <2>4
      <4> QED
        BY <4>1 DEF EntriesInv
    <3> QED
      BY <3>1, <3>2
  <2> QED
    BY <2>4 DEF EntriesInv
<1> QED
  BY <1>1, <1>2 DEF GlossaryNext, Scan, BuildAgain, glossaryVars

(* In a glossary that kb glossary validate finds clean, a name leads to    *)
(* one article at most, and every reference that can be spelt to some      *)
(* article, whatever sources were built in whatever order                  *)
(* (glossary.go:199).                                                      *)
THEOREM CleanGlossary == GlossaryInit /\ [][GlossaryNext]_glossaryVars => []CleanNamesResolve
<1>1. GlossaryInit => EntriesInv
  BY DEF GlossaryInit, EntriesInv, Entries
<1>2. EntriesInv /\ [GlossaryNext]_glossaryVars => EntriesInv'
  BY EntriesInvStep
<1>3. EntriesInv => CleanNamesResolve
  BY CleanResolves
<1> QED
  BY <1>1, <1>2, <1>3, PTL

(* The articles that claim a word. *)
Claiming(word) == {i \in Entries : Claims(entry[i], word)}

(* Of candidates among which every article is, each as it is, those that   *)
(* stand for their sources are the articles that claim the word (Detect).  *)
LEMMA MembersAreArticles ==
  ASSUME IsFiniteSet(Entries), NEW n \in Nat, NEW cands, DOMAIN cands = 1..n,
         \A k \in 1..n : cands[k].id \in Entries /\ entry[cands[k].id] = cands[k],
         \A i \in Entries : \E k \in 1..n : cands[k].id = i,
         NEW word
  PROVE  /\ Cardinality(Members(cands, word)) = Cardinality(Claiming(word))
         /\ \A k \in Members(cands, word) : cands[k].id \in Claiming(word) /\ entry[cands[k].id] = cands[k]
         /\ \A i \in Claiming(word) : \E k \in Members(cands, word) : cands[k].id = i
<1> DEFINE M == Members(cands, word)   C == Claiming(word)   f == [k \in M |-> cands[k].id]
<1>1. \A k \in M : k \in 1..n /\ cands[k].id \in C /\ entry[cands[k].id] = cands[k]
  BY DEF Members, Claiming
<1>2. ASSUME NEW i \in C PROVE \E k \in M : cands[k].id = i
  <2> DEFINE K == {k \in 1..n : cands[k].id = i}
  <2>1. K # {} /\ K \in SUBSET Nat
    BY DEF Claiming
  <2> HIDE DEF K
  <2>2. PICK k \in K : \A l \in K : k <= l
    BY <2>1, LeastInSet
  <2>3. k \in 1..n /\ cands[k].id = i
    BY <2>2 DEF K
  <2>4. cands[k] = entry[i]
    BY <2>3
  <2>5. Claims(cands[k], word)
    BY <1>2, <2>4 DEF Claiming
  <2>6. \A j \in 1..k - 1 : cands[j].id # cands[k].id
    <3> SUFFICES ASSUME NEW j \in 1..k - 1, cands[j].id = cands[k].id PROVE FALSE
      OBVIOUS
    <3>1. j \in 1..n /\ j < k
      BY <2>3
    <3>2. j \in K
      BY <2>3, <3>1 DEF K
    <3> QED
      BY <2>2, <2>3, <3>1, <3>2
  <2> QED
    BY <2>3, <2>5, <2>6 DEF Members
<1>3. \A k, l \in M : cands[k].id = cands[l].id => k = l
  <2> SUFFICES ASSUME NEW k \in M, NEW l \in M, cands[k].id = cands[l].id, k < l PROVE FALSE
    <3>1. \A k, l \in M : k \in Nat /\ l \in Nat
      BY <1>1
    <3> QED
      BY <3>1
  <2>1. k \in 1..l - 1 /\ Claims(cands[k], word)
    BY <1>1 DEF Members
  <2> QED
    BY <2>1 DEF Members
<1>4. f \in Bijection(M, C)
  BY <1>1, <1>2, <1>3 DEF Bijection, Injection, Surjection, IsInjective
<1>5. IsFiniteSet(M)
  <2>1. IsFiniteSet(1..n) /\ M \in SUBSET (1..n)
    BY <1>1, FS_Interval
  <2> QED
    BY <2>1, FS_Subset
<1>6. ExistsBijection(M, C)
  BY <1>4 DEF ExistsBijection
<1> HIDE DEF M, C
<1>7. Cardinality(M) = Cardinality(C)
  BY <1>5, <1>6, FS_Bijection
<1> QED
  BY <1>1, <1>2, <1>7 DEF M, C

(* What is reported of such candidates depends on the articles only. *)
LEMMA ReportOfArticles ==
  ASSUME IsFiniteSet(Entries), NEW n \in Nat, NEW cands, DOMAIN cands = 1..n,
         \A k \in 1..n : cands[k].id \in Entries /\ entry[cands[k].id] = cands[k],
         \A i \in Entries : \E k \in 1..n : cands[k].id = i,
         NEW mode
  PROVE  Detect(cands, mode) =
            {[word |-> w, sources |-> Claiming(w), count |-> Cardinality(Claiming(w))] :
                w \in {v \in Words : \E i, j \in Claiming(v) :
                                         DefinitionKey(entry[i], mode) # DefinitionKey(entry[j], mode)}}
<1>1. \A w : Cardinality(Members(cands, w)) = Cardinality(Claiming(w))
  BY MembersAreArticles
<1>2. \A w : \A k \in Members(cands, w) : cands[k].id \in Claiming(w) /\ entry[cands[k].id] = cands[k]
  BY MembersAreArticles
<1>3. \A w : \A i \in Claiming(w) : \E k \in Members(cands, w) : cands[k].id = i
  BY MembersAreArticles
<1>4. \A w : {cands[k].id : k \in Members(cands, w)} = Claiming(w)
  BY <1>2, <1>3
<1>5. \A v : (\E k, l \in Members(cands, v) : DefinitionKey(cands[k], mode) # DefinitionKey(cands[l], mode))
             <=> \E i, j \in Claiming(v) : DefinitionKey(entry[i], mode) # DefinitionKey(entry[j], mode)
  <2> TAKE v
  <2>1. ASSUME NEW k \in Members(cands, v), NEW l \in Members(cands, v),
               DefinitionKey(cands[k], mode) # DefinitionKey(cands[l], mode)
        PROVE  \E i, j \in Claiming(v) : DefinitionKey(entry[i], mode) # DefinitionKey(entry[j], mode)
    BY <1>2, <2>1
  <2>2. ASSUME NEW i \in Claiming(v), NEW j \in Claiming(v),
               DefinitionKey(entry[i], mode) # DefinitionKey(entry[j], mode)
        PROVE  \E k, l \in Members(cands, v) : DefinitionKey(cands[k], mode) # DefinitionKey(cands[l], mode)
    <3>1. PICK k \in Members(cands, v) : cands[k].id = i
      BY <1>3
    <3>2. PICK l \in Members(cands, v) : cands[l].id = j
      BY <1>3
    <3>3. cands[k] = entry[i] /\ cands[l] = entry[j]
      BY <1>2, <3>1, <3>2
    <3> QED
      BY <2>2, <3>3
  <2> QED
    BY <2>1, <2>2
<1>6. \A w : [word |-> w, sources |-> {cands[k].id : k \in Members(cands, w)}, count |-> Cardinality(Members(cands, w))]
              = [word |-> w, sources |-> Claiming(w), count |-> Cardinality(Claiming(w))]
  BY <1>1, <1>4
<1> DEFINE V == {v \in Words : \E k, l \in Members(cands, v) :
                                   DefinitionKey(cands[k], mode) # DefinitionKey(cands[l], mode)}
           W == {v \in Words : \E i, j \in Claiming(v) :
                                   DefinitionKey(entry[i], mode) # DefinitionKey(entry[j], mode)}
<1>7. V = W
  BY <1>5
<1>8. Detect(cands, mode) =
         {[word |-> w, sources |-> {cands[k].id : k \in Members(cands, w)}, count |-> Cardinality(Members(cands, w))] : w \in V}
  BY DEF Detect
<1> HIDE DEF V, W
<1>9. Detect(cands, mode) = {[word |-> w, sources |-> Claiming(w), count |-> Cardinality(Claiming(w))] : w \in W}
  BY <1>6, <1>7, <1>8
<1> QED
  BY <1>9 DEF W

(* A listing has every article once, and there is one (ListArticles). *)
LEMMA ListingIsAll ==
  ASSUME EntriesInv, BuildInv, NEW listing \in Listings
  PROVE  \E n \in Nat :
            /\ DOMAIN listing = 1..n /\ listing \in Seq({Built(f) : f \in Files})
            /\ \A k \in 1..n : listing[k].id \in Entries /\ entry[listing[k].id] = listing[k]
            /\ \A i \in Entries : \E k \in 1..n : listing[k].id = i
<1>1. Entries \in SUBSET Nat /\ IsFiniteSet(Entries) /\ \A i \in Entries : entry[i].id = i
  BY EntryType DEF BuildInv
<1>2. PICK k \in InOrder(Entries) : listing = [i \in DOMAIN k |-> entry[k[i]]]
  BY DEF Listings
<1>3. PICK n \in Nat : n = Cardinality(Entries)
  BY <1>1, FS_CardinalityType
<1>4. /\ DOMAIN k = 1..n /\ \A i \in 1..n : k[i] \in Entries
      /\ \A x \in Entries : \E i \in 1..n : k[i] = x
  BY <1>1, <1>3, InOrderIsAll
<1>5. DOMAIN listing = 1..n /\ \A i \in 1..n : listing[i] = entry[k[i]]
  BY <1>2, <1>4
<1>6. \A i \in 1..n : listing[i].id = k[i]
  BY <1>1, <1>4, <1>5
<1>7. listing \in [1..n -> {Built(f) : f \in Files}]
  <2>1. \A i \in 1..n : \E f \in Files : listing[i] = Built(f)
    BY <1>4, <1>5 DEF EntriesInv
  <2>2. listing = [i \in 1..n |-> listing[i]]
    BY <1>2, <1>4, <1>5
  <2> QED
    BY <2>1, <2>2
<1>8. listing \in Seq({Built(f) : f \in Files})
  BY <1>7, SeqOfFunction
<1>9. \A j \in 1..n : listing[j].id \in Entries /\ entry[listing[j].id] = listing[j]
  BY <1>4, <1>5, <1>6
<1>10. \A i \in Entries : \E j \in 1..n : listing[j].id = i
  BY <1>4, <1>6
<1> WITNESS n \in Nat
<1> QED
  BY <1>5, <1>8, <1>9, <1>10

(* What a build saves is there, and its own is what it saved. *)
LEMMA BuildInvStep == EntriesInv /\ BuildInv /\ [GlossaryNext]_glossaryVars => BuildInv'
<1> SUFFICES ASSUME EntriesInv, BuildInv, [GlossaryNext]_glossaryVars
             PROVE  BuildInv'
  OBVIOUS
<1>1. CASE UNCHANGED <<entry, fresh>>
  BY <1>1 DEF BuildInv, Entries, DistinctIds
<1>2. CASE BuildAgain
  <2>1. entry' = entry /\ fresh' = <<>>
    BY <1>2 DEF BuildAgain
  <2>2. Entries' = Entries
    BY <2>1 DEF Entries
  <2> QED
    BY <2>1, <2>2 DEF BuildInv
<1>3. ASSUME NEW f \in Files, SaveEntry(f) PROVE BuildInv'
  <2> DEFINE B == {Built(g) : g \in Files}
  <2>1. PICK e \in B : e = Built(f)
    OBVIOUS
  <2>2. /\ entry' = [i \in Entries \cup {e.id} |-> IF i = e.id THEN e ELSE entry[i]]
        /\ fresh' = Append(fresh, e)
    BY <1>3, <2>1 DEF SaveEntry
  <2>3. fresh \in Seq(B)
    BY DEF BuildInv
  <2> HIDE DEF B
  <2>4. Entries' = Entries \cup {e.id}
    BY <2>2 DEF Entries
  <2>5. IsFiniteSet(Entries')
    BY <2>4, FS_AddElement DEF BuildInv
  <2>6. \A i \in Entries' : entry'[i] = IF i = e.id THEN e ELSE entry[i]
    BY <2>2, <2>4
  <2>7. \A i \in Entries' : entry'[i].id = i
    BY <2>4, <2>6 DEF BuildInv
  <2>8. /\ fresh' \in Seq(B) /\ Len(fresh) \in Nat /\ DOMAIN fresh = 1..Len(fresh)
        /\ DOMAIN fresh' = 1..Len(fresh) + 1
        /\ \A k \in DOMAIN fresh' : fresh'[k] = IF k = Len(fresh) + 1 THEN e ELSE fresh[k]
    BY <2>2, <2>3
  <2>9. \A k \in DOMAIN fresh : fresh[k].id \in Entries
    BY DEF BuildInv
  <2>10. \A k \in DOMAIN fresh' : fresh'[k].id \in Entries'
    BY <2>4, <2>8, <2>9
  <2>11. ASSUME DistinctIds', NEW k \in DOMAIN fresh' PROVE entry'[fresh'[k].id] = fresh'[k]
    <3>1. CASE k = Len(fresh) + 1
      BY <2>6, <2>8, <2>10, <3>1
    <3>2. CASE k # Len(fresh) + 1
      <4>1. k \in DOMAIN fresh /\ fresh'[k] = fresh[k]
        BY <2>8, <3>2
      <4>2. \A i, j \in DOMAIN fresh : i # j => fresh[i].id # fresh[j].id
        BY <2>8, <2>11 DEF DistinctIds
      <4>3. entry[fresh[k].id] = fresh[k]
        BY <4>1, <4>2 DEF BuildInv, DistinctIds
      <4>4. Len(fresh) + 1 \in DOMAIN fresh' /\ fresh'[Len(fresh) + 1] = e
        BY <2>8
      <4>5. fresh[k].id # e.id
        BY <2>11, <3>2, <4>1, <4>4 DEF DistinctIds
      <4>6. fresh[k].id \in Entries'
        BY <2>10, <4>1
      <4> QED
        BY <2>6, <4>1, <4>3, <4>5, <4>6
    <3> QED
      BY <3>1, <3>2
  <2> QED
    BY <2>5, <2>7, <2>8, <2>10, <2>11 DEF BuildInv, B
<1> QED
  BY <1>1, <1>2, <1>3 DEF GlossaryNext, Scan, glossaryVars

(* There is a listing (CandidatesFromArticles). *)
LEMMA ListingExists ==
  ASSUME EntriesInv, BuildInv
  PROVE  Listings # {}
<1>1. Entries \in SUBSET Nat /\ IsFiniteSet(Entries)
  BY FilesAssumption DEF EntriesInv, BuildInv
<1>2. PICK k \in InOrder(Entries) : TRUE
  BY <1>1, OrderExists
<1> QED
  BY <1>2 DEF Listings

(* A build whose glossary sources have distinct ids reports exactly what   *)
(* kb glossary validate does, with the same counts: what it compiled and   *)
(* what it lists are one set of sources (cmd_build.go:301, 346).           *)
THEOREM BuildReports == GlossaryInit /\ [][GlossaryNext]_glossaryVars => []BuildReportsWhatValidateDoes
<1>1. GlossaryInit => EntriesInv /\ BuildInv
  <2> SUFFICES ASSUME GlossaryInit PROVE EntriesInv /\ BuildInv
    OBVIOUS
  <2>1. Entries = {} /\ fresh = <<>>
    BY DEF GlossaryInit, Entries
  <2> QED
    BY <2>1, FS_EmptySet DEF EntriesInv, BuildInv
<1>2. EntriesInv /\ BuildInv => BuildReportsWhatValidateDoes
  <2> SUFFICES ASSUME EntriesInv, BuildInv, DistinctIds, NEW mode, NEW listing \in Listings
               PROVE  Detect(BuildCandidates(listing), mode) = Detect(listing, mode)
    BY DEF BuildReportsWhatValidateDoes
  <2> DEFINE B == {Built(f) : f \in Files}
  <2>1. PICK n \in Nat : /\ DOMAIN listing = 1..n /\ listing \in Seq(B)
                         /\ \A k \in 1..n : listing[k].id \in Entries /\ entry[listing[k].id] = listing[k]
                         /\ \A i \in Entries : \E k \in 1..n : listing[k].id = i
    BY ListingIsAll
  <2>2. fresh \in Seq(B) /\ \A k \in DOMAIN fresh : fresh[k].id \in Entries /\ entry[fresh[k].id] = fresh[k]
    BY DEF BuildInv
  <2> HIDE DEF B
  <2>3. Len(listing) = n /\ Len(fresh) \in Nat /\ DOMAIN fresh = 1..Len(fresh)
    BY <2>1, <2>2
  <2>4. PICK m \in Nat : m = Len(fresh)
    BY <2>3
  <2>5. PICK both : both = fresh \o listing
    OBVIOUS
  <2>6. /\ both \in Seq(B) /\ DOMAIN both = 1..m + n
        /\ \A k \in 1..m : both[k] = fresh[k]
        /\ \A k \in 1..n : both[m + k] = listing[k]
    <3>1. /\ fresh \o listing \in Seq(B) /\ Len(fresh \o listing) = Len(fresh) + Len(listing)
          /\ \A i \in 1..Len(fresh) : (fresh \o listing)[i] = fresh[i]
          /\ \A i \in 1..Len(listing) : (fresh \o listing)[Len(fresh) + i] = listing[i]
      BY <2>1, <2>2, Joined
    <3>2. both \in Seq(B) /\ Len(both) = m + n
      BY <2>3, <2>4, <2>5, <3>1
    <3> QED
      BY <2>3, <2>4, <2>5, <3>1, <3>2
  <2>7. \A k \in 1..m + n : both[k].id \in Entries /\ entry[both[k].id] = both[k]
    <3> TAKE k \in 1..m + n
    <3>1. CASE k <= m
      BY <2>2, <2>3, <2>4, <2>6, <3>1
    <3>2. CASE k > m
      <4>1. k - m \in 1..n /\ m + (k - m) = k
        BY <3>2
      <4>2. both[k] = listing[k - m]
        BY <2>6, <4>1
      <4> QED
        BY <2>1, <4>1, <4>2
    <3> QED
      BY <3>1, <3>2
  <2>8. \A i \in Entries : \E k \in 1..m + n : both[k].id = i
    <3> TAKE i \in Entries
    <3>1. PICK k \in 1..n : listing[k].id = i
      BY <2>1
    <3>2. m + k \in 1..m + n /\ both[m + k].id = i
      BY <2>6, <3>1
    <3> QED
      BY <3>2
  <2>9. IsFiniteSet(Entries) /\ m + n \in Nat
    BY DEF BuildInv
  <2>10. PICK l \in Nat : l = m + n
    BY <2>9
  <2>11. Detect(both, mode) = Detect(listing, mode)
    <3>1. DOMAIN both = 1..l /\ \A k \in 1..l : both[k].id \in Entries /\ entry[both[k].id] = both[k]
      BY <2>6, <2>7, <2>10
    <3>2. \A i \in Entries : \E k \in 1..l : both[k].id = i
      BY <2>8, <2>10
    <3> DEFINE R == {[word |-> w, sources |-> Claiming(w), count |-> Cardinality(Claiming(w))] :
                       w \in {v \in Words : \E i, j \in Claiming(v) :
                                  DefinitionKey(entry[i], mode) # DefinitionKey(entry[j], mode)}}
    <3>3. Detect(both, mode) = R
      BY <2>9, <3>1, <3>2, ReportOfArticles
    <3>4. Detect(listing, mode) = R
      BY <2>1, <2>9, ReportOfArticles
    <3> QED
      BY <3>3, <3>4
  <2> QED
    BY <2>5, <2>11 DEF BuildCandidates
<1> QED
  BY <1>1, <1>2, EntriesInvStep, BuildInvStep, PTL

(***************************************************************************)
(* The categories.                                                         *)
(***************************************************************************)
(* How often a label is used is a number (ClusterCategories). *)
LEMMA UsesAreFinite ==
  ASSUME NEW c \in [Art -> Seq(Label)], NEW l
  PROVE  Uses(c, l) \in Nat
<1> DEFINE f == [a \in Art |-> {a} \X {i \in DOMAIN c[a] : c[a][i] = l}]
           S == {{a} \X {i \in DOMAIN c[a] : c[a][i] = l} : a \in Art}
<1>1. ASSUME NEW a \in Art PROVE IsFiniteSet(f[a])
  <2> DEFINE I == {i \in DOMAIN c[a] : c[a][i] = l}
  <2>1. Len(c[a]) \in Nat /\ DOMAIN c[a] = 1..Len(c[a])
    OBVIOUS
  <2>2. I \in SUBSET (1..Len(c[a])) /\ IsFiniteSet(1..Len(c[a]))
    BY <2>1, FS_Interval
  <2>3. f[a] = {a} \X I
    OBVIOUS
  <2> HIDE DEF I, f
  <2>4. IsFiniteSet(I) /\ IsFiniteSet({a})
    BY <2>2, FS_Subset, FS_Singleton
  <2> QED
    BY <2>3, <2>4, FS_Product
<1>2. \A T : T \in S <=> \E a \in Art : T = f[a]
  OBVIOUS
<1> HIDE DEF f, S
<1>3. IsFiniteSet(S)
  BY <1>2, LabelsAssumption, ImageIsFinite
<1>4. \A T \in S : IsFiniteSet(T)
  <2> TAKE T \in S
  <2>1. PICK a \in Art : T = f[a]
    BY <1>2
  <2> QED
    BY <1>1, <2>1
<1>5. IsFiniteSet(UNION S)
  BY <1>3, <1>4, FS_UNION
<1>6. Cardinality(UNION S) \in Nat
  BY <1>5, FS_CardinalityType
<1> QED
  BY <1>6 DEF Uses, S

(* Labels of a key are finitely many. *)
LEMMA VariantsAreLabels ==
  ASSUME NEW c \in [Art -> Seq(Label)], NEW k
  PROVE  /\ Variants(c, k) \in SUBSET Label /\ Variants(c, k) \in SUBSET Nat
         /\ IsFiniteSet(Variants(c, k)) /\ Cardinality(Variants(c, k)) \in Nat
<1>1. Variants(c, k) \in SUBSET Label
  BY DEF Variants
<1> QED
  BY <1>1, LabelsAssumption, FS_Subset, FS_CardinalityType

(* A key that is used has a best label. *)
LEMMA BestExists ==
  ASSUME NEW c \in [Art -> Seq(Label)], NEW k, Variants(c, k) # {}
  PROVE  \E l : Best(c, k, l)
<1> DEFINE V == Variants(c, k)
           f == [l \in V |-> Uses(c, l)]
           N == {f[l] : l \in V}
<1>1. V # {} /\ V \in SUBSET Nat /\ IsFiniteSet(V)
  BY VariantsAreLabels
<1>2. \A l \in V : f[l] = Uses(c, l) /\ f[l] \in Nat
  BY UsesAreFinite
<1> HIDE DEF V, f
<1>3. \A y : y \in N <=> \E x \in V : y = f[x]
  OBVIOUS
<1>a. N # {} /\ N \in SUBSET Nat
  BY <1>1, <1>2
<1> HIDE DEF N
<1>b. IsFiniteSet(N)
  BY <1>1, <1>3, ImageIsFinite
<1>4. N # {} /\ N \in SUBSET Nat /\ IsFiniteSet(N)
  BY <1>a, <1>b
<1>5. PICK n \in N : \A m \in N : m <= n
  BY <1>4, GreatestInSet
<1> DEFINE W == {l \in V : f[l] = n}
<1>6. W # {} /\ W \in SUBSET Nat
  BY <1>1, <1>3
<1> HIDE DEF W
<1>7. PICK l \in W : \A m \in W : l <= m
  BY <1>6, LeastInSet
<1>8. l \in V /\ f[l] = n
  BY <1>7 DEF W
<1>9. \A m \in V : f[m] <= n /\ (f[m] = n => l <= m)
  BY <1>3, <1>5, <1>7 DEF W
<1>10. \A m \in V : f[l] > f[m] \/ (f[l] = f[m] /\ l <= m)
  BY <1>2, <1>8, <1>9
<1> QED
  BY <1>2, <1>8, <1>10 DEF Best, V

(* It is the only one. *)
LEMMA BestIsOne ==
  ASSUME NEW c \in [Art -> Seq(Label)], NEW k, NEW l, NEW m, Best(c, k, l), Best(c, k, m)
  PROVE  l = m
<1>1. l \in Variants(c, k) /\ m \in Variants(c, k) /\ l \in Nat /\ m \in Nat
  BY VariantsAreLabels DEF Best
<1>2. Uses(c, l) \in Nat /\ Uses(c, m) \in Nat
  BY UsesAreFinite
<1>3. Uses(c, l) > Uses(c, m) \/ (Uses(c, l) = Uses(c, m) /\ l <= m)
  BY <1>1 DEF Best
<1>4. Uses(c, m) > Uses(c, l) \/ (Uses(c, m) = Uses(c, l) /\ m <= l)
  BY <1>1 DEF Best
<1> QED
  BY <1>1, <1>2, <1>3, <1>4

(* What PickCanonical picks for a noisy cluster is its best label. *)
LEMMA PickedIsBest ==
  ASSUME NEW c \in [Art -> Seq(Label)], NEW k \in NoisyKeys(c)
  PROVE  /\ Best(c, k, PickCanonical(c, k))
         /\ PickCanonical(c, k) \in Label /\ Key[PickCanonical(c, k)] = k
<1>1. Variants(c, k) # {}
  BY FS_EmptySet DEF NoisyKeys
<1>2. \E l : Best(c, k, l)
  BY <1>1, BestExists
<1>3. Best(c, k, PickCanonical(c, k))
  BY <1>2 DEF Best, PickCanonical
<1> QED
  BY <1>3 DEF Best, Variants

(* The articles that use a label. *)
Users(c, l) == {a \in Art : l \in ToSet(c[a])}

(* Without repetitions a label is used once by each of its articles. *)
LEMMA UsesAreUsers ==
  ASSUME NEW c \in [Art -> Seq(Label)], \A a \in Art : NoRepeats(c[a]), NEW l
  PROVE  IsFiniteSet(Users(c, l)) /\ Cardinality(Users(c, l)) \in Nat /\ Uses(c, l) = Cardinality(Users(c, l))
<1> DEFINE U == Users(c, l)
           P == UNION {{a} \X {i \in DOMAIN c[a] : c[a][i] = l} : a \in Art}
           f == [a \in U |-> <<a, CHOOSE i \in DOMAIN c[a] : c[a][i] = l>>]
<1>1. IsFiniteSet(U) /\ Cardinality(U) \in Nat
  BY LabelsAssumption, FS_Subset, FS_CardinalityType DEF Users
<1>2. \A a \in U : \E i \in DOMAIN c[a] : c[a][i] = l
  BY DEF Users, ToSet
<1>3. \A a \in U : \E i \in DOMAIN c[a] : c[a][i] = l /\ f[a] = <<a, i>>
  BY <1>2
<1>4. \A p \in P : \E a \in Art : \E i \in DOMAIN c[a] : c[a][i] = l /\ p = <<a, i>>
  OBVIOUS
<1>5. \A a \in Art : \A i \in DOMAIN c[a] : c[a][i] = l => <<a, i>> \in P /\ a \in U
  BY DEF Users, ToSet
<1>6. DOMAIN f = U /\ U \subseteq Art
  BY DEF Users
<1> HIDE DEF U, P, f
<1>7. \A a \in U : f[a] \in P
  BY <1>3, <1>5, <1>6
<1>8. \A a, b \in U : f[a] = f[b] => a = b
  BY <1>3
<1>9. \A p \in P : \E a \in U : f[a] = p
  <2> TAKE p \in P
  <2>1. PICK a \in Art : \E i \in DOMAIN c[a] : c[a][i] = l /\ p = <<a, i>>
    BY <1>4
  <2>5. PICK i \in DOMAIN c[a] : c[a][i] = l /\ p = <<a, i>>
    BY <2>1
  <2>2. a \in U
    BY <1>5, <2>5
  <2>3. PICK j \in DOMAIN c[a] : c[a][j] = l /\ f[a] = <<a, j>>
    BY <1>3, <2>2
  <2>4. i = j
    BY <2>5, <2>3 DEF NoRepeats
  <2> QED
    BY <2>5, <2>2, <2>3, <2>4
<1>10. f \in [U -> P]
  <2>1. f = [a \in U |-> f[a]]
    BY DEF f
  <2> QED
    BY <1>7, <2>1
<1>11. f \in Bijection(U, P)
  BY <1>8, <1>9, <1>10 DEF Bijection, Injection, Surjection, IsInjective
<1>12. ExistsBijection(U, P)
  BY <1>11 DEF ExistsBijection
<1>13. Cardinality(P) = Cardinality(U)
  BY <1>1, <1>12, FS_Bijection
<1> QED
  BY <1>1, <1>13 DEF U, P, Uses

(* The choices of a run: a label of each key it rewrites. *)
LabelsChosen == canonical \in [DOMAIN canonical -> Label] /\ \A k \in DOMAIN canonical : Key[canonical[k]] = k

(* A label keeps its key when it is replaced (buildRewriteMap). *)
LEMMA ReplacementKey ==
  ASSUME LabelsChosen, NEW l \in Label
  PROVE  Replacement(l) \in Label /\ Key[Replacement(l)] = Key[l]
BY DEF LabelsChosen, Replacement

(* A rewritten list has the replacements of what it had, each once (ApplyCanonical). *)
LEMMA RewrittenIs ==
  ASSUME LabelsChosen, NEW s \in Seq(Label), NEW t \in Rewritten(s)
  PROVE  /\ t \in Seq(Label) /\ NoRepeats(t)
         /\ \A x : x \in ToSet(t) <=> \E y \in ToSet(s) : x = Replacement(y)
<1> DEFINE r == [i \in DOMAIN s |-> Replacement(s[i])]
           F == {i \in DOMAIN s : \A j \in 1..i - 1 : r[j] # r[i]}
<1>1. PICK n \in Nat : n = Len(s)
  OBVIOUS
<1>2. DOMAIN s = 1..n /\ \A i \in 1..n : s[i] \in Label
  BY <1>1
<1>3. \A i \in 1..n : r[i] = Replacement(s[i]) /\ r[i] \in Label
  BY <1>2, ReplacementKey
<1>4. F \in SUBSET (1..n) /\ \A i \in 1..n : i \in F <=> \A j \in 1..i - 1 : r[j] # r[i]
  BY <1>2
<1>5. PICK k \in InOrder(F) : t = [i \in DOMAIN k |-> r[k[i]]]
  BY DEF Rewritten
<1> HIDE DEF F, r
<1>6. F \in SUBSET Nat /\ IsFiniteSet(F)
  <2>1. IsFiniteSet(1..n)
    BY FS_Interval
  <2>2. IsFiniteSet(F)
    BY <1>4, <2>1, FS_Subset
  <2> QED
    BY <1>4, <2>2
<1>7. PICK m \in Nat : m = Cardinality(F)
  BY <1>6, FS_CardinalityType
<1>8. /\ DOMAIN k = 1..m /\ \A i \in 1..m : k[i] \in F
      /\ \A i, j \in 1..m : i # j => k[i] # k[j]
      /\ \A x \in F : \E i \in 1..m : k[i] = x
  BY <1>6, <1>7, InOrderIsAll
<1>9. DOMAIN t = 1..m /\ \A i \in 1..m : t[i] = r[k[i]] /\ k[i] \in 1..n
  BY <1>4, <1>5, <1>8
<1>10. t \in Seq(Label)
  <2>1. t \in [1..m -> Label]
    BY <1>3, <1>5, <1>8, <1>9
  <2> QED
    BY <2>1, SeqOfFunction
<1>11. NoRepeats(t)
  <2> SUFFICES ASSUME NEW i \in 1..m, NEW j \in 1..m, i # j, t[i] = t[j] PROVE FALSE
    BY <1>9 DEF NoRepeats
  <2>1. k[i] # k[j] /\ k[i] \in F /\ k[j] \in F /\ k[i] \in 1..n /\ k[j] \in 1..n /\ r[k[i]] = r[k[j]]
    BY <1>8, <1>9
  <2>2. PICK p \in 1..n, q \in 1..n : p = k[i] /\ q = k[j]
    BY <2>1
  <2>3. p < q \/ q < p
    BY <2>1, <2>2
  <2>4. p \in 1..q - 1 \/ q \in 1..p - 1
    BY <2>3
  <2> QED
    BY <1>4, <2>1, <2>2, <2>4
<1>12. ASSUME NEW x \in ToSet(t) PROVE \E y \in ToSet(s) : x = Replacement(y)
  <2>1. PICK i \in 1..m : t[i] = x
    BY <1>9 DEF ToSet
  <2>2. s[k[i]] \in ToSet(s) /\ x = Replacement(s[k[i]])
    BY <1>2, <1>3, <1>9, <2>1 DEF ToSet
  <2> QED
    BY <2>2
<1>13. ASSUME NEW y \in ToSet(s) PROVE Replacement(y) \in ToSet(t)
  <2>1. PICK i \in 1..n : s[i] = y
    BY <1>2 DEF ToSet
  <2> DEFINE I == {j \in 1..n : r[j] = r[i]}
  <2>9. i \in I
    OBVIOUS
  <2>10. \A j \in I : j \in Nat
    OBVIOUS
  <2> HIDE DEF I
  <2>2. I \in SUBSET Nat /\ I # {}
    BY <2>9, <2>10
  <2>3. PICK f \in I : \A j \in I : f <= j
    BY <2>2, LeastInSet
  <2>4. f \in 1..n /\ r[f] = r[i]
    BY <2>3 DEF I
  <2>5. \A j \in 1..f - 1 : r[j] # r[f]
    <3> SUFFICES ASSUME NEW j \in 1..f - 1, r[j] = r[f] PROVE FALSE
      OBVIOUS
    <3>1. j \in 1..n /\ j < f
      BY <2>4
    <3>2. j \in I
      BY <2>4, <3>1 DEF I
    <3> QED
      BY <2>3, <2>4, <3>1, <3>2
  <2>6. f \in F
    BY <1>4, <2>4, <2>5
  <2>7. PICK j \in 1..m : k[j] = f
    BY <1>8, <2>6
  <2>8. t[j] = Replacement(y)
    BY <1>3, <1>9, <2>1, <2>4, <2>7
  <2> QED
    BY <1>9, <2>8 DEF ToSet
<1> QED
  BY <1>10, <1>11, <1>12, <1>13

(* There is one. *)
LEMMA RewrittenExists ==
  ASSUME NEW s \in Seq(Label)
  PROVE  Rewritten(s) # {}
<1> DEFINE r == [i \in DOMAIN s |-> Replacement(s[i])]
           F == {i \in DOMAIN s : \A j \in 1..i - 1 : r[j] # r[i]}
<1>1. F \in SUBSET (1..Len(s)) /\ Len(s) \in Nat
  OBVIOUS
<1> HIDE DEF F
<1>2. IsFiniteSet(1..Len(s))
  BY <1>1, FS_Interval
<1>3. IsFiniteSet(F)
  BY <1>1, <1>2, FS_Subset
<1>4. F \in SUBSET Nat
  BY <1>1
<1>5. PICK k \in InOrder(F) : TRUE
  BY <1>3, <1>4, OrderExists
<1> QED
  BY <1>5 DEF Rewritten, F

(* Of a key that is rewritten a list keeps the choice, of others what it had. *)
LEMMA LabelsAfter ==
  ASSUME LabelsChosen, NEW s \in Seq(Label), NEW t \in Rewritten(s)
  PROVE  /\ t \in Seq(Label) /\ NoRepeats(t)
         /\ \A l \in ToSet(t) : Key[l] \in DOMAIN canonical => l = canonical[Key[l]]
         /\ \A l \in ToSet(s) : Key[l] \in DOMAIN canonical => canonical[Key[l]] \in ToSet(t)
         /\ \A l \in Label : Key[l] \notin DOMAIN canonical => (l \in ToSet(t) <=> l \in ToSet(s))
         /\ \A l \in ToSet(t) : \E m \in ToSet(s) : Key[m] = Key[l]
<1>1. /\ t \in Seq(Label) /\ NoRepeats(t)
      /\ \A x : x \in ToSet(t) <=> \E y \in ToSet(s) : x = Replacement(y)
  BY RewrittenIs
<1>2. ToSet(s) \subseteq Label
  BY DEF ToSet
<1>3. \A y \in ToSet(s) : Replacement(y) \in Label /\ Key[Replacement(y)] = Key[y]
  BY <1>2, ReplacementKey
<1>4. \A y : Key[y] \in DOMAIN canonical => Replacement(y) = canonical[Key[y]]
  BY DEF Replacement
<1>5. \A y : Key[y] \notin DOMAIN canonical => Replacement(y) = y
  BY DEF Replacement
<1>6. \A l \in ToSet(t) : Key[l] \in DOMAIN canonical => l = canonical[Key[l]]
  BY <1>1, <1>3, <1>4
<1>7. \A l \in ToSet(s) : Key[l] \in DOMAIN canonical => canonical[Key[l]] \in ToSet(t)
  BY <1>1, <1>4
<1>8. \A l \in Label : Key[l] \notin DOMAIN canonical => (l \in ToSet(t) <=> l \in ToSet(s))
  BY <1>1, <1>3, <1>5
<1>9. \A l \in ToSet(t) : \E m \in ToSet(s) : Key[m] = Key[l]
  BY <1>1, <1>3
<1> QED
  BY <1>1, <1>6, <1>7, <1>8, <1>9

(* A rewrite of one list leaves the labels of other keys, and makes no other key noisy. *)
LEMMA KeysAfter ==
  ASSUME LabelsChosen, NEW c \in [Art -> Seq(Label)], NEW a \in Art, NEW t \in Rewritten(c[a]),
         NoisyKeys(c) \subseteq DOMAIN canonical
  PROVE  /\ [c EXCEPT ![a] = t] \in [Art -> Seq(Label)]
         /\ \A k : k \notin DOMAIN canonical => Variants([c EXCEPT ![a] = t], k) = Variants(c, k)
         /\ NoisyKeys([c EXCEPT ![a] = t]) \subseteq DOMAIN canonical
<1>1. PICK d : d = [c EXCEPT ![a] = t]
  OBVIOUS
<1>2. /\ t \in Seq(Label)
      /\ \A l \in Label : Key[l] \notin DOMAIN canonical => (l \in ToSet(t) <=> l \in ToSet(c[a]))
  BY LabelsAfter
<1>3. d \in [Art -> Seq(Label)] /\ d[a] = t /\ \A b \in Art : b # a => d[b] = c[b]
  BY <1>1, <1>2
<1>4. ASSUME NEW k, k \notin DOMAIN canonical PROVE Variants(d, k) = Variants(c, k)
  <2>1. \A l \in Label : Key[l] = k => \A b \in Art : l \in ToSet(d[b]) <=> l \in ToSet(c[b])
    BY <1>2, <1>3, <1>4
  <2> QED
    BY <2>1 DEF Variants
<1>5. NoisyKeys(d) \subseteq DOMAIN canonical
  BY <1>4 DEF NoisyKeys
<1> QED
  BY <1>1, <1>3, <1>4, <1>5

(* With every list rewritten no key is noisy. *)
LEMMA AllRewritten ==
  ASSUME NEW c \in [Art -> Seq(Label)], NoisyKeys(c) \subseteq DOMAIN canonical,
         \A a \in Art : \A l \in ToSet(c[a]) : Key[l] \in DOMAIN canonical => l = canonical[Key[l]]
  PROVE  NoisyKeys(c) = {}
<1> SUFFICES ASSUME NEW k \in NoisyKeys(c) PROVE FALSE
  OBVIOUS
<1>1. k \in DOMAIN canonical /\ Cardinality(Variants(c, k)) > 1
  BY DEF NoisyKeys
<1>2. Variants(c, k) \in SUBSET {canonical[k]}
  BY <1>1 DEF Variants
<1>3. IsFiniteSet({canonical[k]}) /\ Cardinality({canonical[k]}) = 1
  BY FS_Singleton
<1>4. Cardinality(Variants(c, k)) <= 1
  BY <1>2, <1>3, FS_Subset
<1>5. Cardinality(Variants(c, k)) \in Nat
  BY VariantsAreLabels
<1> QED
  BY <1>1, <1>4, <1>5

(* The first listing is one of label lists. *)
LEMMA LintInvInit == LintInit => LintInv
<1> SUFFICES ASSUME LintInit PROVE LintInv
  OBVIOUS
<1>1. PICK c \in [Art -> CategoryLists] : LintStart(c) /\ runs = 0
  BY DEF LintInit
<1>2. c \in [Art -> Seq(Label)]
  BY LabelsAssumption
<1>3. /\ cats = c /\ catIndex = c /\ pending = {} /\ rewrote = FALSE /\ lint = "idle" /\ failures = 0
      /\ outcome = "clean" /\ behind = FALSE /\ runs = 0
  BY <1>1 DEF LintStart
<1>4. LintTypes
  BY <1>2, <1>3 DEF LintTypes
<1>5. RewriteInv /\ CatIndexInv /\ RunIsComplete
  BY <1>3 DEF RewriteInv, CatIndexInv, RunIsComplete, NoVariantsLeft, IndexHasCategories
<1> QED
  BY <1>4, <1>5 DEF LintInv

(* A run that finds no variants is clean; if index.json was behind it still is. *)
LEMMA FindNoVariantsStep ==
  ASSUME LintInv, FindNoVariants
  PROVE  LintInv'
<1>1. /\ lint = "idle" /\ NoisyKeys(cats) = {} /\ runs' = runs + 1 /\ rewrote' = FALSE /\ outcome' = "clean"
      /\ cats' = cats /\ catIndex' = catIndex /\ pending' = pending /\ lint' = lint
      /\ behind' = behind /\ failures' = failures
  BY DEF FindNoVariants
<1>2. LintTypes /\ IndexHasCategories
  BY DEF LintInv, RunIsComplete
<1>3. NoisyKeys(cats)' = NoisyKeys(cats)
  BY <1>1
<1>4. runs' \in Nat \ {0}
  BY <1>1, <1>2 DEF LintTypes
<1>5. LintTypes'
  BY <1>1, <1>2, <1>4 DEF LintTypes
<1>6. RewriteInv' /\ CatIndexInv'
  BY <1>1, <1>4 DEF RewriteInv, CatIndexInv
<1>7. NoVariantsLeft'
  BY <1>1, <1>3 DEF NoVariantsLeft
<1>8. IndexHasCategories'
  BY <1>1, <1>2 DEF IndexHasCategories
<1> QED
  BY <1>5, <1>6, <1>7, <1>8 DEF LintInv, RunIsComplete

(* A run begins with what is on disk, and a label for each noisy key. *)
LEMMA BeginLintStep ==
  ASSUME LintInv, BeginLint
  PROVE  LintInv'
<1>1. /\ cats \in [Art -> Seq(Label)] /\ cats' = cats /\ copy' = cats /\ pending' = Art /\ rewrote' = FALSE
      /\ lint' = "rewrite" /\ lint = "idle" /\ runs' = runs + 1 /\ runs \in Nat /\ outcome' = "clean"
      /\ catIndex' = catIndex /\ behind' = behind /\ behind \in BOOLEAN
      /\ failures' = failures /\ failures \in Nat
      /\ canonical' = [k \in NoisyKeys(cats) |-> PickCanonical(cats, k)]
  BY DEF BeginLint, LintInv, LintTypes
<1>2. \A k \in NoisyKeys(cats) : PickCanonical(cats, k) \in Label /\ Key[PickCanonical(cats, k)] = k
  BY <1>1, PickedIsBest
<1>3. DOMAIN canonical' = NoisyKeys(cats)
  BY <1>1
<1>4. canonical' \in [NoisyKeys(cats) -> Label] /\ \A k \in NoisyKeys(cats) : Key[canonical'[k]] = k
  BY <1>1, <1>2
<1>a. /\ runs' \in Nat \ {0} /\ failures' \in Nat /\ lint' \in {"idle", "rewrite", "save"}
      /\ pending' \subseteq Art /\ outcome' \in {"clean", "failed"}
  BY <1>1
<1>b. rewrote' \in BOOLEAN /\ behind' \in BOOLEAN /\ cats' \in [Art -> Seq(Label)]
  BY <1>1
<1>5. LintTypes'
  BY <1>a, <1>b DEF LintTypes
<1>6. NoisyKeys(cats)' = NoisyKeys(cats)
  BY <1>1 DEF NoisyKeys, Variants
<1>7. RewriteInv'
  BY <1>1, <1>3, <1>4, <1>6 DEF RewriteInv
<1>8. ~behind => catIndex = cats
  BY <1>1 DEF LintInv, RunIsComplete, IndexHasCategories
<1>9. CatIndexInv'
  BY <1>1, <1>a, <1>8 DEF CatIndexInv
<1>10. RunIsComplete'
  BY <1>1 DEF RunIsComplete, NoVariantsLeft, IndexHasCategories
<1> QED
  BY <1>5, <1>7, <1>9, <1>10 DEF LintInv

(* An article is rewritten in the listing, and on disk if the save succeeds. *)
LEMMA RewriteStep ==
  ASSUME LintInv, NEW a \in Art, Rewrite(a)
  PROVE  LintInv'
<1>1. /\ lint = "rewrite" /\ a \in pending /\ pending' = pending \ {a} /\ pending \subseteq Art
      /\ canonical' = canonical /\ lint' = lint /\ runs' = runs /\ behind' = behind /\ catIndex' = catIndex
      /\ cats \in [Art -> Seq(Label)] /\ failures \in Nat /\ runs \in Nat /\ rewrote \in BOOLEAN
      /\ behind \in BOOLEAN /\ outcome \in {"clean", "failed"}
  BY DEF Rewrite, LintInv, LintTypes
<1>2. /\ copy \in [Art -> Seq(Label)] /\ canonical \in [DOMAIN canonical -> Label]
      /\ \A k \in DOMAIN canonical : Key[canonical[k]] = k
      /\ \A b \in Art : b \in pending \/ outcome = "clean" => copy[b] = cats[b]
      /\ \A b \in Art \ pending : \A l \in ToSet(copy[b]) :
            Key[l] \in DOMAIN canonical => l = canonical[Key[l]]
      /\ NoisyKeys(cats) \subseteq DOMAIN canonical
  BY <1>1 DEF LintInv, RewriteInv
<1>3. LabelsChosen
  BY <1>2 DEF LabelsChosen
<1>4. PICK s \in Rewritten(copy[a]) :
          \/ s = copy[a] /\ UNCHANGED <<cats, copy, rewrote, outcome, failures>>
          \/ /\ s # copy[a] /\ copy' = [copy EXCEPT ![a] = s]
             /\ \/ cats' = [cats EXCEPT ![a] = s] /\ rewrote' = TRUE /\ UNCHANGED <<outcome, failures>>
                \/ /\ failures < MaxFailures /\ failures' = failures + 1
                   /\ outcome' = "failed" /\ UNCHANGED <<cats, rewrote>>
  BY DEF Rewrite
<1>5. copy[a] = cats[a] /\ copy[a] \in Seq(Label)
  BY <1>1, <1>2
<1>6. s \in Seq(Label) /\ \A l \in ToSet(s) : Key[l] \in DOMAIN canonical => l = canonical[Key[l]]
  BY <1>3, <1>5, LabelsAfter
<1>7. copy' = [copy EXCEPT ![a] = s]
  BY <1>2, <1>4
<1>8. copy' \in [Art -> Seq(Label)] /\ copy'[a] = s /\ \A b \in Art : b # a => copy'[b] = copy[b]
  BY <1>2, <1>6, <1>7
<1>9. \A b \in Art \ pending' : \A l \in ToSet(copy'[b]) : Key[l] \in DOMAIN canonical' => l = canonical'[Key[l]]
  BY <1>1, <1>2, <1>6, <1>8
<1>10. RunIsComplete'
  BY <1>1 DEF RunIsComplete, NoVariantsLeft, IndexHasCategories
<1>r. runs # 0
  BY <1>1 DEF LintInv, CatIndexInv
<1>11. CASE cats' = [cats EXCEPT ![a] = s] /\ rewrote' = TRUE /\ outcome' = outcome /\ failures' = failures
  <2>1. s \in Rewritten(cats[a])
    BY <1>4, <1>5
  <2>2. /\ cats' \in [Art -> Seq(Label)]
        /\ NoisyKeys(cats') \subseteq DOMAIN canonical
    BY <1>1, <1>2, <1>3, <1>11, <2>1, KeysAfter
  <2>3. \A b \in Art : b # a => cats'[b] = cats[b]
    BY <1>1, <1>11
  <2>4. cats'[a] = s
    BY <1>1, <1>11
  <2>5. \A b \in Art : b \in pending' \/ outcome' = "clean" => copy'[b] = cats'[b]
    BY <1>1, <1>2, <1>8, <1>11, <2>3, <2>4
  <2>6. LintTypes'
    BY <1>1, <1>11, <2>2 DEF LintTypes
  <2>7. NoisyKeys(cats)' = NoisyKeys(cats')
    BY DEF NoisyKeys, Variants
  <2>8. RewriteInv'
    BY <1>1, <1>2, <1>8, <1>9, <2>2, <2>5, <2>7 DEF RewriteInv
  <2>9. CatIndexInv'
    BY <1>1, <1>r, <1>11 DEF CatIndexInv
  <2> QED
    BY <1>10, <2>6, <2>8, <2>9 DEF LintInv
<1>12. CASE /\ cats' = cats /\ rewrote' = rewrote /\ failures' \in Nat
            /\ (outcome' = outcome /\ s = copy[a]) \/ outcome' = "failed"
  <2>1. \A b \in Art : b \in pending' \/ outcome' = "clean" => copy'[b] = cats'[b]
    BY <1>1, <1>2, <1>8, <1>12
  <2>2. LintTypes'
    BY <1>1, <1>12 DEF LintTypes
  <2>3. NoisyKeys(cats)' = NoisyKeys(cats)
    BY <1>12
  <2>4. RewriteInv'
    BY <1>1, <1>2, <1>8, <1>9, <2>1, <2>3 DEF RewriteInv
  <2>5. ~rewrote /\ ~behind => catIndex = cats
    BY <1>1 DEF LintInv, CatIndexInv
  <2>6. CatIndexInv'
    BY <1>1, <1>r, <1>12, <2>5 DEF CatIndexInv
  <2> QED
    BY <1>10, <2>2, <2>4, <2>6 DEF LintInv
<1>13. \/ cats' = [cats EXCEPT ![a] = s] /\ rewrote' = TRUE /\ outcome' = outcome /\ failures' = failures
       \/ /\ cats' = cats /\ rewrote' = rewrote /\ failures' \in Nat
          /\ (outcome' = outcome /\ s = copy[a]) \/ outcome' = "failed"
  BY <1>1, <1>4
<1> QED
  BY <1>11, <1>12, <1>13

(* A run that could save every article it changed has rewritten every list; *)
(* if it has changed none, index.json is what it was.                       *)
LEMMA ListAgainStep ==
  ASSUME LintInv, ListAgain
  PROVE  LintInv'
<1>1. /\ lint = "rewrite" /\ pending = {} /\ lint' = (IF rewrote THEN "save" ELSE "idle")
      /\ copy' = (IF rewrote THEN cats ELSE copy)
      /\ cats' = cats /\ catIndex' = catIndex /\ pending' = pending /\ rewrote' = rewrote
      /\ runs' = runs /\ failures' = failures /\ outcome' = outcome /\ behind' = behind
  BY DEF ListAgain
<1>2. LintTypes /\ RewriteInv /\ CatIndexInv
  BY DEF LintInv
<1>3. ASSUME outcome = "clean" PROVE NoisyKeys(cats) = {}
  <2>1. /\ NoisyKeys(cats) \subseteq DOMAIN canonical /\ cats \in [Art -> Seq(Label)]
        /\ \A a \in Art : \A l \in ToSet(cats[a]) : Key[l] \in DOMAIN canonical => l = canonical[Key[l]]
    BY <1>1, <1>2, <1>3 DEF RewriteInv, LintTypes
  <2> QED
    BY <2>1, AllRewritten
<1>4. NoisyKeys(cats)' = NoisyKeys(cats)
  BY <1>1
<1>5. LintTypes'
  BY <1>1, <1>2 DEF LintTypes
<1>6. RewriteInv'
  BY <1>1 DEF RewriteInv
<1>7. CatIndexInv'
  BY <1>1, <1>2, <1>3, <1>4 DEF CatIndexInv
<1>8. NoVariantsLeft'
  BY <1>1, <1>3, <1>4 DEF NoVariantsLeft
<1>9. IndexHasCategories'
  BY <1>1, <1>2 DEF IndexHasCategories, CatIndexInv
<1> QED
  BY <1>5, <1>6, <1>7, <1>8, <1>9 DEF LintInv, RunIsComplete

(* The index is built from what was listed, which is what is on disk. *)
LEMMA SaveCategoriesStep ==
  ASSUME LintInv, SaveCategories
  PROVE  LintInv'
<1>1. /\ lint = "save" /\ lint' = "idle" /\ catIndex' = copy /\ behind' = FALSE
      /\ cats' = cats /\ copy' = copy /\ pending' = pending /\ rewrote' = rewrote
      /\ runs' = runs /\ failures' = failures /\ outcome' = outcome
  BY DEF SaveCategories
<1>2. LintTypes /\ CatIndexInv
  BY DEF LintInv
<1>3. NoisyKeys(cats)' = NoisyKeys(cats)
  BY <1>1
<1>4. LintTypes'
  BY <1>1, <1>2 DEF LintTypes
<1>5. RewriteInv'
  BY <1>1 DEF RewriteInv
<1>6. CatIndexInv'
  BY <1>1, <1>2 DEF CatIndexInv
<1>7. RunIsComplete'
  BY <1>1, <1>2, <1>3 DEF RunIsComplete, NoVariantsLeft, IndexHasCategories, CatIndexInv
<1> QED
  BY <1>4, <1>5, <1>6, <1>7 DEF LintInv

(* A run that cannot save index.json leaves it behind, and says so. *)
LEMMA IndexFailsStep ==
  ASSUME LintInv, IndexFails
  PROVE  LintInv'
<1>1. /\ lint = "save" /\ lint' = "idle" /\ outcome' = "noIndex" /\ behind' = TRUE
      /\ cats' = cats /\ catIndex' = catIndex /\ copy' = copy /\ pending' = pending /\ rewrote' = rewrote
      /\ runs' = runs /\ failures' = failures + 1
  BY DEF IndexFails
<1>2. LintTypes /\ CatIndexInv
  BY DEF LintInv
<1>3. LintTypes'
  BY <1>1, <1>2 DEF LintTypes
<1> QED
  BY <1>1, <1>2, <1>3 DEF LintInv, RewriteInv, CatIndexInv, RunIsComplete, NoVariantsLeft, IndexHasCategories

(* A run that dies leaves index.json behind if it has saved an article. *)
LEMMA LintDiesStep ==
  ASSUME LintInv, LintDies
  PROVE  LintInv'
<1>1. /\ lint # "idle" /\ lint' = "idle" /\ outcome' = "died" /\ behind' = (behind \/ rewrote)
      /\ cats' = cats /\ catIndex' = catIndex /\ copy' = copy /\ pending' = pending /\ rewrote' = rewrote
      /\ runs' = runs /\ failures' = failures
  BY DEF LintDies
<1>2. LintTypes /\ CatIndexInv
  BY DEF LintInv
<1>3. LintTypes'
  BY <1>1, <1>2 DEF LintTypes
<1>4. lint = "rewrite" \/ (lint = "save" /\ rewrote)
  BY <1>1, <1>2 DEF LintTypes, CatIndexInv
<1>5. ~behind' => catIndex' = cats'
  BY <1>1, <1>2, <1>4 DEF CatIndexInv
<1>6. RewriteInv' /\ CatIndexInv'
  BY <1>1, <1>2 DEF RewriteInv, CatIndexInv
<1>7. RunIsComplete'
  BY <1>1, <1>5 DEF RunIsComplete, NoVariantsLeft, IndexHasCategories
<1> QED
  BY <1>3, <1>6, <1>7 DEF LintInv

(* No step of the command breaks the invariant. *)
LEMMA LintInvStep == LintInv /\ [LintNext]_lintVars => LintInv'
<1> SUFFICES ASSUME LintInv, [LintNext]_lintVars PROVE LintInv'
  OBVIOUS
<1>1. CASE FindNoVariants
  BY <1>1, FindNoVariantsStep
<1>2. CASE BeginLint
  BY <1>2, BeginLintStep
<1>3. CASE ListAgain
  BY <1>3, ListAgainStep
<1>4. CASE SaveCategories
  BY <1>4, SaveCategoriesStep
<1>5. CASE IndexFails
  BY <1>5, IndexFailsStep
<1>6. CASE LintDies
  BY <1>6, LintDiesStep
<1>7. ASSUME NEW a \in Art, Rewrite(a) PROVE LintInv'
  BY <1>7, RewriteStep
<1>8. CASE UNCHANGED lintVars
  <2>1. /\ cats' = cats /\ catIndex' = catIndex /\ copy' = copy /\ canonical' = canonical /\ pending' = pending
        /\ rewrote' = rewrote /\ lint' = lint /\ runs' = runs /\ failures' = failures
        /\ outcome' = outcome /\ behind' = behind
    BY <1>8 DEF lintVars
  <2>2. NoisyKeys(cats)' = NoisyKeys(cats)
    BY <2>1
  <2>3. LintTypes'
    BY <2>1 DEF LintInv, LintTypes
  <2>4. RewriteInv'
    BY <2>1, <2>2 DEF LintInv, RewriteInv
  <2>5. CatIndexInv'
    BY <2>1, <2>2 DEF LintInv, CatIndexInv
  <2>6. RunIsComplete'
    BY <2>1, <2>2 DEF LintInv, RunIsComplete, NoVariantsLeft, IndexHasCategories
  <2> QED
    BY <2>3, <2>4, <2>5, <2>6 DEF LintInv
<1> QED
  BY <1>1, <1>2, <1>3, <1>4, <1>5, <1>6, <1>7, <1>8 DEF LintNext

(* kb lint --normalize-categories --apply: a run that neither failed nor   *)
(* died itself leaves no label in two forms, whatever runs failed or died  *)
(* before it; one that saved an article and ended in order leaves          *)
(* index.json with the categories of all articles, and one that saved none *)
(* does not put it behind (runCategoryNormalize, ApplyCanonical).          *)
THEOREM LintCompletes == LintInit /\ [][LintNext]_lintVars => []RunIsComplete
<1>1. LintInv => RunIsComplete
  BY DEF LintInv
<1> QED
  BY <1>1, LintInvInit, LintInvStep, PTL

(* What the first run settles on, and every run that goes on agrees with. *)
AgreeInv == LintInv /\ PromiseInv /\ RerunAgrees

(* A rewrite leaves a choice of the first run the best label of its key:   *)
(* articles come to use it, and none comes to use another.                 *)
LEMMA BestStays ==
  ASSUME LabelsChosen, NEW c \in [Art -> Seq(Label)], \A b \in Art : NoRepeats(c[b]),
         NEW a \in Art, NEW t \in Rewritten(c[a]), NoisyKeys(c) \subseteq DOMAIN canonical,
         NEW k, NEW l, Best(c, k, l), k \in DOMAIN canonical => canonical[k] = l
  PROVE  Best([c EXCEPT ![a] = t], k, l)
<1>1. PICK e : e = [c EXCEPT ![a] = t]
  OBVIOUS
<1>2. /\ t \in Seq(Label) /\ NoRepeats(t)
      /\ \A m \in ToSet(t) : Key[m] \in DOMAIN canonical => m = canonical[Key[m]]
      /\ \A m \in ToSet(c[a]) : Key[m] \in DOMAIN canonical => canonical[Key[m]] \in ToSet(t)
      /\ \A m \in Label : Key[m] \notin DOMAIN canonical => (m \in ToSet(t) <=> m \in ToSet(c[a]))
  BY LabelsAfter
<1>3. e \in [Art -> Seq(Label)] /\ e[a] = t /\ \A b \in Art : b # a => e[b] = c[b]
  BY <1>1, <1>2
<1>4. \A b \in Art : NoRepeats(e[b])
  BY <1>2, <1>3
<1>5. l \in Label /\ Key[l] = k /\ \E b \in Art : l \in ToSet(c[b])
  BY DEF Best, Variants
<1>6. Users(c, l) \subseteq Users(e, l)
  <2>1. l \in ToSet(c[a]) => l \in ToSet(t)
    BY <1>2, <1>5
  <2> QED
    BY <1>3, <2>1 DEF Users
<1>7. l \in Variants(e, k)
  <2>1. PICK b \in Art : l \in ToSet(c[b])
    BY <1>5
  <2>2. b \in Users(e, l)
    BY <1>6, <2>1 DEF Users
  <2> QED
    BY <1>5, <2>2 DEF Users, Variants
<1>8. ASSUME NEW m \in Variants(e, k), m # l
      PROVE  Users(e, m) \subseteq Users(c, m) /\ m \in Variants(c, k)
  <2>1. m \in Label /\ Key[m] = k /\ \E b \in Art : m \in ToSet(e[b])
    BY DEF Variants
  <2>2. m \in ToSet(t) => m \in ToSet(c[a])
    BY <1>2, <1>8, <2>1
  <2>3. Users(e, m) \subseteq Users(c, m)
    BY <1>3, <2>2 DEF Users
  <2>4. PICK b \in Art : m \in ToSet(e[b])
    BY <2>1
  <2>5. b \in Users(c, m)
    BY <2>3, <2>4 DEF Users
  <2> QED
    BY <2>1, <2>3, <2>5 DEF Users, Variants
<1>9. \A m : /\ IsFiniteSet(Users(c, m)) /\ Cardinality(Users(c, m)) \in Nat
             /\ Uses(c, m) = Cardinality(Users(c, m))
             /\ IsFiniteSet(Users(e, m)) /\ Cardinality(Users(e, m)) \in Nat
             /\ Uses(e, m) = Cardinality(Users(e, m))
  BY <1>3, <1>4, UsesAreUsers
<1>10. Uses(c, l) <= Uses(e, l)
  BY <1>6, <1>9, FS_Subset
<1>11. ASSUME NEW m \in Variants(e, k)
       PROVE  Uses(e, l) > Uses(e, m) \/ (Uses(e, l) = Uses(e, m) /\ l <= m)
  <2>1. CASE m = l
    BY <1>5, <1>9, <2>1, LabelsAssumption
  <2>2. CASE m # l
    <3>1. m \in Variants(c, k) /\ Users(e, m) \subseteq Users(c, m)
      BY <1>8, <2>2
    <3>2. Uses(e, m) <= Uses(c, m)
      BY <1>9, <3>1, FS_Subset
    <3>3. Uses(c, l) > Uses(c, m) \/ (Uses(c, l) = Uses(c, m) /\ l <= m)
      BY <3>1 DEF Best
    <3>4. Uses(c, l) \in Nat /\ Uses(c, m) \in Nat /\ Uses(e, l) \in Nat /\ Uses(e, m) \in Nat
      BY <1>9
    <3> QED
      BY <1>10, <3>2, <3>3, <3>4
  <2> QED
    BY <2>1, <2>2
<1>12. Best(e, k, l)
  BY <1>7, <1>11 DEF Best
<1> QED
  BY <1>1, <1>12

(* Nothing is promised before the first run. *)
LEMMA AgreeInvInit ==
  ASSUME \A s \in CategoryLists : NoRepeats(s), LintInit
  PROVE  AgreeInv
<1>1. PICK c \in [Art -> CategoryLists] : LintStart(c) /\ runs = 0
  BY DEF LintInit
<1>2. cats = c /\ promised = Nothing /\ lint = "idle"
  BY <1>1 DEF LintStart
<1>3. DOMAIN promised = {}
  BY <1>2 DEF Nothing
<1>4. PromiseInv
  BY <1>2, <1>3 DEF PromiseInv
<1> QED
  BY <1>2, <1>4, LintInvInit DEF AgreeInv, RerunAgrees

(* A run that begins chooses the best labels: those of the first run, where it has chosen. *)
LEMMA AgreeBegins ==
  ASSUME AgreeInv, BeginLint
  PROVE  PromiseInv' /\ RerunAgrees'
<1>1. /\ cats \in [Art -> Seq(Label)] /\ cats' = cats /\ runs' = runs + 1 /\ runs \in Nat
      /\ promised' = (IF runs = 0 THEN canonical' ELSE promised)
      /\ canonical' = [k \in NoisyKeys(cats) |-> PickCanonical(cats, k)]
  BY DEF BeginLint, AgreeInv, LintInv, LintTypes
<1>2. DOMAIN canonical' = NoisyKeys(cats) /\ \A k \in NoisyKeys(cats) : canonical'[k] = PickCanonical(cats, k)
  BY <1>1
<1>3. \A k \in DOMAIN canonical' : Best(cats, k, canonical'[k])
  BY <1>1, <1>2, PickedIsBest
<1>4. PromiseInv
  BY DEF AgreeInv
<1>5. \A k \in DOMAIN promised' : Best(cats, k, promised'[k])
  BY <1>1, <1>3, <1>4 DEF PromiseInv
<1>6. \A k \in DOMAIN promised' : Best(cats', k, promised'[k])
  BY <1>1, <1>5
<1>7. \A a \in Art : NoRepeats(cats'[a])
  BY <1>1, <1>4 DEF PromiseInv
<1>a. runs' # 0
  BY <1>1
<1>8. PromiseInv'
  BY <1>a, <1>6, <1>7 DEF PromiseInv
<1>9. ASSUME NEW k \in DOMAIN canonical' \cap DOMAIN promised' PROVE canonical'[k] = promised'[k]
  <2>1. Best(cats, k, canonical'[k]) /\ Best(cats, k, promised'[k])
    BY <1>3, <1>5, <1>9
  <2> QED
    BY <1>1, <2>1, BestIsOne
<1>10. RerunAgrees'
  BY <1>9 DEF RerunAgrees
<1> QED
  BY <1>8, <1>10

(* A rewrite keeps the choices, whether it is saved or not. *)
LEMMA AgreeRewrites ==
  ASSUME AgreeInv, NEW a \in Art, Rewrite(a)
  PROVE  PromiseInv' /\ RerunAgrees'
<1>1. /\ lint = "rewrite" /\ a \in pending /\ lint' = lint /\ canonical' = canonical /\ promised' = promised
      /\ runs' = runs /\ cats \in [Art -> Seq(Label)]
  BY DEF Rewrite, AgreeInv, LintInv, LintTypes
<1>2. /\ canonical \in [DOMAIN canonical -> Label] /\ \A k \in DOMAIN canonical : Key[canonical[k]] = k
      /\ copy[a] = cats[a] /\ NoisyKeys(cats) \subseteq DOMAIN canonical
  BY <1>1 DEF AgreeInv, LintInv, RewriteInv
<1>3. LabelsChosen
  BY <1>2 DEF LabelsChosen
<1>4. PICK s \in Rewritten(cats[a]) : cats' = cats \/ cats' = [cats EXCEPT ![a] = s]
  BY <1>2 DEF Rewrite
<1>5. s \in Seq(Label) /\ NoRepeats(s)
  BY <1>1, <1>3, <1>4, LabelsAfter
<1>6. PromiseInv /\ \A k \in DOMAIN canonical \cap DOMAIN promised : canonical[k] = promised[k]
  BY <1>1 DEF AgreeInv, RerunAgrees
<1>7. \A b \in Art : NoRepeats(cats[b])
  BY <1>6 DEF PromiseInv
<1>8. \A b \in Art : NoRepeats(cats'[b])
  BY <1>1, <1>4, <1>5, <1>7
<1>9. \A k \in DOMAIN promised : Best(cats', k, promised[k])
  <2> SUFFICES ASSUME NEW k \in DOMAIN promised PROVE Best(cats', k, promised[k])
    OBVIOUS
  <2>1. Best(cats, k, promised[k])
    BY <1>6 DEF PromiseInv
  <2>2. CASE cats' = cats
    BY <2>1, <2>2
  <2>3. CASE cats' = [cats EXCEPT ![a] = s]
    <3>1. k \in DOMAIN canonical => canonical[k] = promised[k]
      BY <1>6
    <3>2. Best([cats EXCEPT ![a] = s], k, promised[k])
      BY <1>1, <1>2, <1>3, <1>4, <1>7, <2>1, <3>1, BestStays
    <3> QED
      BY <2>3, <3>2
  <2> QED
    BY <1>4, <2>2, <2>3
<1>10. runs' = 0 => DOMAIN promised' = {}
  BY <1>1, <1>6 DEF PromiseInv
<1>11. \A k \in DOMAIN promised' : Best(cats', k, promised'[k])
  BY <1>1, <1>9
<1>12. PromiseInv'
  BY <1>8, <1>10, <1>11 DEF PromiseInv
<1>13. RerunAgrees'
  BY <1>1, <1>6 DEF RerunAgrees
<1> QED
  BY <1>12, <1>13

(* No step of the command breaks it. *)
LEMMA AgreeInvStep == AgreeInv /\ [LintNext]_lintVars => AgreeInv'
<1> SUFFICES ASSUME AgreeInv, [LintNext]_lintVars PROVE AgreeInv'
  OBVIOUS
<1>1. LintInv'
  BY LintInvStep DEF AgreeInv
<1>2. CASE BeginLint
  BY <1>1, <1>2, AgreeBegins DEF AgreeInv
<1>3. ASSUME NEW a \in Art, Rewrite(a) PROVE AgreeInv'
  BY <1>1, <1>3, AgreeRewrites DEF AgreeInv
<1>4. CASE FindNoVariants \/ ListAgain \/ SaveCategories \/ IndexFails \/ LintDies \/ UNCHANGED lintVars
  <2>a. runs \in Nat
    BY DEF AgreeInv, LintInv, LintTypes
  <2>1. /\ cats' = cats /\ canonical' = canonical /\ promised' = promised /\ (runs' = 0 => runs = 0)
        /\ lint' = "rewrite" => lint = "rewrite"
    BY <1>4, <2>a DEF FindNoVariants, ListAgain, SaveCategories, IndexFails, LintDies, lintVars
  <2>2. PromiseInv /\ RerunAgrees
    BY DEF AgreeInv
  <2>3. PromiseInv'
    BY <2>1, <2>2 DEF PromiseInv
  <2>4. RerunAgrees'
    BY <2>1, <2>2 DEF RerunAgrees
  <2> QED
    BY <1>1, <2>3, <2>4 DEF AgreeInv
<1> QED
  BY <1>2, <1>3, <1>4 DEF LintNext

(* A run that repeats one that died, or that missed some articles, settles *)
(* each key it has still to rewrite on the same label, if no article has a *)
(* label twice (PickCanonical, over what buildRewriteMap left behind).     *)
THEOREM RerunsAgree ==
  ASSUME \A s \in CategoryLists : NoRepeats(s)
  PROVE  LintInit /\ [][LintNext]_lintVars => []RerunAgrees
<1>1. LintInit => AgreeInv
  BY AgreeInvInit
<1>2. AgreeInv => RerunAgrees
  BY DEF AgreeInv
<1> QED
  BY <1>1, <1>2, AgreeInvStep, PTL
=============================================================================
