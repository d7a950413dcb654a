-------------------------- MODULE Workbench_proofs --------------------------
(***************************************************************************)
(* Machine-checked proofs about the parts of Workbench, for any number of  *)
(* writers, files, rules, checks and figures.                              *)
(***************************************************************************)
EXTENDS WorkbenchInv, Evidence_proofs

-----------------------------------------------------------------------------
(* Orders on a finite set *)

\* A strict order on X, and one that compares any two of its members.
Strict(rel, X) ==
  /\ \A x \in X : <<x, x>> \notin rel
  /\ \A x, y, z \in X : <<x, y>> \in rel /\ <<y, z>> \in rel => <<x, z>> \in rel
Linear(rel, X) == Strict(rel, X) /\ \A x, y \in X : x = y \/ <<x, y>> \in rel \/ <<y, x>> \in rel

\* A member that comes before no other.
LEMMA LastExists ==
  ASSUME NEW X, IsFiniteSet(X), X # {}, NEW rel, Strict(rel, X)
  PROVE  \E last \in X : \A x \in X : <<last, x>> \notin rel
<1> DEFINE HasLast(s) == \E last \in s : \A x \in s : <<last, x>> \notin rel
           Bad == {n \in Nat : \E s \in SUBSET X : s # {} /\ Cardinality(s) = n /\ ~HasLast(s)}
<1>1. Bad = {}
  <2> SUFFICES ASSUME Bad # {} PROVE FALSE
    OBVIOUS
  <2>1. PICK n \in Bad : \A m \in Bad : n <= m
    BY LeastOf
  <2>2. PICK s \in SUBSET X : s # {} /\ Cardinality(s) = n /\ ~HasLast(s)
    BY <2>1
  <2>3. PICK x \in s : TRUE
    BY <2>2
  <2> DEFINE rest == s \ {x}
  <2>4. IsFiniteSet(s) /\ n \in Nat
    BY <2>1, <2>2, FS_Subset
  <2>5. Cardinality(rest) = n - 1 /\ n - 1 \in Nat
    <3>1. IsFiniteSet(rest) /\ Cardinality(rest) = Cardinality(s) - 1
      BY <2>3, <2>4, FS_RemoveElement
    <3>2. Cardinality(rest) \in Nat
      BY <3>1, FS_CardinalityType
    <3>3. QED
      BY <2>2, <3>1, <3>2
  <2>6. rest # {}
    <3>1. SUFFICES ASSUME rest = {} PROVE HasLast(s)
      BY <2>2
    <3>2. s = {x}
      BY <2>3, <3>1
    <3>3. QED
      BY <2>2, <3>2 DEF Strict
  <2>7. HasLast(rest)
    <3>1. n - 1 \notin Bad
      BY <2>1, <2>4, <2>5
    <3>2. QED
      BY <2>5, <2>6, <3>1
  <2>8. PICK last \in rest : \A y \in rest : <<last, y>> \notin rel
    BY <2>7
  <2>9. CASE <<last, x>> \in rel
    <3>1. \A y \in s : <<x, y>> \notin rel
      BY <2>2, <2>3, <2>8, <2>9 DEF Strict
    <3>2. QED
      BY <2>2, <2>3, <3>1
  <2>10. CASE <<last, x>> \notin rel
    BY <2>2, <2>8, <2>10
  <2>11. QED
    BY <2>9, <2>10
<1>2. Cardinality(X) \in Nat
  BY FS_CardinalityType
<1>3. QED
  BY <1>1, <1>2

\* All members in order.
LEMMA OrderExists ==
  ASSUME NEW X, IsFiniteSet(X), NEW rel, Linear(rel, X)
  PROVE  \E q \in [1..Cardinality(X) -> X] :
           \A i, j \in DOMAIN q : i < j => <<q[i], q[j]>> \in rel
<1> DEFINE Ordered(s) == \E q \in [1..Cardinality(s) -> s] :
                           \A i, j \in 1..Cardinality(s) : i < j => <<q[i], q[j]>> \in rel
           Bad == {n \in Nat : \E s \in SUBSET X : Cardinality(s) = n /\ ~Ordered(s)}
<1>1. Bad = {}
  <2> SUFFICES ASSUME Bad # {} PROVE FALSE
    OBVIOUS
  <2>1. PICK n \in Bad : \A m \in Bad : n <= m
    BY LeastOf
  <2>2. PICK s \in SUBSET X : Cardinality(s) = n /\ ~Ordered(s)
    BY <2>1
  <2>3. IsFiniteSet(s) /\ n \in Nat
    BY <2>1, <2>2, FS_Subset
  <2>4. s # {}
    <3>1. SUFFICES ASSUME s = {} PROVE Ordered(s)
      BY <2>2
    <3>2. Cardinality(s) = 0 /\ 1..0 = {}
      BY <3>1, FS_EmptySet
    <3>3. [i \in 1..Cardinality(s) |-> 0] \in [1..Cardinality(s) -> s]
      BY <3>2
    <3>4. QED
      BY <3>2, <3>3
  <2>5. Strict(rel, s) /\ \A x, y \in s : x = y \/ <<x, y>> \in rel \/ <<y, x>> \in rel
    BY <2>2 DEF Linear, Strict
  <2>6. PICK last \in s : \A x \in s : <<last, x>> \notin rel
    BY <2>3, <2>4, <2>5, LastExists
  <2> DEFINE rest == s \ {last}
  <2>7. Cardinality(rest) = n - 1 /\ n - 1 \in Nat
    <3>1. IsFiniteSet(rest) /\ Cardinality(rest) = Cardinality(s) - 1
      BY <2>3, <2>6, FS_RemoveElement
    <3>2. Cardinality(rest) \in Nat
      BY <3>1, FS_CardinalityType
    <3>3. QED
      BY <2>2, <3>1, <3>2
  <2>8. Ordered(rest)
    <3>1. n - 1 \notin Bad
      BY <2>1, <2>3, <2>7
    <3>2. QED
      BY <2>7, <3>1
  <2>9. PICK q \in [1..(n - 1) -> rest] : \A i, j \in 1..(n - 1) : i < j => <<q[i], q[j]>> \in rel
    BY <2>7, <2>8
  <2> DEFINE longer == [i \in 1..n |-> IF i = n THEN last ELSE q[i]]
  <2>10. \A i \in 1..n : i # n => i \in 1..(n - 1)
    BY <2>3
  <2>11. longer \in [1..n -> s]
    BY <2>6, <2>9, <2>10
  <2>12. \A i, j \in 1..n : i < j => <<longer[i], longer[j]>> \in rel
    <3> SUFFICES ASSUME NEW i \in 1..n, NEW j \in 1..n, i < j
                 PROVE  <<longer[i], longer[j]>> \in rel
      OBVIOUS
    <3>1. i # n /\ i \in 1..(n - 1)
      BY <2>3, <2>10
    <3>2. longer[i] = q[i] /\ q[i] \in rest
      BY <2>9, <3>1
    <3>3. CASE j = n
      <4>1. longer[j] = last
        BY <3>3
      <4>2. QED
        BY <2>5, <2>6, <3>2, <4>1
    <3>4. CASE j # n
      <4>1. j \in 1..(n - 1) /\ longer[j] = q[j]
        BY <2>10, <3>4
      <4>2. QED
        BY <2>9, <3>1, <3>2, <4>1
    <3>5. QED
      BY <3>3, <3>4
  <2>13. QED
    BY <2>2, <2>11, <2>12
<1>2. Cardinality(X) \in Nat
  BY FS_CardinalityType
<1>3. Ordered(X)
  BY <1>1, <1>2
<1>4. QED
  BY <1>3

-----------------------------------------------------------------------------
(* The decision journal *)

LEMMA Finite == ASSUME NEW X \in SUBSET Writers
                PROVE  IsFiniteSet(X) /\ Cardinality(X) \in Nat
BY WritersAssumption, FS_Subset, FS_CardinalityType

LEMMA SameCardinality == \A X : J!Cardinality(X) = Cardinality(X)
BY DEF Cardinality, J!Cardinality

LEMMA OpenEndsType == OpenEnds \in {0, 1}
BY DEF OpenEnds

LEMMA IntactAre == J!Intact = {lines[i][1] : i \in {j \in DOMAIN lines : Len(lines[j]) = 1 /\ lines[j][1] # "torn"}}
BY DEF J!Intact, J!Parses

\* A line appended to an ended file.
LEMMA WholeLine ==
  ASSUME JournalTypeOK, NEW w \in Writers, lines' = Append(lines, <<w>>)
  PROVE  /\ J!Intact' = J!Intact \cup {w}
         /\ Len(lines') = Len(lines) + 1
         /\ (\A i \in DOMAIN lines : J!Parses(lines[i])) => (\A i \in DOMAIN lines : J!Parses(lines[i]))'
<1> DEFINE n == Len(lines) + 1
           Good(j) == Len(lines[j]) = 1 /\ lines[j][1] # "torn"
           After(j) == Len(lines'[j]) = 1 /\ lines'[j][1] # "torn"
<1>1. /\ DOMAIN lines = 1..Len(lines) /\ DOMAIN lines' = 1..n /\ Len(lines) \in Nat
      /\ \A i \in DOMAIN lines : lines'[i] = lines[i]
      /\ lines'[n] = <<w>> /\ Len(lines') = n
  <2>1. <<w>> \in Line
    BY DEF Line
  <2>2. QED
    BY <2>1 DEF JournalTypeOK
<1>2. \A i \in DOMAIN lines : After(i) <=> Good(i)
  BY <1>1
<1>3. After(n) /\ lines'[n][1] = w
  BY <1>1, WritersAssumption
<1>4. DOMAIN lines' = DOMAIN lines \cup {n}
  BY <1>1
<1> HIDE DEF n
<1>5. {j \in DOMAIN lines' : After(j)} = {j \in DOMAIN lines : Good(j)} \cup {n}
  BY <1>2, <1>3, <1>4
<1>6. \A j \in DOMAIN lines : lines'[j][1] = lines[j][1]
  BY <1>1
<1>7. {lines'[i][1] : i \in {j \in DOMAIN lines' : After(j)}}
        = {lines[i][1] : i \in {j \in DOMAIN lines : Good(j)}} \cup {w}
  BY <1>3, <1>5, <1>6
<1>8. J!Intact' = J!Intact \cup {w}
  BY <1>7 DEF J!Intact, J!Parses
<1>9. QED
  BY <1>1, <1>2, <1>3, <1>4, <1>8 DEF J!Parses, n

\* A line that goes on from a torn begin.
LEMMA GluedLine ==
  ASSUME JournalTypeOK, open # <<>>, NEW w \in Writers,
         lines' = Append(lines, Append(open, w))
  PROVE  J!Intact' = J!Intact
<1> DEFINE n == Len(lines) + 1
           Good(j) == Len(lines[j]) = 1 /\ lines[j][1] # "torn"
           After(j) == Len(lines'[j]) = 1 /\ lines'[j][1] # "torn"
<1>1. Append(open, w) \in Line /\ Len(Append(open, w)) # 1
  <2>1. open \in Seq({"torn"}) /\ open \in Seq(Writers \cup {"torn"})
    BY DEF JournalTypeOK
  <2>2. Append(open, w) \in Seq(Writers \cup {"torn"}) /\ Len(open) \in Nat /\ Len(open) # 0
        /\ Len(Append(open, w)) = Len(open) + 1
    BY <2>1
  <2>3. QED
    BY <2>2 DEF Line
<1>2. /\ DOMAIN lines = 1..Len(lines) /\ DOMAIN lines' = 1..n /\ Len(lines) \in Nat
      /\ \A i \in DOMAIN lines : lines'[i] = lines[i]
      /\ lines'[n] = Append(open, w)
  BY <1>1 DEF JournalTypeOK
<1>3. \A i \in DOMAIN lines : After(i) <=> Good(i)
  BY <1>2
<1>4. ~After(n)
  BY <1>1, <1>2
<1>5. DOMAIN lines' = DOMAIN lines \cup {n}
  BY <1>2
<1> HIDE DEF n
<1>6. {j \in DOMAIN lines' : After(j)} = {j \in DOMAIN lines : Good(j)}
  BY <1>3, <1>4, <1>5
<1>7. \A j \in DOMAIN lines : lines'[j][1] = lines[j][1]
  BY <1>2
<1>8. {lines'[i][1] : i \in {j \in DOMAIN lines' : After(j)}}
        = {lines[i][1] : i \in {j \in DOMAIN lines : Good(j)}}
  BY <1>6, <1>7
<1>9. QED
  BY <1>8 DEF J!Intact, J!Parses

LEMMA JournalSets ==
  ASSUME JournalTypeOK, JournalOK
  PROVE  /\ IsFiniteSet(J!Intact) /\ Cardinality(J!Intact) \in Nat
         /\ IsFiniteSet(Again) /\ Cardinality(Again) \in Nat
         /\ IsFiniteSet(Recorded \ J!Intact) /\ Cardinality(Recorded \ J!Intact) \in Nat
         /\ Len(lines) \in Nat
<1>1. J!Intact \in SUBSET Writers /\ Again \in SUBSET Writers /\ Recorded \ J!Intact \in SUBSET Writers
  BY DEF JournalOK, Again, Recorded
<1>2. Len(lines) \in Nat
  BY DEF JournalTypeOK
<1>3. QED
  BY <1>1, <1>2, Finite

LEMMA JournalBegins == J!JournalInit => JournalInv
<1> SUFFICES ASSUME J!JournalInit PROVE JournalInv
  OBVIOUS
<1>1. JournalTypeOK
  BY DEF J!JournalInit, JournalTypeOK, RecorderStates
<1>2. J!Intact = {} /\ Recorded = {} /\ Again = {} /\ OpenEnds = 0 /\ Len(lines) = 0 /\ DOMAIN lines = {}
  BY DEF J!JournalInit, J!Intact, Recorded, Again, OpenEnds
<1>3. QED
  BY <1>1, <1>2, FS_EmptySet DEF JournalInv, JournalOK, J!JournalInit

LEMMA AppendStep ==
  ASSUME JournalInv, NEW w \in Writers, J!AppendRecord(w)
  PROVE  JournalInv'
<1> USE DEF JournalInv
<1>1. /\ recorder[w] = "built" /\ recorder' = [recorder EXCEPT ![w] = "written"]
      /\ lines' = Append(lines, Append(open, w)) /\ open' = <<>>
      /\ tears' = tears /\ failures' = failures
      /\ recorder' \in [Writers -> RecorderStates]
  BY DEF J!AppendRecord, JournalTypeOK, RecorderStates
<1>2. Recorded' = Recorded \cup {w} /\ w \notin Recorded /\ J!Intact \subseteq Writers
      /\ DecisionType[w] \in J!AllowedDecisionTypes
  BY <1>1 DEF Recorded, JournalTypeOK, JournalOK
<1>3. OpenEnds' = 0 /\ tears \in Nat /\ failures \in Nat
  BY <1>1 DEF OpenEnds, JournalTypeOK
<1>4. Append(open, w) \in Line
  <2>1. open \in Seq(Writers \cup {"torn"})
    BY DEF JournalTypeOK
  <2>2. Append(open, w) \in Seq(Writers \cup {"torn"}) /\ Len(Append(open, w)) # 0
    BY <2>1
  <2>3. \A s : Len(s) # 0 => s # <<>>
    OBVIOUS
  <2>4. QED
    BY <2>2, <2>3 DEF Line
<1>5. JournalTypeOK'
  BY <1>1, <1>4 DEF JournalTypeOK
<1>6. /\ IsFiniteSet(J!Intact) /\ Cardinality(J!Intact) \in Nat
      /\ IsFiniteSet(Again) /\ Cardinality(Again) \in Nat
      /\ IsFiniteSet(Recorded \ J!Intact) /\ Cardinality(Recorded \ J!Intact) \in Nat
      /\ Len(lines) \in Nat
  BY JournalSets
<1>7. ASSUME J!Intact' \subseteq J!Intact \cup {w}
      PROVE  /\ J!Intact' \subseteq Writers
             /\ \A v \in Writers :
                  IF DecisionType[v] \in J!AllowedDecisionTypes THEN recorder'[v] # "refused"
                  ELSE recorder'[v] \in {"idle", "refused"} /\ v \notin J!Intact'
  BY <1>1, <1>2, <1>7 DEF JournalOK, JournalTypeOK
<1>8. CASE open = <<>>
  <2>1. Append(open, w) = <<w>>
    BY <1>8
  <2>2. /\ J!Intact' = J!Intact \cup {w}
        /\ Len(lines') = Len(lines) + 1
        /\ (\A i \in DOMAIN lines : J!Parses(lines[i])) => (\A i \in DOMAIN lines : J!Parses(lines[i]))'
    BY <1>1, <2>1, WholeLine
  <2>3. Recorded' \ J!Intact' = Recorded \ J!Intact
    BY <1>2, <2>2
  <2>4. Cardinality(Recorded' \ J!Intact') + OpenEnds' <= tears'
    BY <1>1, <1>3, <1>6, <1>8, <2>3 DEF JournalOK, OpenEnds
  <2>5. Len(lines) + Cardinality(Again) <= Cardinality(J!Intact) + failures
          => Len(lines') + Cardinality(Again') <= Cardinality(J!Intact') + failures'
    <3>1. CASE w \in J!Intact
      <4>1. J!Intact' = J!Intact /\ Again' = Again \ {w} /\ w \in Again
        BY <1>2, <2>2, <3>1 DEF Again
      <4>2. Cardinality(Again') = Cardinality(Again) - 1
        BY <1>6, <4>1, FS_RemoveElement
      <4>3. Len(lines') = Len(lines) + 1 /\ failures' = failures
            /\ Cardinality(J!Intact') = Cardinality(J!Intact)
        BY <1>1, <2>2, <4>1
      <4>4. QED
        BY <1>3, <1>6, <4>2, <4>3
    <3>2. CASE w \notin J!Intact
      <4>1. Again' = Again
        BY <1>2, <2>2, <3>2 DEF Again
      <4>2. Cardinality(J!Intact') = Cardinality(J!Intact) + 1
        BY <1>6, <2>2, <3>2, FS_AddElement
      <4>3. QED
        BY <1>1, <1>3, <1>6, <2>2, <4>1, <4>2
    <3>3. QED
      BY <3>1, <3>2
  <2>6. J!Intact' \subseteq J!Intact \cup {w}
    BY <2>2
  <2>7. tears' = 0 => /\ open' = <<>>
                      /\ (\A i \in DOMAIN lines : J!Parses(lines[i]))'
                      /\ Len(lines') + Cardinality(Again') <= Cardinality(J!Intact') + failures'
    BY <1>1, <2>2, <2>5 DEF JournalOK
  <2>8. QED
    BY <1>5, <1>7, <2>4, <2>6, <2>7 DEF JournalOK
<1>9. CASE open # <<>>
  <2>1. J!Intact' = J!Intact
    BY <1>1, <1>9, GluedLine
  <2>2. OpenEnds = 1 /\ tears # 0
    BY <1>9 DEF OpenEnds, JournalOK
  <2>3. Recorded' \ J!Intact' = IF w \in J!Intact THEN Recorded \ J!Intact
                                ELSE (Recorded \ J!Intact) \cup {w}
    BY <1>2, <2>1
  <2>4. Cardinality(Recorded' \ J!Intact') \in {Cardinality(Recorded \ J!Intact),
                                                  Cardinality(Recorded \ J!Intact) + 1}
    BY <1>2, <1>6, <2>3, FS_AddElement
  <2>5. Cardinality(Recorded' \ J!Intact') + OpenEnds' <= tears'
    BY <1>1, <1>3, <1>6, <2>2, <2>4 DEF JournalOK
  <2>6. QED
    BY <1>1, <1>5, <1>7, <2>1, <2>2, <2>5 DEF JournalOK
<1>10. QED
  BY <1>8, <1>9

LEMMA TearStep ==
  ASSUME JournalInv, NEW w \in Writers, J!TearRecord(w)
  PROVE  JournalInv'
<1> USE DEF JournalInv
<1>1. /\ recorder[w] = "built" /\ recorder' = [recorder EXCEPT ![w] = "torn"]
      /\ lines' = lines /\ open' = Append(open, "torn") /\ tears' = tears + 1 /\ tears \in Nat
      /\ failures' = failures
  BY DEF J!TearRecord, JournalTypeOK
<1>2. JournalTypeOK'
  BY <1>1 DEF JournalTypeOK, RecorderStates
<1>3. Recorded' = Recorded /\ J!Intact' = J!Intact
  BY <1>1 DEF Recorded, JournalTypeOK, J!Intact, J!Parses
<1>4. OpenEnds' \in {0, 1} /\ OpenEnds \in {0, 1} /\ Cardinality(Recorded \ J!Intact) \in Nat
  BY Finite DEF Recorded, OpenEnds
<1>5. \A v \in Writers :
        IF DecisionType[v] \in J!AllowedDecisionTypes THEN recorder'[v] # "refused"
        ELSE recorder'[v] \in {"idle", "refused"} /\ v \notin J!Intact'
  BY <1>1, <1>3 DEF JournalOK, JournalTypeOK
<1>6. QED
  BY <1>1, <1>2, <1>3, <1>4, <1>5 DEF JournalOK

\* A failure after the line leaves a decision that is written again.
LEMMA FailStep ==
  ASSUME JournalInv, NEW w \in Writers, J!FailArtifacts(w)
  PROVE  JournalInv'
<1> USE DEF JournalInv
<1>1. /\ recorder[w] = "written" /\ recorder' = [recorder EXCEPT ![w] = "failed"]
      /\ lines' = lines /\ open' = open /\ tears' = tears
      /\ failures' = failures + 1 /\ failures \in Nat /\ tears \in Nat
  BY DEF J!FailArtifacts, JournalTypeOK
<1>2. JournalTypeOK'
  BY <1>1 DEF JournalTypeOK, RecorderStates
<1>3. J!Intact' = J!Intact /\ OpenEnds' = OpenEnds /\ OpenEnds \in {0, 1}
  BY <1>1 DEF J!Intact, J!Parses, OpenEnds
<1>4. Recorded' = Recorded \ {w}
  BY <1>1 DEF Recorded, JournalTypeOK
<1>5. /\ IsFiniteSet(J!Intact) /\ Cardinality(J!Intact) \in Nat
      /\ IsFiniteSet(Again) /\ Cardinality(Again) \in Nat
      /\ IsFiniteSet(Recorded \ J!Intact) /\ Cardinality(Recorded \ J!Intact) \in Nat
      /\ Len(lines) \in Nat
  BY JournalSets
<1>6. Cardinality(Recorded' \ J!Intact') + OpenEnds' <= tears'
  <2>1. Recorded' \ J!Intact' \subseteq Recorded \ J!Intact
    BY <1>3, <1>4
  <2>2. Cardinality(Recorded' \ J!Intact') <= Cardinality(Recorded \ J!Intact)
        /\ Cardinality(Recorded' \ J!Intact') \in Nat
    BY <1>5, <2>1, FS_Subset, FS_CardinalityType
  <2>3. QED
    BY <1>1, <1>3, <1>5, <2>2 DEF JournalOK
<1>7. Cardinality(Again') \in {Cardinality(Again), Cardinality(Again) + 1}
  <2>1. Again' = Again \/ (Again' = Again \cup {w} /\ w \notin Again)
    BY <1>1, <1>3, <1>4 DEF Again
  <2>2. QED
    BY <1>5, <2>1, FS_AddElement
<1>8. \A v \in Writers :
        IF DecisionType[v] \in J!AllowedDecisionTypes THEN recorder'[v] # "refused"
        ELSE recorder'[v] \in {"idle", "refused"} /\ v \notin J!Intact'
  BY <1>1, <1>3 DEF JournalOK, JournalTypeOK
<1>9. (\A i \in DOMAIN lines : J!Parses(lines[i])) => (\A i \in DOMAIN lines : J!Parses(lines[i]))'
  BY <1>1 DEF J!Parses
<1>10. tears = 0 => Len(lines') + Cardinality(Again') <= Cardinality(J!Intact') + failures'
  BY <1>1, <1>3, <1>5, <1>7 DEF JournalOK
<1>11. QED
  BY <1>1, <1>2, <1>3, <1>6, <1>8, <1>9, <1>10 DEF JournalOK

LEMMA OtherJournalSteps ==
  ASSUME JournalInv, NEW w \in Writers, J!BuildRecord(w) \/ J!Acknowledge(w)
  PROVE  JournalInv'
<1> USE DEF JournalInv
<1>1. lines' = lines /\ open' = open /\ tears' = tears /\ failures' = failures
  BY DEF J!BuildRecord, J!Acknowledge
<1>2. recorder' \in [Writers -> RecorderStates] /\ Recorded' = Recorded
  BY DEF J!BuildRecord, J!Acknowledge, JournalTypeOK, RecorderStates, Recorded
<1>3. J!Intact' = J!Intact /\ OpenEnds' = OpenEnds
  BY <1>1 DEF J!Intact, J!Parses, OpenEnds
<1>4. Again' = Again
  BY <1>2, <1>3 DEF Again
<1>5. \A v \in Writers :
        IF DecisionType[v] \in J!AllowedDecisionTypes THEN recorder'[v] # "refused"
        ELSE recorder'[v] \in {"idle", "refused"} /\ v \notin J!Intact'
  BY <1>3 DEF JournalOK, JournalTypeOK, J!BuildRecord, J!Acknowledge
<1>6. QED
  BY <1>1, <1>2, <1>3, <1>4, <1>5 DEF JournalTypeOK, JournalOK, J!Parses

LEMMA JournalSteps == JournalInv /\ J!JournalStep => JournalInv'
BY AppendStep, TearStep, FailStep, OtherJournalSteps DEF J!JournalStep

LEMMA JournalStays ==
  ASSUME JournalInv, UNCHANGED journal
  PROVE  JournalInv'
BY DEF JournalInv, JournalTypeOK, JournalOK, journal, Recorded, Again, OpenEnds, J!Intact, J!Parses

LEMMA JournalNext == JournalInv /\ [Next]_vars => JournalInv'
<1> SUFFICES ASSUME JournalInv, [Next]_vars PROVE JournalInv'
  OBVIOUS
<1>1. J!JournalStep \/ UNCHANGED journal
  BY DEF Next, vars, FileArrives, ContextGrows, NextRun, ArtifactArrives, ReleaseGrows,
         DriverMoves, Gathers, Journals, Enriches
<1>2. QED
  BY <1>1, JournalSteps, JournalStays

LEMMA JournalImplies == JournalInv => J!JournalKeepsDecisions
<1> SUFFICES ASSUME JournalInv PROVE J!JournalKeepsDecisions
  OBVIOUS
<1> USE DEF JournalInv
<1>1. Cardinality({w \in Writers : recorder[w] = "acknowledged"} \ J!Intact) <= tears
  <2> DEFINE Lost == {w \in Writers : recorder[w] = "acknowledged"} \ J!Intact
  <2>1. Lost \subseteq Recorded \ J!Intact
    BY DEF Recorded
  <2>2. IsFiniteSet(Recorded \ J!Intact) /\ Cardinality(Recorded \ J!Intact) \in Nat
        /\ Cardinality(Lost) \in Nat
    BY Finite DEF Recorded
  <2>3. Cardinality(Lost) <= Cardinality(Recorded \ J!Intact)
    BY <2>1, <2>2, FS_Subset
  <2>4. Cardinality(Recorded \ J!Intact) <= tears
    BY <2>2, OpenEndsType DEF JournalOK, JournalTypeOK
  <2>5. QED
    BY <2>2, <2>3, <2>4 DEF JournalTypeOK
<1>2. \A w \in Writers : recorder[w] = "refused" => w \notin J!Intact
  BY DEF JournalOK
<1>3. tears = 0 => J!Readable /\ Len(lines) <= Cardinality(J!Intact) + failures
  BY JournalSets DEF JournalOK, JournalTypeOK, J!Readable, J!AllLines
<1>4. QED
  BY <1>1, <1>2, <1>3, SameCardinality DEF J!JournalKeepsDecisions

\* What was acknowledged is in the journal but for one decision for each torn
\* write, whichever writers append to it in whatever order, tear their lines or fail
\* after them and try again; and nothing but such failures makes a line too many
\* (research/journal.py).
THEOREM DecisionsAreKept == Spec => []JournalKeepsDecisions
<1>1. Init => JournalInv
  BY JournalBegins DEF Init
<1>2. JournalInv => JournalKeepsDecisions
  BY JournalImplies DEF JournalKeepsDecisions
<1>3. QED
  BY <1>1, <1>2, JournalNext, PTL DEF Spec

-----------------------------------------------------------------------------
(* Which step belongs to which part *)

LEMMA PartsStay == [Next]_vars => subject' = subject
BY DEF Next, vars, FileArrives, ContextGrows, NextRun, ArtifactArrives, ReleaseGrows,
       DriverMoves, Gathers, Journals, Enriches, EvidenceStep, Supply, Settle, Age

LEMMA OwnSteps ==
  ASSUME [Next]_vars
  PROVE  /\ subject.part = "thesis" => ContextGrows \/ UNCHANGED <<subject, evidence>>
         /\ subject.part = "desk" => FileArrives \/ UNCHANGED <<subject, evidence>>
         /\ subject.part = "comparison" => NextRun \/ UNCHANGED <<subject, evidence>>
         /\ subject.part = "package" => ArtifactArrives \/ UNCHANGED <<subject, evidence>>
         /\ subject.part = "release" => ReleaseGrows \/ UNCHANGED <<subject, evidence>>
         /\ subject.part = "sensitivity" => DriverMoves \/ UNCHANGED <<subject, evidence>>
         /\ subject.part = "payload" => N!EnrichmentStep \/ UNCHANGED payload
BY DEF Next, vars, FileArrives, ContextGrows, NextRun, ArtifactArrives, ReleaseGrows,
       DriverMoves, Gathers, Journals, Enriches

LEMMA GatheringSteps ==
  ASSUME [Next]_vars
  PROVE  subject.part \in {"check", "valuation", "risk", "audit"} =>
           EvidenceStep \/ UNCHANGED <<subject, evidence>>
BY DEF Next, vars, FileArrives, ContextGrows, NextRun, ArtifactArrives, ReleaseGrows,
       DriverMoves, Gathers, Journals, Enriches

LEMMA EvidenceParts == EvidenceInit => subject.part \in {"check", "valuation", "risk", "audit"}
BY DEF EvidenceInit, CheckSubjects

-----------------------------------------------------------------------------
(* The portfolio audit, the watchlist and the memo *)

LEMMA DeskBegins == Init => DeskInv
<1> SUFFICES ASSUME Init, subject.part = "desk" PROVE DeskInv
  BY DEF DeskInv
<1>1. evidence = Without(Tickers \X FileKinds) /\ subject.rows \in Holdings /\ subject.priorities \in Watched
  BY EvidenceParts DEF Init, DeskInit
<1>2. QED
  BY <1>1 DEF DeskInv, Without

LEMMA DeskNext == DeskInv /\ [Next]_vars => DeskInv'
<1> SUFFICES ASSUME DeskInv, [Next]_vars, subject.part = "desk" PROVE DeskInv'
  BY PartsStay DEF DeskInv
<1>1. CASE FileArrives
  BY <1>1 DEF FileArrives, DeskInv
<1>2. CASE UNCHANGED <<subject, evidence>>
  BY <1>2 DEF DeskInv
<1>3. QED
  BY <1>1, <1>2, OwnSteps

\* The files of a ticker.
LEMMA FiledIs ==
  ASSUME DeskInv, subject.part = "desk", NEW t \in Tickers
  PROVE  /\ Filed[t] = [k \in FileKinds |-> evidence[<<t, k>>]]
         /\ Filed[t].audit \in Audits \cup {None}
         /\ Filed[t].risk \in RiskFindings \cup {None}
         /\ WatchRows[t].ticker = t /\ WatchFiles[t] = Filed[t]
         /\ t # Cash /\ t # None
         /\ Watchlist.bucket[t] = L!Bucket(WatchRows[t], WatchFiles[t])
<1>1. t \in Nat
  BY DEF Tickers
<1>2. t # Cash /\ t # None
  BY <1>1, DesksAssumption, NoneAssumption
<1>3. Filed[t] = [k \in FileKinds |-> evidence[<<t, k>>]]
  BY <1>2 DEF Filed
<1>4. /\ evidence[<<t, "audit">>] \in Audits \cup {None}
      /\ evidence[<<t, "risk">>] \in RiskFindings \cup {None}
  <2>1. \A k \in FileKinds : evidence[<<t, k>>] \in FilesFor(k) \cup {None}
    BY DEF DeskInv
  <2>2. {"audit", "risk"} \subseteq FileKinds
    BY DEF FileKinds
  <2>3. FilesFor("audit") = Audits /\ FilesFor("risk") = RiskFindings
    BY DEF FilesFor
  <2>4. QED
    BY <2>1, <2>2, <2>3
<1>5. WatchRows[t].ticker = t /\ WatchFiles[t] = Filed[t]
  BY DEF WatchRows, WatchFiles
<1>6. Watchlist.bucket[t] = L!Bucket(WatchRows[t], WatchFiles[t])
  BY DEF Watchlist, L!AuditWatchlist, WatchRows
<1>7. QED
  BY <1>2, <1>3, <1>4, <1>5, <1>6 DEF FileKinds

\* A type of company whose status is fine has scores that can be ranked.
LEMMA StandardIsRankable ==
  ASSUME NEW a \in Audits, a.status \notin {"DEGRADED", "NOT_APPLICABLE", "UNKNOWN"}
  PROVE  a.usage = "rankable" /\ a.type # "fund_etf_excluded"
<1>1. a.type \in {"standard_industrial", "saas"}
  BY AuditsAssumption DEF A!ApplicabilityStatus
<1>2. QED
  BY <1>1, AuditsAssumption DEF A!AllowedUsage

\* What the watchlist calls researchable.
LEMMA ResearchableMeans ==
  ASSUME DeskInv, subject.part = "desk", NEW t \in Tickers
  PROVE  Watchlist.bucket[t] = "Researchable Now" <=>
           LET a == Filed[t].audit IN
           /\ a # None
           /\ ~L!NotATarget(a) /\ ~L!NotTheModel(a) /\ a.status # "UNKNOWN" /\ ~L!DataLimited(a)
           /\ a.risk \notin {"HIGH", "UNKNOWN"}
           /\ Filed[t].risk \in {None, 0}
<1>1. ~(L!RedFlags(Filed[t]) > 0) <=> Filed[t].risk \in {None, 0}
  <2>1. Filed[t].risk \in Nat \cup {None} /\ None \notin Nat
    BY FiledIs, DesksAssumption, NoneAssumption
  <2>2. L!RedFlags(Filed[t]) = IF Filed[t].risk = None THEN 0 ELSE Filed[t].risk
    BY DEF L!RedFlags
  <2>3. \A r \in Nat \cup {None} : ~((IF r = None THEN 0 ELSE r) > 0) <=> r \in {None, 0}
    BY NoneAssumption
  <2>4. QED
    BY <2>1, <2>2, <2>3, Zenon
<1>2. QED
  BY <1>1, FiledIs DEF L!Bucket

\* What the watchlist calls researchable the portfolio audit sends to review only
\* for its provider or its thesis; and a memo that asks for no review is on a
\* holding that both call fine, in a portfolio without unaudited weight, for any
\* holdings, weights and files (research/watchlist.py, audit/portfolio_audit.py,
\* reporting/investment_memo.py).
THEOREM DesksAreAgreed == Spec => []DesksAgree
<1>1. ASSUME DeskInv, subject.part = "desk", NEW t \in Tickers,
             Watchlist.bucket[t] = "Researchable Now"
      PROVE  P!Reviews(t, Filed[t]) \subseteq {"provider", "thesis"}
  <2> DEFINE a == Filed[t].audit
  <2>1. /\ a # None /\ ~L!NotATarget(a) /\ ~L!NotTheModel(a) /\ a.status # "UNKNOWN"
        /\ a.risk \notin {"HIGH", "UNKNOWN"} /\ Filed[t].risk \in {None, 0}
    BY <1>1, ResearchableMeans
  <2>2. P!ModelStatus(Filed[t]) = a.status /\ P!RiskLevel(Filed[t]) = a.risk
    BY <2>1 DEF P!ModelStatus, P!RiskLevel
  <2>3. a.status \notin {"DEGRADED", "NOT_APPLICABLE", "UNKNOWN"}
    BY <2>1 DEF L!NotATarget, L!NotTheModel
  <2>4. QED
    BY <2>1, <2>2, <2>3 DEF P!Reviews
<1>2. ASSUME DeskInv, subject.part = "desk", NEW t \in Tickers, MemoOn(t, "LOW").reason = "GENERATED"
      PROVE  /\ Watchlist.bucket[t] = "Researchable Now"
             /\ P!Reviews(t, Filed[t]) = {}
             /\ "unknown" \notin Portfolio.items
  <2> DEFINE a      == Filed[t].audit
             weight == P!WeightOf(subject.rows, P!Unaudited(subject.rows, Filed))
             extras == [explained |-> TRUE, decided |-> TRUE, worded |-> FALSE, fragility |-> "LOW",
                        ranged |-> TRUE, exposure |-> weight]
  <2>1. MemoOn(t, "LOW") = M!InvestmentMemo(Filed[t], extras)
    BY DEF MemoOn
  <2>2. extras.exposure = weight /\ ~extras.worded
    OBVIOUS
  <2> HIDE DEF extras, weight
  <2>3. a # None /\ ~(a.unknown > 0) /\ M!ReviewItems(Filed[t], extras) = {}
    BY <1>2, <2>1, <2>2 DEF M!InvestmentMemo
  <2>4. /\ a.level \notin {"LOW", "UNKNOWN"} /\ ~a.degraded /\ ~a.missing
        /\ a.status \notin {"DEGRADED", "NOT_APPLICABLE", "UNKNOWN"}
        /\ a.risk \notin {"HIGH", "UNKNOWN"}
        /\ Filed[t].risk \in {None, 0} /\ Filed[t].thesis \notin {"WATCH", "BROKEN", "UNKNOWN"}
        /\ weight \in {None, 0}
        /\ M!MissingComponents(Filed[t], extras) = {}
    BY <2>2, <2>3 DEF M!ReviewItems
  <2>5. weight # None /\ Filed[t].thesis # None
    BY <2>2, <2>4 DEF M!MissingComponents
  <2>6. a \in Audits /\ a.unknown \in Nat
    <3>1. a \in Audits
      BY <1>2, <2>3, FiledIs
    <3>2. QED
      BY <3>1, AuditsAssumption
  <2>7. a.usage = "rankable" /\ a.type # "fund_etf_excluded"
    BY <2>4, <2>6, StandardIsRankable
  <2>8. ~L!NotATarget(a) /\ ~L!NotTheModel(a)
    BY <2>4, <2>7 DEF L!NotATarget, L!NotTheModel
  <2>9. ~L!DataLimited(a)
    BY <2>3, <2>4, <2>6, DesksAssumption DEF L!DataLimited
  <2>10. Watchlist.bucket[t] = "Researchable Now"
    BY <1>2, <2>3, <2>4, <2>8, <2>9, ResearchableMeans
  <2>11. P!Reviews(t, Filed[t]) = {}
    BY <2>3, <2>4, <2>5 DEF P!Reviews, P!ModelStatus, P!RiskLevel, P!ThesisStatus, P!Degraded
  <2>12. "unknown" \notin Portfolio.items
    <3>1. "unknown" \in P!PortfolioReviews(subject.rows, Filed) => weight > 0
      BY DEF P!PortfolioReviews, weight
    <3>2. weight = 0
      BY <2>4, <2>5
    <3>3. QED
      BY <3>1, <3>2 DEF Portfolio, P!BuildPortfolioAudit
  <2>13. QED
    BY <2>10, <2>11, <2>12
<1>3. DeskInv => DesksAgree
  BY <1>1, <1>2 DEF DesksAgree
<1>4. QED
  BY <1>3, DeskBegins, DeskNext, PTL DEF Spec

\* What an invested row weighs is a number.
LEMMA SharesAreNumbers ==
  ASSUME NEW rows \in Holdings
  PROVE  \A i \in DOMAIN rows : P!Shares(rows)[i] \in Nat
<1> SUFFICES ASSUME NEW i \in DOMAIN rows PROVE P!Shares(rows)[i] \in Nat
  OBVIOUS
<1>1. rows[i].weight \in Int \cup {None} /\ rows[i].value \in Int \cup {None} /\ None \notin Int
  BY HoldingsAssumption
<1>2. \A n \in Int \cup {None} : P!Positive(n) \in Nat /\ P!ParseWeight(n) \in Int \cup {None}
  BY <1>1 DEF P!Positive, P!ParseWeight
<1>3. P!LoadedWeight(rows[i]) \in Int \cup {None}
  <2>1. P!ParseWeight(rows[i].weight) \in Int \cup {None}
    BY <1>1, <1>2, Zenon
  <2>2. QED
    BY <2>1 DEF P!LoadedWeight
<1>4. QED
  BY <1>1, <1>2, <1>3 DEF P!Shares

\* A weighted sum is one over the products.
LEMMA WeighedSum ==
  ASSUME NEW rows, NEW s, IsFiniteSet(P!Invested(rows)),
         \A i \in P!Invested(rows) : s[i] * P!Shares(rows)[i] \in Int
  PROVE  \E f : /\ Sums(f, P!Invested(rows), [i \in P!Invested(rows) |-> s[i] * P!Shares(rows)[i]])
               /\ P!Average(rows, s).sum = f[P!Invested(rows)]
<1> DEFINE I == P!Invested(rows)
           h == [i \in I |-> s[i] * P!Shares(rows)[i]]
           Plain(f) == f = [x \in SUBSET I |-> IF x = {} THEN 0
                             ELSE s[CHOOSE y \in x : TRUE] * P!Shares(rows)[CHOOSE y \in x : TRUE]
                                    + f[x \ {CHOOSE y \in x : TRUE}]]
<1>1. \E f : Sums(f, I, h)
  BY SumsExist
<1>2. ASSUME NEW f PROVE Sums(f, I, h) <=> Plain(f)
  <2>1. ASSUME NEW x \in SUBSET I, x # {}
        PROVE  h[First(x)] = s[CHOOSE y \in x : TRUE] * P!Shares(rows)[CHOOSE y \in x : TRUE]
    BY <2>1, FirstIs DEF First
  <2>2. [x \in SUBSET I |-> IF x = {} THEN 0 ELSE h[First(x)] + f[x \ {First(x)}]]
          = [x \in SUBSET I |-> IF x = {} THEN 0
                             ELSE s[CHOOSE y \in x : TRUE] * P!Shares(rows)[CHOOSE y \in x : TRUE]
                                    + f[x \ {CHOOSE y \in x : TRUE}]]
    <3> HIDE DEF h
    <3>1. QED
      BY <2>1 DEF First
  <2>3. QED
    BY <2>2 DEF Sums
<1>3. \E f : Plain(f)
  <2> HIDE DEF h, Plain
  <2>1. QED
    BY <1>1, <1>2
<1>4. \E f : Plain(f) /\ P!Average(rows, s).sum = f[I]
  BY <1>3, Zenon DEF P!Average, P!MapThenSumSet, P!MapThenFoldSet
<1>5. QED
  BY <1>2, <1>4

\* So is what all of them weigh.
LEMMA WeightSum ==
  ASSUME NEW rows, NEW I, IsFiniteSet(I), \A i \in I : P!Shares(rows)[i] \in Int
  PROVE  \E f : Sums(f, I, P!Shares(rows)) /\ P!WeightOf(rows, I) = f[I]
<1>1. \E f : Sums(f, I, P!Shares(rows))
  BY SumsExist
<1>2. QED
  BY <1>1, Zenon DEF Sums, First, P!WeightOf, P!MapThenSumSet, P!MapThenFoldSet

\* Better scores of the rows, a better average of the same total weight.
LEMMA AveragesGrow ==
  ASSUME NEW rows \in Holdings, NEW s, NEW t,
         \A i \in P!Invested(rows) : s[i] \in Nat /\ t[i] \in Nat /\ s[i] <= t[i]
  PROVE  /\ P!Average(rows, s).total = P!Average(rows, t).total
         /\ P!Average(rows, s).total \in Int
         /\ P!Average(rows, s).sum \in Int /\ P!Average(rows, t).sum \in Int
         /\ P!Average(rows, s).sum <= P!Average(rows, t).sum
<1> DEFINE I == P!Invested(rows)
           w == P!Shares(rows)
           h == [i \in I |-> s[i] * P!Shares(rows)[i]]
           k == [i \in I |-> t[i] * P!Shares(rows)[i]]
<1>1. I \subseteq DOMAIN rows /\ IsFiniteSet(I)
  BY HoldingsAssumption, FS_Subset DEF P!Invested
<1>2. \A i \in I : w[i] \in Nat
  BY <1>1, SharesAreNumbers
<1>3. \A a, b, c \in Nat : a <= b => a * c \in Int /\ b * c \in Int /\ a * c <= b * c
  OBVIOUS
<1>4. \A i \in I : /\ s[i] * P!Shares(rows)[i] \in Int /\ t[i] * P!Shares(rows)[i] \in Int
                   /\ h[i] \in Int /\ k[i] \in Int /\ h[i] <= k[i]
  BY <1>2, <1>3
<1>5. PICK f : Sums(f, I, w) /\ P!WeightOf(rows, I) = f[I]
  BY <1>1, <1>2, WeightSum
<1>6. PICK g : Sums(g, I, h) /\ P!Average(rows, s).sum = g[I]
  BY <1>1, <1>4, WeighedSum
<1>7. PICK e : Sums(e, I, k) /\ P!Average(rows, t).sum = e[I]
  BY <1>1, <1>4, WeighedSum
<1>8. /\ P!Average(rows, s).total = P!WeightOf(rows, I)
      /\ P!Average(rows, t).total = P!WeightOf(rows, I)
  BY DEF P!Average
<1> HIDE DEF I, w, h, k
<1>9. P!WeightOf(rows, I) \in Int
  <2>1. \A i \in I : w[i] \in Int /\ w[i] <= w[i]
    BY <1>2
  <2>2. QED
    BY <1>1, <1>5, <2>1, SumsGrow
<1>10. /\ P!Average(rows, s).sum \in Int /\ P!Average(rows, t).sum \in Int
       /\ P!Average(rows, s).sum <= P!Average(rows, t).sum
  BY <1>1, <1>4, <1>6, <1>7, SumsGrow
<1>11. QED
  BY <1>8, <1>9, <1>10

\* The scores of a ticker are numbers, and only an audit changes them: for the
\* better, as a missing one counts as the worst.
LEMMA ScoresImprove ==
  ASSUME DeskInv, [Next]_vars, subject.part = "desk", NEW t \in Tickers
  PROVE  /\ P!ConfidenceScore[P!DataLevel(Filed[t])] \in Nat
         /\ P!ConfidenceScore[P!DataLevel(Filed[t])'] \in Nat
         /\ P!ConfidenceScore[P!DataLevel(Filed[t])] <= P!ConfidenceScore[P!DataLevel(Filed[t])']
         /\ P!RiskScore[P!RiskLevel(Filed[t])] \in Nat
         /\ P!RiskScore[P!RiskLevel(Filed[t])'] \in Nat
         /\ P!RiskScore[P!RiskLevel(Filed[t])] >= P!RiskScore[P!RiskLevel(Filed[t])']
<1>1. Filed[t].audit \in Audits \cup {None} /\ Filed[t].audit = evidence[<<t, "audit">>]
  <2>1. t # Cash /\ Filed[t].audit \in Audits \cup {None}
    BY FiledIs
  <2>2. Filed[t].audit = evidence[<<t, "audit">>]
    BY <2>1 DEF Filed, FileKinds
  <2>3. QED
    BY <2>1, <2>2
<1>2. DeskInv' /\ subject' = subject
  BY DeskNext, PartsStay
<1>3. Filed'[t].audit \in Audits \cup {None} /\ Filed'[t].audit = evidence'[<<t, "audit">>]
  <2>1. t # Cash /\ <<t, "audit">> \in Tickers \X FileKinds
    BY FiledIs DEF FileKinds
  <2>2. Filed'[t].audit = evidence'[<<t, "audit">>]
    BY <2>1 DEF Filed, FileKinds
  <2>3. DOMAIN evidence' = Tickers \X FileKinds
        /\ \A f \in DOMAIN evidence' : evidence'[f] \in FilesFor(f[2]) \cup {None}
    BY <1>2 DEF DeskInv
  <2>4. FilesFor("audit") = Audits
    BY DEF FilesFor
  <2>5. QED
    BY <2>1, <2>2, <2>3, <2>4
<1>4. Filed[t].audit # None => Filed'[t].audit = Filed[t].audit
  <2>1. CASE FileArrives
    BY <1>1, <1>3, <2>1 DEF FileArrives, DeskInv
  <2>2. CASE UNCHANGED <<subject, evidence>>
    BY <1>1, <1>3, <2>2
  <2>3. QED
    BY <2>1, <2>2, OwnSteps
<1>5. \A a \in Audits : a.level \in A!Levels /\ a.risk \in A!Levels
  BY AuditsAssumption
<1>6. /\ P!DataLevel(Filed[t]) = IF Filed[t].audit = None THEN "UNKNOWN" ELSE Filed[t].audit.level
      /\ P!DataLevel(Filed[t])' = IF Filed'[t].audit = None THEN "UNKNOWN" ELSE Filed'[t].audit.level
      /\ P!RiskLevel(Filed[t]) = IF Filed[t].audit = None THEN "UNKNOWN" ELSE Filed[t].audit.risk
      /\ P!RiskLevel(Filed[t])' = IF Filed'[t].audit = None THEN "UNKNOWN" ELSE Filed'[t].audit.risk
  BY DEF P!DataLevel, P!RiskLevel
<1>7. \A level \in A!Levels : /\ P!ConfidenceScore[level] \in Nat /\ P!RiskScore[level] \in Nat
                              /\ P!ConfidenceScore["UNKNOWN"] <= P!ConfidenceScore[level]
                              /\ P!RiskScore["UNKNOWN"] >= P!RiskScore[level]
  BY DEF A!Levels, P!ConfidenceScore, P!RiskScore
<1>8. "UNKNOWN" \in A!Levels
  BY DEF A!Levels
<1> DEFINE x == Filed[t].audit
           y == Filed'[t].audit
<1> HIDE DEF x, y
<1>9. /\ P!DataLevel(Filed[t]) \in A!Levels /\ P!DataLevel(Filed[t])' \in A!Levels
      /\ P!RiskLevel(Filed[t]) \in A!Levels /\ P!RiskLevel(Filed[t])' \in A!Levels
      /\ P!DataLevel(Filed[t]) # "UNKNOWN" => P!DataLevel(Filed[t])' = P!DataLevel(Filed[t])
      /\ P!RiskLevel(Filed[t]) # "UNKNOWN" => P!RiskLevel(Filed[t])' = P!RiskLevel(Filed[t])
  <2>1. /\ P!DataLevel(Filed[t]) = IF x = None THEN "UNKNOWN" ELSE x.level
        /\ P!DataLevel(Filed[t])' = IF y = None THEN "UNKNOWN" ELSE y.level
        /\ P!RiskLevel(Filed[t]) = IF x = None THEN "UNKNOWN" ELSE x.risk
        /\ P!RiskLevel(Filed[t])' = IF y = None THEN "UNKNOWN" ELSE y.risk
    BY <1>6 DEF x, y
  <2>2. x \in Audits \cup {None} /\ y \in Audits \cup {None} /\ (x # None => y = x)
    BY <1>1, <1>3, <1>4 DEF x, y
  <2>3. QED
    BY <2>1, <2>2, <1>5, <1>8
<1>10. QED
  BY <1>7, <1>8, <1>9

\* An audit that arrives never lowers the confidence in a portfolio nor raises its
\* risk, for any holdings, weights and audits (audit/portfolio_audit.py, the
\* weighted averages).
THEOREM AuditsOnlyHelp == Spec => MissingAuditsWeighWorst
<1>1. ASSUME DeskInv, [Next]_vars, subject.part = "desk"
      PROVE  /\ ConfidenceRank[Portfolio'.confidence] >= ConfidenceRank[Portfolio.confidence]
             /\ RiskRank[Portfolio'.risk] <= RiskRank[Portfolio.risk]
  <2> DEFINE rows == subject.rows
             c == [i \in DOMAIN rows |-> P!ConfidenceScore[P!DataLevel(Filed[rows[i].ticker])]]
             d == [i \in DOMAIN rows |-> P!ConfidenceScore[P!DataLevel(Filed'[rows[i].ticker])]]
             r == [i \in DOMAIN rows |-> P!RiskScore[P!RiskLevel(Filed[rows[i].ticker])]]
             q == [i \in DOMAIN rows |-> P!RiskScore[P!RiskLevel(Filed'[rows[i].ticker])]]
  <2>1. rows \in Holdings /\ subject' = subject
    BY <1>1, PartsStay DEF DeskInv
  <2>2. \A i \in P!Invested(rows) : i \in DOMAIN rows /\ rows[i].ticker \in Tickers
    BY <2>1, HoldingsAssumption DEF P!Invested
  <2>3. \A i \in P!Invested(rows) :
          /\ c[i] \in Nat /\ d[i] \in Nat /\ c[i] <= d[i]
          /\ q[i] \in Nat /\ r[i] \in Nat /\ q[i] <= r[i]
    <3> SUFFICES ASSUME NEW i \in P!Invested(rows)
                 PROVE  /\ c[i] \in Nat /\ d[i] \in Nat /\ c[i] <= d[i]
                        /\ q[i] \in Nat /\ r[i] \in Nat /\ q[i] <= r[i]
      OBVIOUS
    <3> DEFINE t == rows[i].ticker
    <3>1. t \in Tickers /\ i \in DOMAIN rows
      BY <2>2
    <3>2. /\ P!DataLevel(Filed[t])' = P!DataLevel(Filed'[t])
          /\ P!RiskLevel(Filed[t])' = P!RiskLevel(Filed'[t])
      BY <2>1 DEF P!DataLevel, P!RiskLevel
    <3>3. QED
      BY <1>1, <3>1, <3>2, ScoresImprove
  <2>4. /\ P!ConfidenceAverage(rows, Filed) = P!Average(rows, c)
        /\ P!ConfidenceAverage(rows, Filed') = P!Average(rows, d)
        /\ P!RiskAverage(rows, Filed) = P!Average(rows, r)
        /\ P!RiskAverage(rows, Filed') = P!Average(rows, q)
    BY DEF P!ConfidenceAverage, P!RiskAverage
  <2>5. /\ Portfolio.confidence = P!WeightedConfidence(rows, Filed)
        /\ Portfolio.risk = P!WeightedRisk(rows, Filed)
        /\ Portfolio'.confidence = P!WeightedConfidence(rows, Filed')
        /\ Portfolio'.risk = P!WeightedRisk(rows, Filed')
    BY <2>1 DEF Portfolio, P!BuildPortfolioAudit
  <2> HIDE DEF rows, c, d, r, q
  <2>6. ConfidenceRank[Portfolio'.confidence] >= ConfidenceRank[Portfolio.confidence]
    <3> DEFINE a == P!Average(rows, c)
               b == P!Average(rows, d)
    <3>1. a.total = b.total /\ a.total \in Int /\ a.sum \in Int /\ b.sum \in Int /\ a.sum <= b.sum
      BY <2>1, <2>3, AveragesGrow
    <3>2. /\ P!WeightedConfidence(rows, Filed) =
               (CASE a.total > 0 /\ a.sum >= 80 * a.total                           -> "HIGH"
                  [] a.total > 0 /\ a.sum >= 50 * a.total /\ a.sum < 80 * a.total   -> "MEDIUM"
                  [] a.total > 0 /\ a.sum > 0 /\ a.sum < 50 * a.total               -> "LOW"
                  [] OTHER                                                          -> "UNKNOWN")
          /\ P!WeightedConfidence(rows, Filed') =
               (CASE b.total > 0 /\ b.sum >= 80 * b.total                           -> "HIGH"
                  [] b.total > 0 /\ b.sum >= 50 * b.total /\ b.sum < 80 * b.total   -> "MEDIUM"
                  [] b.total > 0 /\ b.sum > 0 /\ b.sum < 50 * b.total               -> "LOW"
                  [] OTHER                                                          -> "UNKNOWN")
      BY <2>4 DEF P!WeightedConfidence
    <3> HIDE DEF a, b
    <3>3. QED
      BY <2>5, <3>1, <3>2 DEF ConfidenceRank
  <2>7. RiskRank[Portfolio'.risk] <= RiskRank[Portfolio.risk]
    <3> DEFINE a == P!Average(rows, r)
               b == P!Average(rows, q)
    <3>1. a.total = b.total /\ a.total \in Int /\ a.sum \in Int /\ b.sum \in Int /\ b.sum <= a.sum
      BY <2>1, <2>3, AveragesGrow
    <3>2. /\ P!WeightedRisk(rows, Filed) =
               (CASE a.total > 0 /\ a.sum >= 75 * a.total                           -> "HIGH"
                  [] a.total > 0 /\ a.sum >= 30 * a.total /\ a.sum < 75 * a.total   -> "MEDIUM"
                  [] a.total > 0 /\ a.sum < 30 * a.total                            -> "LOW"
                  [] OTHER                                                          -> "UNKNOWN")
          /\ P!WeightedRisk(rows, Filed') =
               (CASE b.total > 0 /\ b.sum >= 75 * b.total                           -> "HIGH"
                  [] b.total > 0 /\ b.sum >= 30 * b.total /\ b.sum < 75 * b.total   -> "MEDIUM"
                  [] b.total > 0 /\ b.sum < 30 * b.total                            -> "LOW"
                  [] OTHER                                                          -> "UNKNOWN")
      BY <2>4 DEF P!WeightedRisk
    <3> HIDE DEF a, b
    <3>3. QED
      BY <2>5, <3>1, <3>2 DEF RiskRank
  <2>8. QED
    BY <2>6, <2>7
<1>2. DeskInv /\ [Next]_vars
        => [subject.part = "desk" =>
              LET before == Portfolio
                  after  == Portfolio'
              IN /\ ConfidenceRank[after.confidence] >= ConfidenceRank[before.confidence]
                 /\ RiskRank[after.risk] <= RiskRank[before.risk]]_<<subject, evidence>>
  BY <1>1
<1>3. QED
  BY <1>2, DeskBegins, DeskNext, PTL DEF Spec, MissingAuditsWeighWorst

\* Rows that can be researched now, rows that score nothing, and what a row loses
\* for its bucket.
Fine(t) == Watchlist.bucket[t] = "Researchable Now"
Idle(t) == Filed[t].audit = None \/ Watchlist.bucket[t] \in {"Ignore for Now", "Needs Different Model"}
Off(t)  == L!Penalty(Watchlist.bucket[t])

LEMMA WeightsAre ==
  /\ \A p \in DOMAIN L!PriorityWeight : L!PriorityWeight[p] \in Nat
  /\ \A level \in A!Levels :
       /\ L!ConfidenceWeight[level] \in 0..4 /\ L!RiskWeight[level] \in 0..3
       /\ level \in {"HIGH", "UNKNOWN"} => L!RiskWeight[level] = 0
       /\ level \in {"HIGH", "MEDIUM"} => L!ConfidenceWeight[level] \in {3, 4}
       /\ level \in {"LOW", "MEDIUM"} => L!RiskWeight[level] \in {2, 3}
<1>1. DOMAIN L!PriorityWeight = {"critical", "high", "medium", "low", "watch", "ignore"}
  BY DEF L!PriorityWeight
<1>2. \A p \in {"critical", "high", "medium", "low", "watch", "ignore"} : L!PriorityWeight[p] \in Nat
  BY DEF L!PriorityWeight
<1>3. QED
  BY <1>1, <1>2 DEF A!Levels, L!ConfidenceWeight, L!RiskWeight

LEMMA PenaltiesAre ==
  ASSUME DeskInv, subject.part = "desk", NEW t \in Tickers
  PROVE  /\ Fine(t) => Off(t) = 0 /\ ~Idle(t)
         /\ ~Fine(t) /\ ~Idle(t) =>
              \/ Off(t) = 15
              \/ Off(t) = 8 /\ (Filed[t].audit.risk \in {"HIGH", "UNKNOWN"} \/ L!RedFlags(Filed[t]) > 0)
<1>1. /\ L!Penalty("Researchable Now") = 0 /\ L!Penalty("Manual Review Required") = 8
      /\ L!Penalty("Data Limited") = 15
  BY DEF L!Penalty
<1>2. /\ Watchlist.bucket[t] = L!Bucket(WatchRows[t], WatchFiles[t])
      /\ WatchRows[t].ticker # None /\ WatchFiles[t] = Filed[t]
  BY FiledIs
<1>3. Fine(t) => ~Idle(t)
  BY ResearchableMeans DEF Fine, Idle
<1>4. ~Fine(t) /\ ~Idle(t) =>
        \/ Watchlist.bucket[t] = "Data Limited"
        \/ /\ Watchlist.bucket[t] = "Manual Review Required"
           /\ Filed[t].audit.risk \in {"HIGH", "UNKNOWN"} \/ L!RedFlags(Filed[t]) > 0
  BY <1>2 DEF Fine, Idle, L!Bucket
<1>5. QED
  BY <1>1, <1>3, <1>4 DEF Fine, Off

\* The score of a row.
LEMMA ScoreOfRow ==
  ASSUME DeskInv, subject.part = "desk", NEW t \in Tickers
  PROVE  LET y     == Filed[t].audit
             found == L!RedFlags(Filed[t])
             score == 10 * L!PriorityWeight[subject.priorities[t]] + 5 * L!ConfidenceWeight[y.level]
                        + 4 * L!RiskWeight[y.risk] - (IF y.status = "STANDARD_OK" THEN 0 ELSE 10)
                        - 3 * (IF found > 5 THEN 5 ELSE found) - Off(t)
         IN L!ResearchScore(WatchRows[t], WatchFiles[t]) =
              IF Idle(t) THEN 0 ELSE IF score < 0 THEN 0 ELSE score
<1> DEFINE row == WatchRows[t]
           files == WatchFiles[t]
<1>1. /\ row.ticker = t /\ t # None /\ row.priority = subject.priorities[t]
      /\ files = Filed[t] /\ Watchlist.bucket[t] = L!Bucket(row, files)
  <2>1. row.ticker = t /\ row.priority = subject.priorities[t]
    BY DEF WatchRows
  <2>2. t # None /\ files = Filed[t] /\ Watchlist.bucket[t] = L!Bucket(row, files)
    BY FiledIs
  <2>3. QED
    BY <2>1, <2>2
<1> HIDE DEF row, files
<1>2. QED
  BY <1>1 DEF L!ResearchScore, Idle, Off, row, files

\* What can be researched now scores at least two points more than what needs a
\* review or data, at the same priority.
LEMMA ScoresSeparate ==
  ASSUME DeskInv, subject.part = "desk", NEW a \in Tickers, NEW b \in Tickers,
         subject.priorities[a] = subject.priorities[b], Fine(a), ~Fine(b)
  PROVE  /\ L!ResearchScore(WatchRows[a], WatchFiles[a]) \in Int
         /\ L!ResearchScore(WatchRows[b], WatchFiles[b]) \in Int
         /\ L!ResearchScore(WatchRows[a], WatchFiles[a]) > L!ResearchScore(WatchRows[b], WatchFiles[b])
<1> DEFINE x == Filed[a].audit
           y == Filed[b].audit
           urgency == L!PriorityWeight[subject.priorities[a]]
           found == L!RedFlags(Filed[b])
           ahead == L!ResearchScore(WatchRows[a], WatchFiles[a])
           behind == L!ResearchScore(WatchRows[b], WatchFiles[b])
<1>1. urgency \in Nat
  BY WatchedAssumption, WeightsAre DEF DeskInv
<1>2. /\ x # None /\ x \in Audits /\ ~L!NotATarget(x) /\ ~L!NotTheModel(x) /\ x.status # "UNKNOWN"
      /\ ~L!DataLimited(x) /\ x.risk \notin {"HIGH", "UNKNOWN"} /\ L!RedFlags(Filed[a]) = 0
  <2>1. Filed[a].risk \in {None, 0} /\ Filed[a].audit \in Audits \cup {None}
    BY ResearchableMeans, FiledIs DEF Fine
  <2>2. L!RedFlags(Filed[a]) = 0
    BY <2>1 DEF L!RedFlags
  <2>3. QED
    BY <2>1, <2>2, ResearchableMeans DEF Fine
<1>3. x.status = "STANDARD_OK" /\ x.level \in {"HIGH", "MEDIUM"} /\ x.risk \in {"LOW", "MEDIUM"}
  <2>1. /\ x.status \notin {"NOT_APPLICABLE", "DEGRADED", "UNKNOWN"}
        /\ x.level \notin {"LOW", "UNKNOWN"}
    BY <1>2 DEF L!NotATarget, L!NotTheModel, L!DataLimited
  <2>2. x.status \in {"STANDARD_OK", "NOT_APPLICABLE", "DEGRADED", "UNKNOWN"}
    BY <1>2, AuditsAssumption DEF A!ApplicabilityStatus
  <2>3. {x.level, x.risk} \subseteq {"LOW", "MEDIUM", "HIGH", "UNKNOWN"}
    BY <1>2, AuditsAssumption DEF A!Levels
  <2>4. QED
    BY <1>2, <2>1, <2>2, <2>3
<1>4. ahead \in Int /\ ahead >= 10 * urgency + 23
  <2> DEFINE c == L!ConfidenceWeight[x.level]
             r == L!RiskWeight[x.risk]
  <2>1. c \in {3, 4} /\ r \in {2, 3}
    BY <1>3, WeightsAre DEF A!Levels
  <2>2. ahead = LET score == 10 * urgency + 5 * c + 4 * r - 0 - 3 * (IF 0 > 5 THEN 5 ELSE 0) - 0
                IN IF score < 0 THEN 0 ELSE score
    <3>1. Off(a) = 0 /\ ~Idle(a)
      BY PenaltiesAre
    <3>2. QED
      BY <1>2, <1>3, <3>1, ScoreOfRow
  <2> HIDE DEF ahead, urgency, c, r
  <2>3. QED
    BY <1>1, <2>1, <2>2
<1>5. behind \in Int /\ behind <= 10 * urgency + 21
  <2> DEFINE counted == IF found > 5 THEN 5 ELSE found
             unfit == IF y.status = "STANDARD_OK" THEN 0 ELSE 10
             c == L!ConfidenceWeight[y.level]
             r == L!RiskWeight[y.risk]
             score == 10 * urgency + 5 * c + 4 * r - unfit - 3 * counted - Off(b)
  <2>1. behind = IF Idle(b) THEN 0 ELSE IF score < 0 THEN 0 ELSE score
    BY ScoreOfRow
  <2>2. CASE Idle(b)
    <3>1. behind = 0
      BY <2>1, <2>2
    <3> HIDE DEF behind, urgency
    <3>2. QED
      BY <1>1, <3>1
  <2>3. CASE ~Idle(b)
    <3>1. y \in Audits /\ found \in Nat
      <4>1. Filed[b].risk \in RiskFindings \cup {None} /\ y \in Audits \cup {None}
        BY FiledIs
      <4>2. found \in Nat
        BY <4>1, DesksAssumption DEF L!RedFlags
      <4>3. QED
        BY <2>3, <4>1, <4>2 DEF Idle
    <3>2. Off(b) = 15 \/ (Off(b) = 8 /\ (y.risk \in {"HIGH", "UNKNOWN"} \/ found > 0))
      BY <2>3, PenaltiesAre
    <3>3. y.level \in A!Levels /\ y.risk \in A!Levels
      BY <3>1, AuditsAssumption
    <3>4. c \in 0..4 /\ r \in 0..3 /\ (y.risk \in {"HIGH", "UNKNOWN"} => r = 0)
      BY <3>3, WeightsAre
    <3>5. counted \in Nat /\ (found > 0 => counted >= 1) /\ unfit \in {0, 10}
      <4>1. found \in Nat
        BY <3>1
      <4> HIDE DEF found
      <4>2. QED
        BY <4>1
    <3>6. Off(b) = 15 \/ (Off(b) = 8 /\ (r = 0 \/ counted >= 1))
      BY <3>2, <3>4, <3>5
    <3> HIDE DEF urgency, y, counted, found, unfit, c, r, behind
    <3>7. QED
      BY <1>1, <2>1, <2>3, <3>4, <3>5, <3>6
  <2>4. QED
    BY <2>2, <2>3
<1>6. ahead \in Int /\ behind \in Int /\ ahead > behind
  <2> HIDE DEF ahead, behind, urgency
  <2>1. QED
    BY <1>1, <1>4, <1>5
<1>7. QED
  BY <1>6

LEMMA ScoresAreNumbers ==
  ASSUME DeskInv, subject.part = "desk", NEW t \in Tickers
  PROVE  L!ResearchScore(WatchRows[t], WatchFiles[t]) \in Int
<1> DEFINE y == Filed[t].audit
           found == L!RedFlags(Filed[t])
           urgency == L!PriorityWeight[subject.priorities[t]]
           c == L!ConfidenceWeight[y.level]
           r == L!RiskWeight[y.risk]
           counted == IF found > 5 THEN 5 ELSE found
           unfit == IF y.status = "STANDARD_OK" THEN 0 ELSE 10
           score == 10 * urgency + 5 * c + 4 * r - unfit - 3 * counted - Off(t)
           scored == L!ResearchScore(WatchRows[t], WatchFiles[t])
<1>1. scored = IF Idle(t) THEN 0 ELSE IF score < 0 THEN 0 ELSE score
  BY ScoreOfRow
<1>2. urgency \in Nat
  BY WatchedAssumption, WeightsAre DEF DeskInv
<1>3. ASSUME ~Idle(t) PROVE c \in Int /\ r \in Int /\ unfit \in Int /\ counted \in Int /\ Off(t) \in Int
  <2>1. y \in Audits /\ Filed[t].risk \in RiskFindings \cup {None}
    BY <1>3, FiledIs DEF Idle
  <2>2. y.level \in A!Levels /\ y.risk \in A!Levels
    BY <2>1, AuditsAssumption
  <2>3. c \in Int /\ r \in Int
    BY <2>2, WeightsAre
  <2>4. found \in Nat
    BY <2>1, DesksAssumption DEF L!RedFlags
  <2>5. Off(t) \in {0, 8, 15}
    BY <1>3, PenaltiesAre
  <2> HIDE DEF found, c, r
  <2>6. QED
    BY <2>3, <2>4, <2>5
<1> HIDE DEF urgency, c, r, counted, unfit, scored
<1>4. QED
  <2>1. scored \in Int
    BY <1>1, <1>2, <1>3
  <2>2. QED
    BY <2>1 DEF scored

\* The queue is a queue of tickers, best score first.
LEMMA QueueIsRanked ==
  ASSUME DeskInv, subject.part = "desk"
  PROVE  \A i, j \in DOMAIN Watchlist.queue :
           /\ Watchlist.queue[i] \in Tickers
           /\ i \in Int /\ j \in Int
           /\ i < j => L!ResearchScore(WatchRows[Watchlist.queue[i]], WatchFiles[Watchlist.queue[i]])
                         >= L!ResearchScore(WatchRows[Watchlist.queue[j]], WatchFiles[Watchlist.queue[j]])
<1> DEFINE eligible == {i \in DOMAIN WatchRows : L!Bucket(WatchRows[i], WatchFiles[i])
                                                   \notin {"Ignore for Now", "Needs Different Model"}}
           score(i) == L!ResearchScore(WatchRows[i], WatchFiles[i])
           called(i) == IF WatchRows[i].ticker = None THEN 0 ELSE WatchRows[i].ticker
           ahead(i, j) == \/ score(i) > score(j)
                          \/ score(i) = score(j) /\ (called(i) < called(j) \/ (called(i) = called(j) /\ i < j))
           Sorted(q) == \A i, j \in DOMAIN q : i < j => ahead(q[i], q[j])
           rel == {p \in eligible \X eligible : ahead(p[1], p[2])}
<1>1. Watchlist.queue = CHOOSE q \in [1..L!Cardinality(eligible) -> eligible] : Sorted(q)
  BY Zenon DEF Watchlist, L!AuditWatchlist, L!ResearchQueue
<1>2. eligible \subseteq Tickers /\ IsFiniteSet(eligible) /\ Cardinality(eligible) \in Nat
      /\ L!Cardinality(eligible) = Cardinality(eligible)
  <2>1. DOMAIN WatchRows = Tickers
    BY DEF WatchRows
  <2>2. eligible \subseteq Tickers
    BY <2>1
  <2>3. IsFiniteSet(Tickers)
    <3>1. \A n \in Nat : IsFiniteSet(1..n)
      BY FS_Interval
    <3>2. 1..2 = {1, 2}
      OBVIOUS
    <3>3. QED
      BY <3>1, <3>2 DEF Tickers
  <2> HIDE DEF eligible
  <2>4. QED
    BY <2>2, <2>3, FS_Subset, FS_CardinalityType DEF Cardinality, L!Cardinality
<1> HIDE DEF eligible
<1>3. \A t \in eligible : score(t) \in Int /\ called(t) \in Int /\ t \in Int
  <2> SUFFICES ASSUME NEW t \in eligible PROVE score(t) \in Int /\ called(t) \in Int /\ t \in Int
    OBVIOUS
  <2>1. t \in Tickers
    BY <1>2
  <2>2. t \in Int
    BY <2>1 DEF Tickers
  <2>3. called(t) \in Int
    <3>1. WatchRows[t].ticker = t
      BY <2>1 DEF WatchRows
    <3>2. QED
      BY <2>2, <3>1
  <2>4. QED
    BY <2>1, <2>2, <2>3, ScoresAreNumbers
<1> HIDE DEF score, called
<1>4. Linear(rel, eligible)
  BY <1>3 DEF Linear, Strict
<1>5. \E q \in [1..L!Cardinality(eligible) -> eligible] : Sorted(q)
  <2>1. PICK q \in [1..Cardinality(eligible) -> eligible] :
          \A i, j \in DOMAIN q : i < j => <<q[i], q[j]>> \in rel
    BY <1>2, <1>4, OrderExists
  <2>2. Sorted(q)
    BY <2>1
  <2>3. QED
    BY <1>2, <2>1, <2>2
<1> DEFINE queue == Watchlist.queue
<1>6. queue \in [1..Cardinality(eligible) -> eligible] /\ Sorted(queue)
  BY <1>1, <1>2, <1>5
<1> HIDE DEF queue
<1>7. \A i, j \in DOMAIN queue : /\ queue[i] \in Tickers /\ i \in Int /\ j \in Int
                                 /\ i < j => score(queue[i]) >= score(queue[j])
  BY <1>2, <1>3, <1>6
<1>8. QED
  BY <1>7 DEF queue, score

\* Whatever the audits and the red flags, what can be researched now is queued
\* before what needs a review or data at the same priority (research/watchlist.py,
\* the scores of the queue).
THEOREM ResearchablesLead == Spec => []ResearchableFirst
<1>1. DeskInv => ResearchableFirst
  <2> SUFFICES ASSUME DeskInv, subject.part = "desk",
                      NEW i \in DOMAIN Watchlist.queue, NEW j \in DOMAIN Watchlist.queue,
                      i < j, subject.priorities[Watchlist.queue[i]] = subject.priorities[Watchlist.queue[j]],
                      Fine(Watchlist.queue[j]), ~Fine(Watchlist.queue[i])
               PROVE  FALSE
    BY DEF ResearchableFirst, Fine
  <2> DEFINE late == Watchlist.queue[i]
             good == Watchlist.queue[j]
  <2>1. late \in Tickers /\ good \in Tickers
        /\ L!ResearchScore(WatchRows[late], WatchFiles[late]) >= L!ResearchScore(WatchRows[good], WatchFiles[good])
    BY QueueIsRanked
  <2> HIDE DEF late, good
  <2>2. /\ L!ResearchScore(WatchRows[good], WatchFiles[good]) \in Int
        /\ L!ResearchScore(WatchRows[late], WatchFiles[late]) \in Int
        /\ L!ResearchScore(WatchRows[good], WatchFiles[good]) > L!ResearchScore(WatchRows[late], WatchFiles[late])
    <3>1. subject.priorities[good] = subject.priorities[late] /\ Fine(good) /\ ~Fine(late)
      BY DEF late, good
    <3>2. QED
      BY <2>1, <3>1, ScoresSeparate
  <2> DEFINE m == L!ResearchScore(WatchRows[good], WatchFiles[good])
             n == L!ResearchScore(WatchRows[late], WatchFiles[late])
  <2>3. m \in Int /\ n \in Int /\ m > n /\ n >= m
    BY <2>1, <2>2
  <2> HIDE DEF m, n
  <2>4. QED
    BY <2>3
<1>2. QED
  BY <1>1, DeskBegins, DeskNext, PTL DEF Spec

-----------------------------------------------------------------------------
(* The thesis *)

LEMMA ThesisBegins == Init => ThesisInv
<1> SUFFICES ASSUME Init, subject.part = "thesis"
             PROVE  subject.of \in Theses /\ DOMAIN evidence = ThesisFields(subject.of)
  BY DEF ThesisInv
<1>1. \E thesis \in Theses :
        subject = [part |-> "thesis", of |-> thesis] /\ evidence = Without(ThesisFields(thesis))
  BY EvidenceParts DEF Init, DeskInit
<1>2. QED
  BY <1>1 DEF Without

LEMMA ThesisNext == ThesisInv /\ [Next]_vars => ThesisInv'
<1> SUFFICES ASSUME ThesisInv, [Next]_vars, subject.part = "thesis"
             PROVE  subject'.of \in Theses /\ DOMAIN evidence' = ThesisFields(subject'.of)
  BY PartsStay DEF ThesisInv
<1>1. CASE ContextGrows
  BY <1>1, PartsStay DEF ContextGrows, ThesisInv
<1>2. CASE UNCHANGED <<subject, evidence>>
  BY <1>2 DEF ThesisInv
<1>3. QED
  BY <1>1, <1>2, OwnSteps

\* The rules of a thesis that say nothing, and those that triggered.
Unknowns(thesis, context) == {i \in T!Kept(thesis) : T!EvaluateRule(thesis[i], context) = "UNKNOWN"}
Fired(thesis, context, category) ==
  \E i \in T!Kept(thesis) : thesis[i].category = category
                            /\ T!EvaluateRule(thesis[i], context) = "TRIGGERED"

LEMMA StatusOfThesis ==
  ASSUME NEW thesis, NEW context
  PROVE  LET status   == T!ThesisStatus(thesis, context)
             majority == 2 * Cardinality(Unknowns(thesis, context)) > Cardinality(T!Kept(thesis))
             broken   == Fired(thesis, context, T!Invalidation)
         IN /\ T!Kept(thesis) = {} => status = "UNKNOWN"
            /\ T!Kept(thesis) # {} /\ broken => status = "BROKEN"
            /\ T!Kept(thesis) # {} /\ ~broken /\ majority => status = "UNKNOWN"
            /\ T!Kept(thesis) # {} /\ ~broken /\ ~majority =>
                 status = IF Fired(thesis, context, T!WatchMetric) \/ Unknowns(thesis, context) # {}
                          THEN "WATCH" ELSE "ON_TRACK"
<1> DEFINE result    == [i \in T!Kept(thesis) |-> T!EvaluateRule(thesis[i], context)]
           unknown   == {i \in T!Kept(thesis) : result[i] = "UNKNOWN"}
           triggered == {thesis[i].category : i \in {j \in T!Kept(thesis) : result[j] = "TRIGGERED"}}
           most      == 2 * T!Cardinality(unknown) > T!Cardinality(T!Kept(thesis))
           status == CASE T!Kept(thesis) = {}                                                      -> "UNKNOWN"
       [] T!Invalidation \in triggered                                             -> "BROKEN"
       [] T!Kept(thesis) # {} /\ T!Invalidation \notin triggered /\ most             -> "UNKNOWN"
       [] T!Kept(thesis) # {} /\ T!Invalidation \notin triggered /\ ~most
            /\ (T!WatchMetric \in triggered \/ unknown # {})                       -> "WATCH"
       [] OTHER                                                                  -> "ON_TRACK"
<1>1. T!ThesisStatus(thesis, context) = status
  BY DEF T!ThesisStatus
<1>2. unknown = Unknowns(thesis, context)
  BY DEF Unknowns
<1>3. \A c : c \in triggered <=> Fired(thesis, context, c)
  BY DEF Fired
<1>4. /\ T!Cardinality(unknown) = Cardinality(Unknowns(thesis, context))
      /\ T!Cardinality(T!Kept(thesis)) = Cardinality(T!Kept(thesis))
  BY <1>2 DEF Cardinality, T!Cardinality
<1> HIDE DEF unknown, triggered, result
<1>5. most <=> 2 * Cardinality(Unknowns(thesis, context)) > Cardinality(T!Kept(thesis))
  BY <1>4
<1> HIDE DEF most
<1>6. T!Kept(thesis) = {} => T!Invalidation \notin triggered
  BY <1>3 DEF Fired
<1>7. /\ T!Kept(thesis) = {} => status = "UNKNOWN"
      /\ T!Kept(thesis) # {} /\ T!Invalidation \in triggered => status = "BROKEN"
      /\ T!Kept(thesis) # {} /\ T!Invalidation \notin triggered /\ most => status = "UNKNOWN"
      /\ T!Kept(thesis) # {} /\ T!Invalidation \notin triggered /\ ~most =>
           status = IF T!WatchMetric \in triggered \/ unknown # {} THEN "WATCH" ELSE "ON_TRACK"
  BY <1>6
<1> HIDE DEF status
<1>8. QED
  BY <1>1, <1>2, <1>3, <1>5, <1>7

\* A rule that says something goes on saying it.
LEMMA RuleStands ==
  ASSUME NEW rule, NEW f, f \in DOMAIN evidence, evidence[f] = None,
         \E x : evidence' = [evidence EXCEPT ![f] = x],
         rule.field # None => rule.field \in DOMAIN evidence,
         T!EvaluateRule(rule, evidence) # "UNKNOWN"
  PROVE  T!EvaluateRule(rule, evidence') = T!EvaluateRule(rule, evidence)
<1>1. rule.field # None /\ evidence[rule.field] # None
  BY DEF T!EvaluateRule
<1>2. evidence'[rule.field] = evidence[rule.field]
  BY <1>1
<1>3. QED
  BY <1>2 DEF T!EvaluateRule

LEMMA ThesisSharpens ==
  ASSUME ThesisInv, subject.part = "thesis", ContextGrows
  PROVE  LET of == subject.of IN
         /\ Unknowns(of, evidence') \subseteq Unknowns(of, evidence)
         /\ \A c : Fired(of, evidence, c) => Fired(of, evidence', c)
         /\ Cardinality(Unknowns(of, evidence')) <= Cardinality(Unknowns(of, evidence))
         /\ Cardinality(Unknowns(of, evidence')) \in Nat
         /\ Cardinality(Unknowns(of, evidence)) \in Nat
         /\ Cardinality(T!Kept(of)) \in Nat
<1> DEFINE of == subject.of
<1>1. PICK f \in DOMAIN evidence : /\ evidence[f] = None
                                   /\ \E x : evidence' = [evidence EXCEPT ![f] = x]
  BY DEF ContextGrows
<1>2. of \in Theses /\ DOMAIN evidence = ThesisFields(of)
  BY DEF ThesisInv
<1>3. \A i \in T!Kept(of) : of[i].field # None => of[i].field \in DOMAIN evidence
  BY <1>2 DEF ThesisFields, T!Kept
<1>4. \A i \in T!Kept(of) : T!EvaluateRule(of[i], evidence) # "UNKNOWN"
                              => T!EvaluateRule(of[i], evidence') = T!EvaluateRule(of[i], evidence)
  BY <1>1, <1>3, RuleStands
<1>5. Unknowns(of, evidence') \subseteq Unknowns(of, evidence)
  BY <1>4 DEF Unknowns
<1>6. \A c : Fired(of, evidence, c) => Fired(of, evidence', c)
  BY <1>4 DEF Fired
<1>7. IsFiniteSet(T!Kept(of)) /\ IsFiniteSet(Unknowns(of, evidence))
  <2>1. T!Kept(of) \subseteq DOMAIN of /\ Unknowns(of, evidence) \subseteq DOMAIN of
    BY DEF T!Kept, Unknowns
  <2>2. QED
    BY <1>2, <2>1, ThesesAssumption, FS_Subset
<1>8. QED
  BY <1>5, <1>6, <1>7, FS_Subset, FS_CardinalityType

\* A thesis only gets sharper while the artifacts say more: a broken one stays
\* broken, a known status is never lost, a watch metric that triggered is not
\* forgotten (research/thesis.py).
THEOREM ThesesSharpen == Spec => ThesisOnlySharpens
<1> DEFINE before  == T!ThesisStatus(subject.of, evidence)
           after   == T!ThesisStatus(subject'.of, evidence')
           watched == Fired(subject.of, evidence, T!WatchMetric)
           Sharpens == /\ before = "BROKEN" => after = "BROKEN"
                       /\ before # "UNKNOWN" => after # "UNKNOWN"
                       /\ before = "WATCH" /\ watched => after \in {"WATCH", "BROKEN"}
<1>1. ASSUME ThesisInv, [Next]_vars, subject.part = "thesis", <<subject, evidence>>' # <<subject, evidence>>
      PROVE  Sharpens
  <2>1. ContextGrows /\ subject' = subject
    BY <1>1, OwnSteps, PartsStay
  <2>2. QED
    BY <1>1, <2>1, ThesisSharpens, StatusOfThesis
<1>2. ThesisInv /\ [Next]_vars =>
        [subject.part = "thesis" =>
           LET b == T!ThesisStatus(subject.of, evidence)
               a == T!ThesisStatus(subject.of, evidence)'
               w == \E i \in T!Kept(subject.of) :
                      /\ subject.of[i].category = T!WatchMetric
                      /\ T!EvaluateRule(subject.of[i], evidence) = "TRIGGERED"
           IN /\ b = "BROKEN" => a = "BROKEN"
              /\ b # "UNKNOWN" => a # "UNKNOWN"
              /\ b = "WATCH" /\ w => a \in {"WATCH", "BROKEN"}]_<<subject, evidence>>
  BY <1>1 DEF Fired
<1>3. QED
  BY <1>2, ThesisBegins, ThesisNext, PTL DEF Spec, ThesisOnlySharpens

-----------------------------------------------------------------------------
(* The payload *)

LEMMA Sources ==
  /\ N!ResolvePrecedence("sec_companyfacts", "manual_override") = "manual_override"
  /\ N!Range(N!Precedence) = {"manual_override", "manual_estimates_pack", "sec_companyfacts",
                              "curated_rates", "curated_averages", "yfinance"}
<1>1. DOMAIN N!Precedence = 1..6
  BY DEF N!Precedence
<1>2. N!Range(N!Precedence) = {"manual_override", "manual_estimates_pack", "sec_companyfacts",
                               "curated_rates", "curated_averages", "yfinance"}
  BY <1>1 DEF N!Range, N!Precedence
<1>3. N!Rank("manual_override") = 1
  BY <1>1 DEF N!Rank, N!Precedence
<1>4. N!Rank("sec_companyfacts") = 3
  BY <1>1 DEF N!Rank, N!Precedence
<1>5. QED
  BY <1>2, <1>3, <1>4 DEF N!ResolvePrecedence

\* A figure does not conflict with itself.
LEMMA NoConflictWithItself ==
  ASSUME NEW v, field \in N!Series \/ v \in Int
  PROVE  ~N!ValuesConflict(v, v)
<1>1. CASE field \in N!Series
  BY <1>1 DEF N!ValuesConflict
<1>2. CASE field \notin N!Series
  <2> DEFINE m == N!S!Magnitude(v)
  <2>1. v \in Int /\ m \in Nat /\ N!S!Magnitude(v - v) = 0
    BY <1>2 DEF N!S!Magnitude
  <2>2. N!Max({m, m}) = m
    <3>1. \A x \in {m, m} : x = m
      OBVIOUS
    <3>2. QED
      BY <2>1, <3>1 DEF N!Max
  <2>3. QED
    BY <1>2, <2>1, <2>2 DEF N!ValuesConflict
<1>3. QED
  BY <1>1, <1>2

\* Estimates and averages fill a gap and leave a value alone.
LEMMA OnlyGapsAreFilled ==
  ASSUME N!InjectEstimates \/ N!InjectAverages, cell.value # None
  PROVE  cell' = cell
BY DEF N!InjectEstimates, N!InjectAverages, N!C!Estimates, N!C!Averages

LEMMA OverridesAreNamed ==
  ASSUME N!MergeOverride
  PROVE  cell'.provider \in N!OverrideSources
BY DEF N!MergeOverride, N!OverrideSources, N!C!Override, N!C!Cell

\* The four ways in which a filing meets a figure.
LEMMA FilingMeetsFigure ==
  ASSUME N!MergeSec, cell.value # None
  PROVE  \/ /\ ~N!ValuesConflict(cell.value, updates.value)
            /\ cell'.value = updates.value /\ updates.value # None
         \/ /\ cell'.value = None
            /\ N!ResolvePrecedence("sec_companyfacts", N!Source(cell)) = None
            /\ \E r \in conflicts' : r.base = cell.value /\ r.resolution = "unresolved"
         \/ /\ cell'.value = updates.value /\ updates.value # None
            /\ N!ResolvePrecedence("sec_companyfacts", N!Source(cell)) = "sec_companyfacts"
            /\ \E r \in conflicts' : /\ r.base = cell.value /\ r.sec = updates.value
                                     /\ r.resolution = "sec_precedence"
         \/ cell' = cell
<1> DEFINE sec == updates.value
           winner == N!ResolvePrecedence("sec_companyfacts", N!Source(cell))
           rec(resolution) == N!Record(cell, sec, resolution)
<1>1. \A x : rec(x).base = cell.value /\ rec(x).sec = sec /\ rec(x).resolution = x
  BY DEF N!Record
<1>2. \/ ~N!ValuesConflict(cell.value, sec) /\ cell' = N!SecCell(sec)
      \/ /\ winner = None
         /\ cell' = N!C!Cell(None, "conflict_detector", "missing", FALSE)
         /\ conflicts' = conflicts \cup {rec("unresolved")}
      \/ /\ winner = "sec_companyfacts" /\ cell' = N!SecCell(sec)
         /\ conflicts' = conflicts \cup {rec("sec_precedence")}
      \/ winner \notin {None, "sec_companyfacts"} /\ cell' = cell
  BY DEF N!MergeSec
<1>3. N!SecCell(sec).value = sec /\ updates.value # None
  BY DEF N!SecCell, N!C!Cell, N!MergeSec
<1> HIDE DEF rec, winner
<1>4. QED
  BY <1>1, <1>2, <1>3 DEF winner, N!C!Cell

\* A conflict that is recorded shows in the report.
LEMMA RecordsShow ==
  ASSUME NEW records, records # {}
  PROVE  N!ConflictReport(records) # "PASS"
BY DEF N!ConflictReport

LEMMA OtherFields == ASSUME N!File \/ N!RefreshSec PROVE cell' = cell /\ field' = field
BY DEF N!File, N!RefreshSec

\* A figure that is there is blanked or changed by more than the tolerance only
\* by an override, or under a record of both values that the conflict report
\* shows, in whatever order the payload is enriched and merged, however often
\* (sec/payload_merge.py, sources/conflict_detector.py).
THEOREM ChangesAreOnRecord == Spec => FiguresChangeOnRecord
<1>1. ASSUME N!EnrichmentStep, cell.value # None, cell'.value # cell.value
      PROVE  \/ cell'.provider \in N!OverrideSources
             \/ cell'.value # None /\ ~N!ValuesConflict(cell.value, cell'.value)
             \/ /\ \E r \in conflicts' :
                     r.base = cell.value /\ (IF cell'.value = None THEN r.resolution = "unresolved"
                                             ELSE r.sec = cell'.value /\ r.resolution = "sec_precedence")
                /\ N!ConflictReport(conflicts') # "PASS"
  <2>1. CASE N!InjectEstimates \/ N!InjectAverages
    BY <1>1, <2>1, OnlyGapsAreFilled
  <2>2. CASE N!MergeOverride
    BY <2>2, OverridesAreNamed
  <2>3. CASE N!File \/ N!RefreshSec
    BY <1>1, <2>3, OtherFields
  <2>4. CASE N!MergeSec
    BY <1>1, <2>4, FilingMeetsFigure, RecordsShow
  <2>5. QED
    BY <1>1, <2>1, <2>2, <2>3, <2>4 DEF N!EnrichmentStep
<1>2. [Next]_vars => [subject.part = "payload" => N!FigureChangesOnRecord]_payload
  <2> SUFFICES ASSUME [Next]_vars, subject.part = "payload", payload' # payload
               PROVE  N!FigureChangesOnRecord
    OBVIOUS
  <2>1. N!EnrichmentStep
    BY OwnSteps
  <2>2. QED
    BY <1>1, <2>1 DEF N!FigureChangesOnRecord
<1>3. QED
  BY <1>2, PTL DEF Spec, FiguresChangeOnRecord

\* Only an override puts the name of the operator on a cell.
LEMMA BuiltUnnamed == \A c \in N!Built : c.provider # "manual_override"
<1> SUFFICES ASSUME NEW c \in N!Built PROVE c.provider # "manual_override"
  OBVIOUS
<1>1. \A r \in N!RateCells \cup {None} : r # None => r.provider = "curated_rates"
  <2>1. ASSUME NEW file, N!C!RiskFree(file) # None
        PROVE  N!C!RiskFree(file).provider = "curated_rates"
    BY <2>1 DEF N!C!RiskFree, N!C!Cell
  <2>2. ASSUME NEW file, N!C!EquityRiskPremium(file) # None
        PROVE  N!C!EquityRiskPremium(file).provider = "curated_rates"
    BY <2>2 DEF N!C!EquityRiskPremium, N!C!Cell
  <2>3. QED
    BY <2>1, <2>2 DEF N!RateCells
<1>2. \/ \E v : \E r \in N!RateCells \cup {None} : c = N!LiveCell(v, r)
      \/ \E v, a, r, b, o : c = N!RecordedCell(v, a, r, b, o)
  BY DEF N!Built
<1>3. ASSUME NEW v, NEW r \in N!RateCells \cup {None}, c = N!LiveCell(v, r)
      PROVE  c.provider # "manual_override"
  BY <1>1, <1>3 DEF N!LiveCell, N!C!Cell
<1>4. ASSUME NEW v, NEW a, NEW r, NEW b, NEW o, c = N!RecordedCell(v, a, r, b, o)
      PROVE  c.provider # "manual_override"
  BY <1>4, NoneAssumption DEF N!RecordedCell, N!C!Cell
<1>5. QED
  BY <1>2, <1>3, <1>4

LEMMA PayloadBegins == Init => PayloadInv
<1> SUFFICES ASSUME Init, subject.part = "payload" PROVE PayloadInv
  BY DEF PayloadInv
<1>1. N!EnrichmentInit
  BY DEF Init
<1>2. QED
  BY <1>1, BuiltUnnamed DEF N!EnrichmentInit, PayloadInv

LEMMA PayloadNext == PayloadInv /\ [Next]_vars => PayloadInv'
<1> SUFFICES ASSUME PayloadInv, [Next]_vars, subject.part = "payload" PROVE PayloadInv'
  BY PartsStay DEF PayloadInv
<1> USE DEF PayloadInv
<1>1. subject' = subject /\ (N!EnrichmentStep \/ UNCHANGED payload)
  BY PartsStay, OwnSteps
<1>2. CASE cell' = cell /\ field' = field
  BY <1>2
<1>3. CASE cell'.provider # "manual_override" /\ field' = field
  BY <1>3
<1>4. CASE N!MergeOverride
  BY <1>4, OverridesAssumption DEF N!MergeOverride, N!C!Override, N!C!Cell
<1>5. CASE N!InjectEstimates
  <2>1. field' = field /\ (cell' = cell \/ cell'.provider = "manual_estimates_pack")
    BY <1>5 DEF N!InjectEstimates, N!C!Estimates, N!C!Cell
  <2>2. QED
    BY <1>2, <1>3, <2>1
<1>6. CASE N!InjectAverages
  <2>1. field' = field /\ (cell' = cell \/ cell'.provider = "curated_averages")
    BY <1>6 DEF N!InjectAverages, N!C!Averages, N!C!Cell
  <2>2. QED
    BY <1>2, <1>3, <2>1
<1>7. CASE N!MergeSec
  <2>1. /\ field' = field
        /\ cell' = cell \/ cell'.provider \in {"sec_companyfacts", "conflict_detector"}
    BY <1>7 DEF N!MergeSec, N!SecCell, N!C!Cell
  <2>2. QED
    BY <1>2, <1>3, <2>1
<1>8. CASE N!File \/ N!RefreshSec
  BY <1>2, <1>8, OtherFields
<1>9. CASE UNCHANGED payload
  BY <1>2, <1>9 DEF payload
<1>10. QED
  BY <1>1, <1>4, <1>5, <1>6, <1>7, <1>8, <1>9 DEF N!EnrichmentStep

\* While a value carries the name of the operator, filings, packs and averages
\* leave it alone but for the tolerance of the conflict detector, however the
\* commands follow each other (config/source_registry.yaml).
THEOREM OperatorsOutrank == Spec => OperatorOutranksFilings
<1>1. ASSUME PayloadInv, subject.part = "payload", N!EnrichmentStep,
             cell.provider = "manual_override", cell.value # None
      PROVE  \/ cell'.provider \in N!OverrideSources
             \/ cell'.value # None /\ ~N!ValuesConflict(cell.value, cell'.value)
  <2>1. CASE cell' = cell
    <3>1. field \in N!Series \/ cell.value \in Int
      BY <1>1 DEF PayloadInv
    <3>2. QED
      BY <1>1, <2>1, <3>1, NoConflictWithItself
  <2>2. CASE N!InjectEstimates \/ N!InjectAverages
    BY <1>1, <2>1, <2>2, OnlyGapsAreFilled
  <2>3. CASE N!MergeOverride
    BY <2>3, OverridesAreNamed
  <2>4. CASE N!File \/ N!RefreshSec
    BY <2>1, <2>4, OtherFields
  <2>5. CASE N!MergeSec
    <3>1. N!Source(cell) = "manual_override"
      BY <1>1, NoneAssumption DEF N!Source
    <3>2. N!ResolvePrecedence("sec_companyfacts", N!Source(cell)) = "manual_override"
      BY <3>1, Sources
    <3>3. \/ cell' = cell
          \/ /\ ~N!ValuesConflict(cell.value, updates.value)
             /\ cell'.value = updates.value /\ updates.value # None
      BY <1>1, <2>5, <3>2, FilingMeetsFigure, NoneAssumption
    <3>4. QED
      BY <2>1, <3>3
  <2>6. QED
    BY <1>1, <2>2, <2>3, <2>4, <2>5 DEF N!EnrichmentStep
<1>2. PayloadInv /\ [Next]_vars => [subject.part = "payload" => N!OperatorOutranksFiling]_payload
  <2> SUFFICES ASSUME PayloadInv, [Next]_vars, subject.part = "payload", payload' # payload
               PROVE  N!OperatorOutranksFiling
    OBVIOUS
  <2>1. N!EnrichmentStep
    BY OwnSteps
  <2>2. QED
    BY <1>1, <2>1 DEF N!OperatorOutranksFiling
<1>3. QED
  BY <1>2, PayloadBegins, PayloadNext, PTL DEF Spec, OperatorOutranksFilings

-----------------------------------------------------------------------------
(* The filings of a company *)

LEMMA FilingsBegin == Init => FilingsInv
<1> SUFFICES ASSUME Init, subject.part = "payload"
             PROVE  field \in N!Fields /\ facts \subseteq Filings(field) /\ IsFiniteSet(facts)
  BY DEF FilingsInv
<1>1. N!EnrichmentInit
  BY DEF Init
<1>2. QED
  BY <1>1, FS_EmptySet DEF N!EnrichmentInit

\* The company only ever files more.
LEMMA FilingsGrow ==
  ASSUME FilingsInv, [Next]_vars, subject.part = "payload"
  PROVE  field' = field /\ facts \subseteq facts' /\ facts' \subseteq Filings(field) /\ IsFiniteSet(facts')
<1> USE DEF FilingsInv
<1>1. N!EnrichmentStep \/ UNCHANGED payload
  BY PartsStay, OwnSteps
<1>2. CASE field' = field /\ facts' = facts
  BY <1>2
<1>3. CASE N!File
  <2>1. field' = field /\ \E f \in Filings(field) \ facts : facts' = facts \cup {f}
    BY <1>3 DEF N!File
  <2>2. QED
    BY <2>1, FS_AddElement
<1>4. CASE N!InjectEstimates \/ N!InjectAverages \/ N!MergeOverride \/ N!RefreshSec \/ N!MergeSec
  <2>1. field' = field /\ facts' = facts
    BY <1>4 DEF N!InjectEstimates, N!InjectAverages, N!MergeOverride, N!RefreshSec, N!MergeSec
  <2>2. QED
    BY <1>2, <2>1
<1>5. CASE UNCHANGED payload
  BY <1>2, <1>5 DEF payload
<1>6. QED
  BY <1>1, <1>3, <1>4, <1>5 DEF N!EnrichmentStep

LEMMA FilingsNext == FilingsInv /\ [Next]_vars => FilingsInv'
<1> SUFFICES ASSUME FilingsInv, [Next]_vars, subject.part = "payload" PROVE FilingsInv'
  BY PartsStay DEF FilingsInv
<1>1. field' = field /\ facts' \subseteq Filings(field) /\ IsFiniteSet(facts')
  BY FilingsGrow
<1>2. QED
  BY <1>1 DEF FilingsInv

\* Finitely many facts, each with its dates.
OnFile(X) ==
  IsFiniteSet(X) /\ \A f \in X : f.filed \in Int /\ f.end \in Int /\ f.fy \in Int \cup {None}

LEMMA FactsAreRecorded ==
  ASSUME FilingsInv, subject.part = "payload" PROVE OnFile(facts)
BY FilingsAssumption DEF FilingsInv, OnFile

\* Of some facts there is a latest.
LEMMA LatestExists ==
  ASSUME NEW X, OnFile(X), X # {}
  PROVE  /\ N!S!SelectLatest(X) \in X
         /\ \A f \in X : ~N!S!Later(f, N!S!SelectLatest(X))
<1> DEFINE rel == {p \in X \X X : N!S!Later(p[2], p[1])}
<1>1. \A f \in X : N!S!Year(f) \in Int /\ f.filed \in Int /\ f.end \in Int
  BY DEF OnFile, N!S!Year
<1>2. Strict(rel, X)
  BY <1>1 DEF Strict, N!S!Later
<1>3. \E last \in X : \A f \in X : <<last, f>> \notin rel
  BY <1>2, LastExists DEF OnFile
<1>4. \E last \in X : \A f \in X : ~N!S!Later(f, last)
  BY <1>3
<1>5. QED
  BY <1>4 DEF N!S!SelectLatest

\* Net income is filed under two tags.
LEMMA NetIncomeTags == DOMAIN N!S!FieldTags.net_income = {1, 2}
BY DEF N!S!FieldTags

LEMMA FirstOfTwo == ASSUME NEW X \in SUBSET {1, 2}, X # {} PROVE N!S!Min(X) \in X
<1>1. X = {1} \/ X = {2} \/ X = {1, 2}
  OBVIOUS
<1>2. (1 \in X /\ \A y \in X : 1 <= y) \/ (2 \in X /\ \A y \in X : 2 <= y)
  BY <1>1
<1>3. QED
  BY <1>2 DEF N!S!Min

\* A larger set of facts has no earlier latest fact under the same tag.
LEMMA LatestGrows ==
  ASSUME NEW X, NEW Y, X \subseteq Y, OnFile(X), OnFile(Y),
         N!S!Used(X, N!S!FieldTags.net_income) # {},
         N!S!TagOf(Y, N!S!FieldTags.net_income) = N!S!TagOf(X, N!S!FieldTags.net_income)
  PROVE  N!S!Year(N!S!LatestFact(Y, N!S!FieldTags.net_income))
           >= N!S!Year(N!S!LatestFact(X, N!S!FieldTags.net_income))
<1> DEFINE tags == N!S!FieldTags.net_income
           tag  == N!S!TagOf(X, tags)
           old  == N!S!Annual(X, tag)
           new  == N!S!Annual(Y, tag)
<1>1. old \subseteq new /\ new \subseteq Y
  BY DEF N!S!Annual
<1>2. old # {}
  <2>1. N!S!Used(X, tags) \in SUBSET {1, 2}
    BY NetIncomeTags DEF N!S!Used
  <2>2. N!S!Min(N!S!Used(X, tags)) \in N!S!Used(X, tags)
    BY <2>1, FirstOfTwo
  <2>3. QED
    BY <2>2 DEF N!S!Used, N!S!TagOf
<1>3. N!S!Used(Y, tags) # {}
  BY DEF N!S!Used, N!S!Annual
<1>4. N!S!LatestFact(X, tags) = N!S!SelectLatest(old) /\ N!S!LatestFact(Y, tags) = N!S!SelectLatest(new)
  BY <1>3 DEF N!S!LatestFact
<1>5. OnFile(old) /\ OnFile(new)
  BY <1>1, FS_Subset DEF OnFile
<1> HIDE DEF old, new
<1>6. /\ N!S!SelectLatest(old) \in new /\ N!S!SelectLatest(new) \in new
      /\ ~N!S!Later(N!S!SelectLatest(old), N!S!SelectLatest(new))
  <2>1. N!S!SelectLatest(old) \in new
    BY <1>1, <1>2, <1>5, LatestExists
  <2>2. new # {}
    BY <2>1
  <2>3. QED
    BY <1>5, <2>1, <2>2, LatestExists
<1>7. \A f \in new : N!S!Year(f) \in Int
  BY <1>5 DEF OnFile, N!S!Year
<1>8. N!S!Year(N!S!SelectLatest(new)) >= N!S!Year(N!S!SelectLatest(old))
  BY <1>6, <1>7 DEF N!S!Later
<1>9. QED
  BY <1>4, <1>8

\* A series has a fact for each of the last years.
LEMMA SeriesLength ==
  ASSUME NEW X, OnFile(X), N!S!Usable(X, N!S!FieldTags.net_income) # {}
  PROVE  LET years == N!S!Years(X, N!S!SeriesTag(X, N!S!FieldTags.net_income))
         IN /\ IsFiniteSet(years) /\ Cardinality(years) \in Nat
            /\ Len(N!S!AnnualSeries(X, N!S!FieldTags.net_income, 5)) =
                 IF Cardinality(years) > 5 THEN 5 ELSE Cardinality(years)
<1> DEFINE tags  == N!S!FieldTags.net_income
           tag   == N!S!SeriesTag(X, tags)
           dated == N!S!Dated(X, tag)
           years == N!S!Years(X, tag)
           count == Cardinality(years)
           order == N!S!Ascending(years)
           chosen == [k \in DOMAIN order |-> N!S!SelectLatest({f \in dated : f.fy = order[k]})]
           rel == {p \in years \X years : p[1] < p[2]}
<1>1. IsFiniteSet(dated) /\ dated \subseteq X
  BY FS_Subset DEF OnFile, N!S!Dated, N!S!Annual
<1>2. years \subseteq Int
  BY DEF OnFile, N!S!Years, N!S!Dated, N!S!Annual
<1>3. IsFiniteSet(years) /\ count \in Nat
  <2>1. years = {f.fy : f \in dated}
    BY DEF N!S!Years
  <2> HIDE DEF dated
  <2> DEFINE yearOf == [f \in dated |-> f.fy]
  <2>2. yearOf \in Surjection(dated, years)
    BY <2>1 DEF Surjection
  <2>3. IsFiniteSet(years)
    BY <1>1, <2>2, FS_Surjection
  <2>4. QED
    BY <2>3, FS_CardinalityType
<1> HIDE DEF years
<1>4. Linear(rel, years)
  BY <1>2 DEF Linear, Strict
<1>5. \E q \in [1..count -> years] : \A i, j \in DOMAIN q : i < j => q[i] < q[j]
  <2>1. PICK q \in [1..count -> years] : \A i, j \in DOMAIN q : i < j => <<q[i], q[j]>> \in rel
    BY <1>3, <1>4, OrderExists
  <2>2. QED
    BY <2>1
<1>6. order \in [1..count -> years]
  <2>1. N!S!Cardinality(years) = count
    BY DEF Cardinality, N!S!Cardinality
  <2>2. QED
    BY <1>5, <2>1 DEF N!S!Ascending
<1>7. DOMAIN chosen = 1..count
  BY <1>6
<1>8. chosen \in Seq({chosen[k] : k \in 1..count}) /\ Len(chosen) = count
  <2> HIDE DEF chosen, count
  <2>1. chosen = [k \in 1..count |-> chosen[k]]
    BY <1>7 DEF chosen
  <2>2. QED
    BY <1>3, <2>1
<1>9. N!S!AnnualSeries(X, tags, 5) = SubSeq(chosen, IF Len(chosen) > 5 THEN Len(chosen) - 5 + 1 ELSE 1, Len(chosen))
  BY DEF N!S!AnnualSeries, years
<1> HIDE DEF chosen, count
<1>10. Len(N!S!AnnualSeries(X, tags, 5)) = IF count > 5 THEN 5 ELSE count
  BY <1>3, <1>8, <1>9
<1>11. QED
  BY <1>3, <1>10 DEF count, years

\* A larger set of facts has no fewer years under the same tag.
LEMMA SeriesGrows ==
  ASSUME NEW X, NEW Y, X \subseteq Y, OnFile(X), OnFile(Y),
         N!S!Usable(X, N!S!FieldTags.net_income) # {},
         N!S!SeriesTag(Y, N!S!FieldTags.net_income) = N!S!SeriesTag(X, N!S!FieldTags.net_income)
  PROVE  Len(N!S!AnnualSeries(Y, N!S!FieldTags.net_income, 5))
           >= Len(N!S!AnnualSeries(X, N!S!FieldTags.net_income, 5))
<1> DEFINE tags == N!S!FieldTags.net_income
           old  == N!S!Years(X, N!S!SeriesTag(X, tags))
           new  == N!S!Years(Y, N!S!SeriesTag(Y, tags))
<1>1. N!S!Usable(Y, tags) # {}
  BY DEF N!S!Usable, N!S!Dated, N!S!Annual
<1>2. old \subseteq new
  BY DEF N!S!Years, N!S!Dated, N!S!Annual
<1>3. /\ IsFiniteSet(new) /\ Cardinality(new) \in Nat /\ Cardinality(old) \in Nat
      /\ Len(N!S!AnnualSeries(X, tags, 5)) = IF Cardinality(old) > 5 THEN 5 ELSE Cardinality(old)
      /\ Len(N!S!AnnualSeries(Y, tags, 5)) = IF Cardinality(new) > 5 THEN 5 ELSE Cardinality(new)
  BY <1>1, SeriesLength
<1> HIDE DEF old, new
<1>4. Cardinality(old) <= Cardinality(new)
  BY <1>2, <1>3, FS_Subset
<1>5. QED
  BY <1>3, <1>4

\* Whatever a company files, and in whatever order, no filing moves a statement
\* back to an earlier year of its tag or shortens a history of its tag
\* (sec/xbrl_tag_resolver.py).
THEOREM AmendmentsAdd == Spec => AmendmentsNeverRewind
<1>1. FilingsInv /\ [Next]_vars => [subject.part = "payload" => N!AmendmentRewindsNothing]_payload
  <2> SUFFICES ASSUME FilingsInv, [Next]_vars, subject.part = "payload"
               PROVE  N!AmendmentRewindsNothing
    OBVIOUS
  <2> DEFINE tags == N!S!FieldTags.net_income
  <2>1. facts \subseteq facts' /\ OnFile(facts) /\ OnFile(facts')
    <3>1. facts \subseteq facts' /\ facts' \subseteq Filings(field) /\ IsFiniteSet(facts')
      BY FilingsGrow
    <3>2. OnFile(facts')
      BY <3>1, FilingsAssumption DEF FilingsInv, OnFile
    <3>3. QED
      BY <3>1, <3>2, FactsAreRecorded
  <2>2. /\ N!S!TagOf(facts, tags)' = N!S!TagOf(facts', tags)
        /\ N!S!SeriesTag(facts, tags)' = N!S!SeriesTag(facts', tags)
        /\ N!S!Year(N!S!LatestFact(facts, tags)') = N!S!Year(N!S!LatestFact(facts', tags))
        /\ Len(N!S!AnnualSeries(facts, tags, 5)') = Len(N!S!AnnualSeries(facts', tags, 5))
    OBVIOUS
  <2>3. ASSUME N!S!Used(facts, tags) # {}, N!S!TagOf(facts', tags) = N!S!TagOf(facts, tags)
        PROVE  N!S!Year(N!S!LatestFact(facts', tags)) >= N!S!Year(N!S!LatestFact(facts, tags))
    BY <2>1, <2>3, LatestGrows
  <2>4. ASSUME N!S!Usable(facts, tags) # {}, N!S!SeriesTag(facts', tags) = N!S!SeriesTag(facts, tags)
        PROVE  Len(N!S!AnnualSeries(facts', tags, 5)) >= Len(N!S!AnnualSeries(facts, tags, 5))
    BY <2>1, <2>4, SeriesGrows
  <2>5. QED
    BY <2>2, <2>3, <2>4 DEF N!AmendmentRewindsNothing
<1>2. QED
  BY <1>1, FilingsBegin, FilingsNext, PTL DEF Spec, AmendmentsNeverRewind

-----------------------------------------------------------------------------
(* The comparison of two runs *)

LEMMA ComparisonBegins == Init => ComparisonInv
<1> SUFFICES ASSUME Init, subject.part = "comparison" PROVE ComparisonInv
  BY DEF ComparisonInv
<1>1. evidence = [previous |-> None, current |-> None]
  BY EvidenceParts DEF Init, DeskInit
<1>2. QED
  BY <1>1 DEF ComparisonInv

LEMMA ComparisonNext == ComparisonInv /\ [Next]_vars => ComparisonInv'
<1> SUFFICES ASSUME ComparisonInv, [Next]_vars, subject.part = "comparison" PROVE ComparisonInv'
  BY PartsStay DEF ComparisonInv
<1>1. CASE NextRun
  BY <1>1, PartsStay DEF NextRun, ComparisonInv
<1>2. CASE UNCHANGED <<subject, evidence>>
  BY <1>2 DEF ComparisonInv
<1>3. QED
  BY <1>1, <1>2, OwnSteps

LEMMA SameCounts == \A X : Q!Cardinality(X) = Cardinality(X)
BY DEF Cardinality, Q!Cardinality

\* The results a run has on an axis.
LEMMA HavingSome ==
  ASSUME NEW run \in Runs, NEW axis
  PROVE  LET pass == Q!Having(run, axis, {"PASS"})
             fail == Q!Having(run, axis, {"FAIL"})
             both == Q!Having(run, axis, {"PASS", "FAIL"})
         IN /\ Cardinality(pass) \in Nat /\ Cardinality(fail) \in Nat
            /\ Cardinality(both) = Cardinality(pass) + Cardinality(fail)
<1> DEFINE pass == Q!Having(run, axis, {"PASS"})
           fail == Q!Having(run, axis, {"FAIL"})
           both == Q!Having(run, axis, {"PASS", "FAIL"})
<1>1. IsFiniteSet(pass) /\ IsFiniteSet(fail)
  <2>1. pass \subseteq DOMAIN run.results /\ fail \subseteq DOMAIN run.results
    BY DEF Q!Having
  <2>2. QED
    BY <2>1, RunsAssumption, FS_Subset
<1>2. both = pass \cup fail /\ pass \cap fail = {}
  BY DEF Q!Having
<1>3. Cardinality(pass \cap fail) = 0
  BY <1>2, FS_EmptySet
<1> HIDE DEF pass, fail, both
<1>4. Cardinality(pass) \in Nat /\ Cardinality(fail) \in Nat
  BY <1>1, FS_CardinalityType
<1>5. Cardinality(both) = Cardinality(pass) + Cardinality(fail)
  <2>1. Cardinality(both) = Cardinality(pass) + Cardinality(fail) - Cardinality(pass \cap fail)
    BY <1>1, <1>2, FS_Union
  <2>2. QED
    BY <1>3, <1>4, <2>1
<1>6. QED
  BY <1>4, <1>5 DEF pass, fail, both

\* What a comparison without a change says of two audits.
LEMMA NothingChanged ==
  ASSUME NEW p \in Runs, NEW c \in Runs,
         Q!MaterialChanges(Q!AuditArtifact(p), Q!AuditArtifact(c)) = 0
  PROVE  \A axis \in Q!AxesOf(c) :
           ~Q!AxisDiffers(Q!AuditArtifact(p).scores[axis], Q!AuditArtifact(c).scores[axis])
<1> DEFINE prev == Q!AuditArtifact(p)
           curr == Q!AuditArtifact(c)
           changed == Q!ScoreChanges(prev, curr)
<1>1. /\ DOMAIN prev.scores = Q!AxesOf(p) /\ DOMAIN curr.scores = Q!AxesOf(c)
      /\ prev.checks = <<>> /\ curr.checks = <<>>
      /\ prev.parts = [provider_profile |-> p.provider] /\ curr.parts = [provider_profile |-> c.provider]
      /\ prev.lineage = p.lineage /\ curr.lineage = c.lineage
      /\ prev.warnings = {} /\ curr.warnings = {}
      /\ prev.missing = p.missing /\ curr.missing = c.missing
  BY DEF Q!AuditArtifact
<1>2. Q!AxesOf(p) = Q!AxesOf(c)
  BY RunsAssumption DEF Q!AxesOf
<1>3. IsFiniteSet(Q!AxesOf(c))
  <2> DEFINE axis == [x \in DOMAIN c.results |-> x[1]]
  <2>1. IsFiniteSet(DOMAIN c.results)
    BY RunsAssumption
  <2>2. axis \in Surjection(DOMAIN c.results, Q!AxesOf(c))
    BY DEF Q!AxesOf, Surjection
  <2>3. QED
    BY <2>1, <2>2, FS_Surjection
<1>4. Q!ChecksChanges(prev, curr).changed = {}
  BY <1>1 DEF Q!ChecksChanges, Q!CheckMap
<1> DEFINE Renamed == {f \in {"hash", "provider"} : prev[f] # curr[f]}
           Remade == Q!ComponentChanges(prev, curr)
           Resourced == Q!LineageChanges(prev, curr)
           Warned == Q!SymmetricDifference(prev.warnings, curr.warnings)
           Missed == Q!SymmetricDifference(prev.missing, curr.missing)
<1>5. IsFiniteSet(Renamed) /\ IsFiniteSet(Remade) /\ IsFiniteSet(Warned)
  <2>1. Renamed \subseteq {"hash", "provider"} /\ Remade \subseteq {"provider_profile"} /\ Warned = {}
    BY <1>1 DEF Q!ComponentChanges, Q!SymmetricDifference
  <2>2. IsFiniteSet({"hash", "provider"}) /\ IsFiniteSet({"provider_profile"})
    <3>1. IsFiniteSet({"hash"}) /\ IsFiniteSet({"provider"}) /\ IsFiniteSet({"provider_profile"})
      BY FS_Singleton
    <3>2. IsFiniteSet({"hash"} \cup {"provider"})
      BY <3>1, FS_Union
    <3>3. {"hash", "provider"} = {"hash"} \cup {"provider"}
      OBVIOUS
    <3>4. QED
      BY <3>1, <3>2, <3>3
  <2>3. QED
    BY <2>1, <2>2, FS_Subset, FS_EmptySet
<1>6. IsFiniteSet(Resourced)
  <2>1. Resourced \subseteq DOMAIN p.lineage \cup DOMAIN c.lineage
    BY <1>1 DEF Q!LineageChanges
  <2>2. IsFiniteSet(DOMAIN p.lineage \cup DOMAIN c.lineage)
    BY RunsAssumption, FS_Union
  <2>3. QED
    BY <2>1, <2>2, FS_Subset
<1>7. IsFiniteSet(Missed)
  <2>1. Missed \subseteq p.missing \cup c.missing
    BY <1>1 DEF Q!SymmetricDifference
  <2>2. IsFiniteSet(p.missing \cup c.missing)
    BY RunsAssumption, FS_Union
  <2>3. QED
    BY <2>1, <2>2, FS_Subset
<1>8. IsFiniteSet(changed)
  <2>1. changed \subseteq Q!AxesOf(c)
    BY <1>1, <1>2 DEF Q!ScoreChanges
  <2>2. QED
    BY <1>3, <2>1, FS_Subset
<1>9. changed = {}
  <2>1. Cardinality(Renamed) + Cardinality(changed) + Cardinality({}) + Cardinality(Remade)
          + Cardinality(Resourced) + Cardinality(Warned) + Cardinality(Missed) = 0
    BY <1>4, SameCounts DEF Q!MaterialChanges
  <2> HIDE DEF Renamed, Remade, Resourced, Warned, Missed, changed
  <2>2. /\ Cardinality(Renamed) \in Nat /\ Cardinality(changed) \in Nat /\ Cardinality({}) \in Nat
        /\ Cardinality(Remade) \in Nat /\ Cardinality(Resourced) \in Nat /\ Cardinality(Warned) \in Nat
        /\ Cardinality(Missed) \in Nat
    BY <1>5, <1>6, <1>7, <1>8, FS_EmptySet, FS_CardinalityType
  <2>3. Cardinality(changed) = 0
    BY <2>1, <2>2
  <2>4. QED
    BY <1>8, <2>3, FS_EmptySet
<1>10. QED
  BY <1>1, <1>2, <1>9 DEF Q!ScoreChanges, Q!At

\* The number of unknown checks of an audit that compares as unchanged.
LEMMA NothingUnknown ==
  ASSUME NEW p \in Runs, NEW c \in Runs,
         ~Q!UnknownPreserved(Q!AuditArtifact(p), Q!AuditArtifact(c))
  PROVE  c.missing = {} /\ \A x \in DOMAIN c.results : c.results[x] # "UNKNOWN"
<1> DEFINE curr == Q!AuditArtifact(c)
           unknowns == {x \in DOMAIN c.results : c.results[x] = "UNKNOWN"}
<1>1. curr.unknown = Cardinality(unknowns) /\ curr.missing = c.missing
  BY SameCounts DEF Q!AuditArtifact
<1>2. IsFiniteSet(unknowns)
  BY RunsAssumption, FS_Subset
<1>3. Cardinality(unknowns) \in Nat
  BY <1>2, FS_CardinalityType
<1>4. Q!UnknownCount(curr) = Cardinality(unknowns) /\ Cardinality(unknowns) # None
  BY <1>1, <1>3, NoneAssumption DEF Q!UnknownCount
<1>5. Q!UnknownCount(curr) \in {None, 0} /\ curr.missing = {}
  BY DEF Q!UnknownPreserved
<1>6. unknowns = {}
  BY <1>2, <1>4, <1>5, FS_EmptySet
<1>7. QED
  BY <1>1, <1>5, <1>6

LEMMA ComparisonImplies == ComparisonInv => ComparisonIsHonest
<1> DEFINE p == evidence.previous
           c == evidence.current
<1> SUFFICES ASSUME ComparisonInv, subject.part = "comparison",
                    Q!CompareRuns(AuditOf(p), AuditOf(c)).status = "PASS"
             PROVE  /\ c.missing = {}
                    /\ \A x \in DOMAIN c.results : c.results[x] # "UNKNOWN"
                    /\ \A axis \in Q!AxesOf(c), r \in {"PASS", "FAIL"} :
                         Cardinality(Q!Having(p, axis, {r})) = Cardinality(Q!Having(c, axis, {r}))
  BY DEF ComparisonIsHonest
<1>1. AuditOf(p) # None /\ AuditOf(c) # None
  BY DEF Q!CompareRuns
<1>2. /\ p \in Runs /\ c \in Runs
      /\ AuditOf(p) = Q!AuditArtifact(p) /\ AuditOf(c) = Q!AuditArtifact(c)
  BY <1>1 DEF AuditOf, ComparisonInv
<1>3. /\ Q!MaterialChanges(Q!AuditArtifact(p), Q!AuditArtifact(c)) = 0
      /\ ~Q!UnknownPreserved(Q!AuditArtifact(p), Q!AuditArtifact(c))
  BY <1>1, <1>2 DEF Q!CompareRuns
<1> HIDE DEF p, c
<1>4. ASSUME NEW axis \in Q!AxesOf(c), NEW r \in {"PASS", "FAIL"}
      PROVE  Cardinality(Q!Having(p, axis, {r})) = Cardinality(Q!Having(c, axis, {r}))
  <2> DEFINE of(run) == [score    |-> Q!Cardinality(Q!Having(run, axis, {"PASS"})),
                         coverage |-> Q!Cardinality(Q!Having(run, axis, {"PASS", "FAIL"}))]
  <2>1. axis \in Q!AxesOf(p)
    BY <1>2, RunsAssumption DEF Q!AxesOf
  <2>2. /\ Q!AuditArtifact(p).scores[axis] = of(p)
        /\ Q!AuditArtifact(c).scores[axis] = of(c)
    BY <2>1 DEF Q!AuditArtifact
  <2>3. /\ of(p).score = Cardinality(Q!Having(p, axis, {"PASS"}))
        /\ of(c).score = Cardinality(Q!Having(c, axis, {"PASS"}))
        /\ of(p).coverage = Cardinality(Q!Having(p, axis, {"PASS", "FAIL"}))
        /\ of(c).coverage = Cardinality(Q!Having(c, axis, {"PASS", "FAIL"}))
    BY SameCounts
  <2>4. /\ Cardinality(Q!Having(p, axis, {"PASS"})) \in Nat
        /\ Cardinality(Q!Having(p, axis, {"FAIL"})) \in Nat
        /\ Cardinality(Q!Having(c, axis, {"PASS"})) \in Nat
        /\ Cardinality(Q!Having(c, axis, {"FAIL"})) \in Nat
        /\ of(p).coverage = of(p).score + Cardinality(Q!Having(p, axis, {"FAIL"}))
        /\ of(c).coverage = of(c).score + Cardinality(Q!Having(c, axis, {"FAIL"}))
    BY <1>2, <2>3, HavingSome
  <2>5. of(p) \in [score : Nat, coverage : Nat] /\ of(c) \in [score : Nat, coverage : Nat]
    BY <2>3, <2>4
  <2>6. ~Q!AxisDiffers(of(p), of(c))
    BY <1>2, <1>3, <2>2, NothingChanged
  <2> HIDE DEF of
  <2>7. of(p).score = of(c).score /\ of(p).coverage = of(c).coverage
    BY <2>5, <2>6, NoneAssumption DEF Q!AxisDiffers
  <2>8. \A a, f, g \in Nat : a + f = a + g => f = g
    OBVIOUS
  <2>9. Cardinality(Q!Having(p, axis, {"FAIL"})) = Cardinality(Q!Having(c, axis, {"FAIL"}))
    BY <2>3, <2>4, <2>7, <2>8
  <2>10. QED
    BY <2>3, <2>7, <2>9
<1>5. QED
  BY <1>2, <1>3, <1>4, NothingUnknown

\* Two audits compare as unchanged only when no check of the later one is
\* unknown, none of its inputs is missing, and on each axis as many checks passed
\* and as many failed as before, for any number of checks and axes
\* (research/run_comparison.py).
THEOREM ComparisonsAreHonest == Spec => []ComparisonIsHonest
BY ComparisonBegins, ComparisonNext, ComparisonImplies, PTL DEF Spec

-----------------------------------------------------------------------------
(* The workflow package and the release manifest *)

LEMMA PackageBegins == Init => PackageInv
<1> SUFFICES ASSUME Init, subject.part = "package" PROVE PackageInv
  BY DEF PackageInv
<1>1. evidence = Without(Packaged)
  BY EvidenceParts DEF Init, DeskInit
<1>2. QED
  BY <1>1 DEF PackageInv, Without

LEMMA PackageNext == PackageInv /\ [Next]_vars => PackageInv'
<1> SUFFICES ASSUME PackageInv, [Next]_vars, subject.part = "package" PROVE PackageInv'
  BY PartsStay DEF PackageInv
<1>1. CASE ArtifactArrives
  BY <1>1, PartsStay DEF ArtifactArrives, PackageInv
<1>2. CASE UNCHANGED <<subject, evidence>>
  BY <1>2 DEF PackageInv
<1>3. QED
  BY <1>1, <1>2, OwnSteps

LEMMA ReleaseBegins == Init => ReleaseInv
<1> SUFFICES ASSUME Init, subject.part = "release" PROVE ReleaseInv
  BY DEF ReleaseInv
<1>1. /\ \E argument, scope : \E registry \in Registries :
           subject = [part |-> "release", argument |-> argument, scope |-> scope, registry |-> registry]
      /\ evidence = [tree |-> [f \in IndexedFiles \cup UNION Capabilities |-> FALSE],
                     sources |-> Without(SourceIds), gates |-> None, proof |-> None]
  BY EvidenceParts DEF Init, DeskInit
<1>2. subject.registry \in Registries
  BY <1>1
<1>3. /\ DOMAIN evidence = {"tree", "sources", "gates", "proof"}
      /\ evidence.tree = [f \in IndexedFiles \cup UNION Capabilities |-> FALSE]
      /\ evidence.sources = [id \in SourceIds |-> None] /\ evidence.gates = None
  BY <1>1 DEF Without
<1>4. QED
  BY <1>2, <1>3 DEF ReleaseInv

LEMMA ReleaseNext == ReleaseInv /\ [Next]_vars => ReleaseInv'
<1> SUFFICES ASSUME ReleaseInv, [Next]_vars, subject.part = "release" PROVE ReleaseInv'
  BY PartsStay DEF ReleaseInv
<1> USE DEF ReleaseInv
<1>1. CASE \E f \in DOMAIN evidence.tree : evidence' = [evidence EXCEPT !.tree[f] = TRUE]
  <2>1. PICK f \in DOMAIN evidence.tree : evidence' = [evidence EXCEPT !.tree[f] = TRUE]
    BY <1>1
  <2>2. /\ DOMAIN evidence' = DOMAIN evidence
        /\ evidence'.tree = [evidence.tree EXCEPT ![f] = TRUE]
        /\ evidence'.sources = evidence.sources /\ evidence'.gates = evidence.gates
    BY <2>1
  <2>3. QED
    BY <2>2, PartsStay
<1>2. CASE \E id \in SourceIds, file \in {"marked", "real"} :
             evidence' = [evidence EXCEPT !.sources[id] = file]
  <2>1. PICK id \in SourceIds, file \in {"marked", "real"} :
          evidence' = [evidence EXCEPT !.sources[id] = file]
    BY <1>2
  <2>2. /\ DOMAIN evidence' = DOMAIN evidence
        /\ evidence'.sources = [evidence.sources EXCEPT ![id] = file]
        /\ evidence'.tree = evidence.tree /\ evidence'.gates = evidence.gates
    BY <2>1
  <2>3. QED
    BY <2>2, PartsStay
<1>3. CASE \E report \in {"gates", "proof"}, verdict \in {"PASS", "FAIL"} :
             evidence' = [evidence EXCEPT ![report] = verdict]
  BY <1>3, PartsStay
<1>4. CASE UNCHANGED <<subject, evidence>>
  BY <1>4
<1>5. QED
  BY <1>1, <1>2, <1>3, <1>4, OwnSteps DEF ReleaseGrows

LEMMA PackageIs ==
  \A c \in W!Components : Package[c] = IF c \in DOMAIN evidence THEN evidence[c] ELSE None
BY DEF Package, Without, Over

LEMMA PackageImplies ==
  ASSUME PackageInv, subject.part = "package", W!WorkflowPackage(Package).status = "PASS"
  PROVE  /\ evidence["audit_summary"] # None /\ ~evidence["audit_summary"].degraded
         /\ \A c \in W!Present(Package) : Package[c].unknown = 0 /\ Package[c].missing = {}
<1>1. Package["audit_summary"] # None /\ W!ReviewItems(Package) = {}
  BY DEF W!WorkflowPackage
<1>2. "audit_summary" \in W!Components
  BY DEF W!Components
<1>3. Package["audit_summary"] = evidence["audit_summary"]
  BY <1>1, <1>2, PackageIs
<1>4. ~Package["audit_summary"].degraded /\ W!CriticalMissing(Package) = {}
  BY <1>1 DEF W!ReviewItems
<1>5. ASSUME NEW c \in W!Present(Package)
      PROVE  Package[c].unknown = 0 /\ Package[c].missing = {}
  <2>1. c \in W!Components /\ Package[c] # None
    BY DEF W!Present
  <2>2. Package[c].unknown \in Nat
    BY <2>1, PackageIs, ArtifactsAssumption DEF PackageInv
  <2>3. W!ComponentStatus(c, Package) # "UNKNOWN_PRESENT"
    BY <1>1, <2>1 DEF W!ReviewItems
  <2>4. ~(Package[c].unknown > 0)
    BY <2>1, <2>3 DEF W!ComponentStatus
  <2>5. Package[c].missing = {}
    BY <1>4 DEF W!CriticalMissing
  <2>6. QED
    BY <2>2, <2>4, <2>5
<1>6. QED
  BY <1>1, <1>3, <1>4, <1>5

LEMMA ReleaseImplies ==
  ASSUME ReleaseInv, subject.part = "release", Manifest.reviews = {}
  PROVE  /\ Manifest.status = "MVP_COMPLETE"
         /\ \A f \in DOMAIN evidence.tree : evidence.tree[f]
         /\ evidence.gates = "PASS"
         /\ subject.argument = "auto" =>
              /\ subject.scope.commercial => subject.scope.reviewed
              /\ \A id \in DOMAIN subject.registry :
                   subject.registry[id].required /\ subject.registry[id].type # "live_provider"
                     => evidence.sources[id] = "real"
<1> DEFINE tree == {f \in IndexedFiles \cup UNION Capabilities : evidence.tree[f]}
           ready == G!ProductionReadiness(subject.argument, subject.scope,
                                          subject.registry, evidence.sources)
<1>1. /\ Manifest.reviews = W!ReleaseReviewItems(Capabilities, IndexedFiles, tree, ready, evidence.gates)
      /\ Manifest.status = W!ReleaseStatus(Capabilities, tree, ready)
  BY DEF Manifest, W!ReleaseManifest
<1> HIDE DEF tree, ready
<1>2. /\ \A g \in Capabilities : W!Capable(g, tree)
      /\ IndexedFiles \subseteq tree
      /\ ready = "PASS" /\ W!GateStatus(evidence.gates) \in {"PASS", "OK"}
  BY <1>1 DEF W!ReleaseReviewItems
<1>3. Manifest.status = "MVP_COMPLETE"
  BY <1>1, <1>2 DEF W!ReleaseStatus
<1>4. \A f \in DOMAIN evidence.tree : evidence.tree[f]
  BY <1>2 DEF W!Capable, tree, ReleaseInv
<1>5. evidence.gates = "PASS"
  BY <1>2 DEF W!GateStatus, ReleaseInv
<1>6. ASSUME subject.argument = "auto"
      PROVE  /\ G!LegalScopeStatus(subject.scope) = "PASS"
             /\ G!SourceRegistryStatus(subject.registry, evidence.sources) = "PASS"
  BY <1>2, <1>6 DEF ready, G!ProductionReadiness
<1>7. ASSUME subject.argument = "auto", subject.scope.commercial
      PROVE  subject.scope.reviewed
  BY <1>6, <1>7 DEF G!LegalScopeStatus
<1>8. ASSUME subject.argument = "auto", NEW id \in DOMAIN subject.registry,
             subject.registry[id].required, subject.registry[id].type # "live_provider"
      PROVE  evidence.sources[id] = "real"
  <2>1. subject.registry # None /\ G!Ready(subject.registry[id], evidence.sources[id])
    BY <1>6, <1>8 DEF G!SourceRegistryStatus
  <2>2. id \in SourceIds
    BY <2>1, RegistriesAssumption DEF ReleaseInv
  <2>3. evidence.sources[id] # None /\ evidence.sources[id] # "marked"
    BY <1>8, <2>1 DEF G!Ready, G!LooksTemplate
  <2>4. evidence.sources[id] \in {None, "marked", "real"}
    BY <2>2 DEF ReleaseInv
  <2>5. QED
    BY <2>3, <2>4
<1>9. QED
  BY <1>3, <1>4, <1>5, <1>7, <1>8

\* A package that passes has its audit, of a sound provider, and nothing in it
\* says unknown or misses an input; a release that leaves nothing to review is
\* complete, and its data are real and used where they may be, whatever files
\* arrived in whatever order (research/workflow_package.py, release/manifest.py).
THEOREM NothingIsHidden == Spec => []CleanPackagesHideNothing
<1>1. PackageInv /\ ReleaseInv => CleanPackagesHideNothing
  BY PackageImplies, ReleaseImplies DEF CleanPackagesHideNothing
<1>2. QED
  BY <1>1, PackageBegins, PackageNext, ReleaseBegins, ReleaseNext, PTL DEF Spec

-----------------------------------------------------------------------------
(* The fragility of a valuation *)

LEMMA SensitivityBegins == Init => SensitivityInv
<1> SUFFICES ASSUME Init, subject.part = "sensitivity"
             PROVE  /\ subject.of \in Companies /\ DOMAIN evidence = DOMAIN Drivers(subject.of)
                    /\ \A d \in DOMAIN evidence : evidence[d] \in Drivers(subject.of)[d] \cup {None}
  BY DEF SensitivityInv
<1>1. \E company \in Companies :
        subject = [part |-> "sensitivity", of |-> company] /\ evidence = Without(DOMAIN Drivers(company))
  BY EvidenceParts DEF Init, DeskInit
<1>2. QED
  BY <1>1 DEF Without

LEMMA SensitivityNext == SensitivityInv /\ [Next]_vars => SensitivityInv'
<1> SUFFICES ASSUME SensitivityInv, [Next]_vars, subject.part = "sensitivity" PROVE SensitivityInv'
  BY PartsStay DEF SensitivityInv
<1> USE DEF SensitivityInv
<1>1. subject' = subject /\ (DriverMoves \/ evidence' = evidence)
  BY PartsStay, OwnSteps
<1>2. CASE DriverMoves
  <2>1. PICK d \in DOMAIN evidence : \E x \in Drivers(subject.of)[d] : evidence' = [evidence EXCEPT ![d] = x]
    BY <1>2 DEF DriverMoves
  <2>2. QED
    BY <1>1, <2>1
<1>3. CASE evidence' = evidence
  BY <1>1, <1>3
<1>4. QED
  BY <1>1, <1>2, <1>3

LEMMA DriversAre ==
  ASSUME SensitivityInv, subject.part = "sensitivity"
  PROVE  /\ Numeric \cup {"company_type"} \subseteq DOMAIN ValuedOn
         /\ \A f \in {"discount_rate", "long_run_growth", "risk_free_rate", "equity_risk_premium"} :
              Small(ValuedOn[f])
         /\ ValuedOn.expected_dps \in Int \cup {None}
<1> DEFINE company == subject.of
<1>1. company \in Companies /\ DOMAIN evidence = DOMAIN Drivers(company)
      /\ \A d \in DOMAIN evidence : evidence[d] \in Drivers(company)[d] \cup {None}
  BY DEF SensitivityInv
<1>2. /\ DOMAIN ValuedOn = DOMAIN evidence \cup (DOMAIN company \cup ValuationFields)
      /\ \A f \in DOMAIN ValuedOn : ValuedOn[f] = IF f \in DOMAIN evidence THEN evidence[f]
                                                  ELSE IF f \in DOMAIN company THEN company[f] ELSE None
  BY DEF ValuedOn, Over, NoInputs, Without
<1>3. Numeric \subseteq ValuationFields
  BY InputsAreInputs
<1>4. "company_type" \in DOMAIN company
  BY <1>1, DriversAssumption DEF company
<1> HIDE DEF company
<1>5. ASSUME NEW f \in {"discount_rate", "long_run_growth", "risk_free_rate", "equity_risk_premium"}
      PROVE  Small(ValuedOn[f])
  <2>1. f \in DOMAIN ValuedOn
    BY <1>2, <1>3 DEF Numeric
  <2>2. Small(None)
    BY DEF Small
  <2>3. f \in DOMAIN evidence => Small(evidence[f])
    BY <1>1, <2>2, DriversAssumption
  <2>4. f \in DOMAIN company => Small(company[f])
    BY <1>1, DriversAssumption
  <2>5. QED
    BY <1>2, <2>1, <2>2, <2>3, <2>4
<1>6. ValuedOn.expected_dps \in Int \cup {None}
  <2>1. "expected_dps" \in DOMAIN ValuedOn
    BY <1>2, <1>3 DEF Numeric
  <2>2. QED
    BY <1>1, <1>2, <2>1, DriversAssumption
<1>7. QED
  BY <1>2, <1>3, <1>4, <1>5, <1>6

\* The rates of a valuation, where no given rate is zero.
LEMMA RatesAre ==
  ASSUME SensitivityInv, subject.part = "sensitivity", 0 \notin {ValuedOn.discount_rate, ValuedOn.long_run_growth},
         S!BaseRate(ValuedOn) # None, S!BaseGrowth(ValuedOn) # None
  PROVE  /\ S!BaseRate(ValuedOn) = S!V!DiscountRate(ValuedOn)
         /\ S!BaseGrowth(ValuedOn) = S!V!LongRunGrowth(ValuedOn)
         /\ S!BaseRate(ValuedOn) \in Int /\ S!BaseGrowth(ValuedOn) \in Int
         /\ S!BaseRate(ValuedOn) - S!BaseGrowth(ValuedOn) + 3 <= Scale
<1> DEFINE v == ValuedOn
           a == v.discount_rate
           b == v.long_run_growth
           f == v.risk_free_rate
           e == v.equity_risk_premium
<1>1. Small(a) /\ Small(b) /\ Small(f) /\ Small(e)
  BY DriversAre
<1>2. S!V!CostOfEquity(v) = None \/ (S!V!CostOfEquity(v) = f + e /\ f # None /\ e # None)
  BY DEF S!V!CostOfEquity, S!V!Given
<1>3. /\ S!V!DiscountRate(v) = IF a # None THEN a ELSE S!V!CostOfEquity(v)
      /\ S!V!LongRunGrowth(v) = IF b # None THEN b ELSE f
  BY DEF S!V!DiscountRate, S!V!LongRunGrowth, S!V!Given
<1>4. /\ S!BaseRate(v) = IF a # None THEN a ELSE S!V!CostOfEquity(v)
      /\ S!BaseGrowth(v) = IF b # None THEN b ELSE f
  BY DEF S!BaseRate, S!BaseGrowth, S!NonZero
<1> HIDE DEF v, a, b, f, e
<1>5. Scale \in Nat \ {0} /\ Scale % 60 = 0
  BY DriversAssumption
<1>6. Scale >= 60
  BY <1>5
<1>7. S!BaseRate(v) \in Int /\ S!BaseGrowth(v) \in Int /\ S!BaseRate(v) - S!BaseGrowth(v) + 3 <= Scale
  <2>1. S!BaseRate(v) \in Int /\ 6 * S!BaseRate(v) <= 2 * Scale
    BY <1>1, <1>2, <1>4, <1>5 DEF v, Small
  <2>2. S!BaseGrowth(v) \in Int /\ -6 * S!BaseGrowth(v) <= Scale
    BY <1>1, <1>4, <1>5 DEF v, Small
  <2>3. QED
    BY <1>5, <1>6, <2>1, <2>2
<1>8. QED
  BY <1>3, <1>4, <1>7 DEF v

\* A valuation reads its two rates and these fields.
Unmoved == (Numeric \cup {"company_type"}) \ {"discount_rate", "long_run_growth"}

LEMMA RatesMakeValues ==
  ASSUME NEW v, NEW w, \A f \in Unmoved : w[f] = v[f],
         S!V!DiscountRate(w) = S!V!DiscountRate(v), S!V!LongRunGrowth(w) = S!V!LongRunGrowth(v)
  PROVE  S!FairValue(w) = S!FairValue(v)
<1> DEFINE Same(f) == w[f] = v[f]
<1>1. /\ Same("ddm_growth") /\ Same("excess_returns_growth") /\ Same("fair_value")
      /\ Same("expected_dps") /\ Same("current_bve") /\ Same("stable_future_roe")
      /\ Same("stable_future_bve") /\ Same("company_type") /\ Same("bank_data")
  BY DEF Unmoved, Numeric
<1>2. /\ Same("shares_outstanding") /\ Same("fcf_estimates") /\ Same("capex_history")
      /\ Same("operating_cash_flow") /\ Same("affo_estimates") /\ Same("ffo_estimates")
      /\ Same("affo") /\ Same("ffo") /\ Same("nav_per_share")
  BY DEF Unmoved, Numeric
<1>3. /\ Same("earnings_estimates") /\ Same("current_earnings") /\ Same("earnings_history")
      /\ Same("roe_convergence")
  BY DEF Unmoved, Numeric
<1>4. S!V!Model(w) = S!V!Model(v)
  BY <1>1 DEF S!V!Model
<1>5. /\ S!V!OwnGrowth(w, w.ddm_growth) = S!V!OwnGrowth(v, v.ddm_growth)
      /\ S!V!OwnGrowth(w, w.excess_returns_growth) = S!V!OwnGrowth(v, v.excess_returns_growth)
  BY <1>1 DEF S!V!OwnGrowth
<1>6. S!V!TwoStagePossible(w) = S!V!TwoStagePossible(v)
  BY <1>2 DEF S!V!TwoStagePossible
<1>7. S!V!GrowthRoute(w) = S!V!GrowthRoute(v)
  BY <1>3 DEF S!V!GrowthRoute
<1>8. /\ \A x : S!V!FromEstimates(w, x) = S!V!FromEstimates(v, x)
      /\ \A x : S!V!FromBase(w, x) = S!V!FromBase(v, x)
  BY <1>6, <1>7 DEF S!V!FromEstimates, S!V!FromBase
<1>9. S!V!TwoStage(w) = S!V!TwoStage(v) /\ S!V!AffoVariant(w) = S!V!AffoVariant(v)
  BY <1>2, <1>8 DEF S!V!TwoStage, S!V!AffoVariant
<1>10. S!V!ExcessReturns(w) = S!V!ExcessReturns(v) /\ S!V!Ddm(w) = S!V!Ddm(v)
  BY <1>1, <1>2, <1>5 DEF S!V!ExcessReturns, S!V!Ddm
<1>11. S!V!Computable(w) = S!V!Computable(v)
  BY <1>4, <1>9, <1>10 DEF S!V!Computable
<1>12. QED
  BY <1>1, <1>4, <1>5, <1>11 DEF S!FairValue

\* The inputs of a scenario.
Varied(v, rate, growth) == [v EXCEPT !.discount_rate = rate, !.long_run_growth = growth]

LEMMA ScenarioInputs ==
  ASSUME NEW v, NEW rate \in Int, NEW growth \in Int, Numeric \cup {"company_type"} \subseteq DOMAIN v
  PROVE  /\ \A f \in Unmoved : Varied(v, rate, growth)[f] = v[f]
         /\ S!V!DiscountRate(Varied(v, rate, growth)) = rate
         /\ S!V!LongRunGrowth(Varied(v, rate, growth)) = growth
<1> DEFINE w == Varied(v, rate, growth)
<1>1. rate # None /\ growth # None
  BY DriversAssumption
<1>2. "discount_rate" \in DOMAIN v /\ "long_run_growth" \in DOMAIN v
  BY DEF Numeric
<1>3. w.discount_rate = rate /\ w.long_run_growth = growth
  BY <1>2 DEF Varied
<1>4. \A f \in Unmoved : w[f] = v[f]
  BY DEF Unmoved, Varied
<1> HIDE DEF w
<1>5. S!V!DiscountRate(w) = rate /\ S!V!LongRunGrowth(w) = growth
  BY <1>1, <1>3 DEF S!V!DiscountRate, S!V!LongRunGrowth, S!V!Given
<1>6. QED
  BY <1>4, <1>5 DEF w

LEMMA ScenariosAre ==
  /\ <<"base", 0, 0>> \in S!Scenarios /\ <<"bear", 2, -1>> \in S!Scenarios
  /\ <<"bull", -2, 1>> \in S!Scenarios
  /\ S!Scenarios = {<<"grid", 2, -1>>, <<"bear", 2, -1>>, <<"grid", 2, 0>>, <<"grid", 2, 1>>,
                    <<"grid", 0, -1>>, <<"grid", 0, 0>>, <<"base", 0, 0>>, <<"grid", 0, 1>>,
                    <<"grid", -2, -1>>, <<"grid", -2, 0>>, <<"grid", -2, 1>>, <<"bull", -2, 1>>}
<1>1. DOMAIN S!RangeCases = {"bear", "base", "bull"}
  BY DEF S!RangeCases
<1>2. /\ S!RangeCases["bear"][1] = 2 /\ S!RangeCases["bear"][2] = -1
      /\ S!RangeCases["base"][1] = 0 /\ S!RangeCases["base"][2] = 0
      /\ S!RangeCases["bull"][1] = -2 /\ S!RangeCases["bull"][2] = 1
  BY DEF S!RangeCases
<1>3. {<<label, S!RangeCases[label][1], S!RangeCases[label][2]>> : label \in DOMAIN S!RangeCases}
        = {<<"bear", 2, -1>>, <<"base", 0, 0>>, <<"bull", -2, 1>>}
  BY <1>1, <1>2
<1>4. {"grid"} \X {-2, 0, 2} \X {-1, 0, 1}
        = {<<"grid", 2, -1>>, <<"grid", 2, 0>>, <<"grid", 2, 1>>,
           <<"grid", 0, -1>>, <<"grid", 0, 0>>, <<"grid", 0, 1>>,
           <<"grid", -2, -1>>, <<"grid", -2, 0>>, <<"grid", -2, 1>>}
  OBVIOUS
<1>5. QED
  BY <1>3, <1>4 DEF S!Scenarios

\* The base case of the range is the valuation.
LEMMA BaseIsBase ==
  ASSUME NEW v, Numeric \cup {"company_type"} \subseteq DOMAIN v,
         NEW rate \in Int, NEW growth \in Int, rate > growth,
         S!BaseRate(v) = rate, S!V!DiscountRate(v) = rate,
         S!BaseGrowth(v) = growth, S!V!LongRunGrowth(v) = growth
  PROVE  S!ScenarioValues(v)[<<"base", 0, 0>>] = S!FairValue(v)
<1> DEFINE w == Varied(v, rate, growth)
<1>1. /\ \A f \in Unmoved : w[f] = v[f]
      /\ S!V!DiscountRate(w) = rate /\ S!V!LongRunGrowth(w) = growth
  BY ScenarioInputs
<1>2. S!ScenarioValue(v, rate, growth) = S!FairValue(w)
  BY DEF S!ScenarioValue, Varied
<1> HIDE DEF w
<1>3. S!FairValue(w) = S!FairValue(v)
  BY <1>1, RatesMakeValues
<1>4. S!ScenarioValues(v)[<<"base", 0, 0>>] = S!ScenarioValue(v, rate + 0, growth + 0)
  BY ScenariosAre DEF S!ScenarioValues
<1>5. QED
  BY <1>2, <1>3, <1>4

\* What a scenario adds to the difference of the rate and the growth.
Widening(s) == s[2] - s[3]

\* What a dividend that grows at the long-run rate is worth.
LEMMA DividendScenarios ==
  ASSUME NEW v, Numeric \cup {"company_type"} \subseteq DOMAIN v,
         S!V!Model(v) = "ddm", v.ddm_growth = None, v.fair_value = None, v.expected_dps # None,
         S!BaseRate(v) \in Int, S!BaseGrowth(v) \in Int, NEW s \in S!Scenarios
  PROVE  LET wide == S!BaseRate(v) - S!BaseGrowth(v) + Widening(s)
         IN S!ScenarioValues(v)[s]
              = IF wide <= 0 THEN None ELSE (v.expected_dps * Scale) \div wide
<1> DEFINE rate   == S!BaseRate(v) + s[2]
           growth == S!BaseGrowth(v) + s[3]
           w      == Varied(v, rate, growth)
<1>1. s[2] \in Int /\ s[3] \in Int
  BY ScenariosAre
<1>2. rate \in Int /\ growth \in Int
  BY <1>1
<1>3. S!BaseRate(v) - S!BaseGrowth(v) + Widening(s) = rate - growth
  BY <1>1 DEF Widening
<1>4. S!ScenarioValues(v)[s] = S!ScenarioValue(v, rate, growth)
  BY DEF S!ScenarioValues
<1> HIDE DEF rate, growth
<1>5. CASE rate <= growth
  BY <1>2, <1>3, <1>4, <1>5 DEF S!ScenarioValue
<1>6. CASE ~(rate <= growth)
  <2>1. /\ \A f \in Unmoved : w[f] = v[f]
        /\ S!V!DiscountRate(w) = rate /\ S!V!LongRunGrowth(w) = growth
    BY <1>2, ScenarioInputs
  <2>2. S!ScenarioValue(v, rate, growth) = S!FairValue(w)
    BY <1>6 DEF S!ScenarioValue, Varied
  <2> HIDE DEF w
  <2>3. /\ w.company_type = v.company_type /\ w.bank_data = v.bank_data
        /\ w.stable_future_roe = v.stable_future_roe /\ w.ddm_growth = None
        /\ w.fair_value = None /\ w.expected_dps = v.expected_dps
    BY <2>1 DEF Unmoved, Numeric
  <2>4. S!V!Model(w) = "ddm"
    BY <2>3 DEF S!V!Model
  <2>5. S!V!OwnGrowth(w, w.ddm_growth) = growth
    BY <2>1, <2>3 DEF S!V!OwnGrowth, S!V!Given
  <2>6. rate > growth /\ rate # None /\ growth # None
    BY <1>2, <1>6, DriversAssumption
  <2>7. S!V!Computable(w)
    BY <2>1, <2>3, <2>4, <2>5, <2>6 DEF S!V!Computable, S!V!Ddm, S!V!Discountable, S!V!Given
  <2>8. S!FairValue(w) = (w.expected_dps * Scale) \div (rate - growth)
    BY <2>1, <2>3, <2>4, <2>5, <2>7 DEF S!FairValue, S!V!Given
  <2>9. ~(rate - growth <= 0)
    BY <1>2, <1>6
  <2>10. QED
    BY <1>3, <1>4, <2>2, <2>3, <2>8, <2>9
<1>7. QED
  BY <1>5, <1>6

LEMMA Quotients ==
  ASSUME NEW total \in Int, NEW k \in Nat \ {0}
  PROVE  /\ total \div k \in Int
         /\ k * (total \div k) <= total
         /\ total < k * (total \div k) + k
OBVIOUS

LEMMA SmallerQuotients ==
  ASSUME NEW total \in Nat, NEW k \in Nat \ {0}, NEW m \in Nat \ {0}, k <= m
  PROVE  total \div m <= total \div k
OBVIOUS

LEMMA NoDividend ==
  ASSUME NEW total \in Int, total <= 0, NEW k \in Nat \ {0}
  PROVE  ~(total \div k > 0)
OBVIOUS

LEMMA SomeDividend ==
  ASSUME NEW total \in Nat, NEW k \in Nat \ {0}, k <= total
  PROVE  total \div k > 0
OBVIOUS

-----------------------------------------------------------------------------
(* The quantiles of the scenarios of a dividend *)

\* The scenarios that widen the difference by more than t.
Above(t) == {s \in S!Scenarios : Widening(s) > t}

LEMMA AddTwo ==
  ASSUME NEW X, IsFiniteSet(X), NEW x, NEW y, x # y, x \notin X, y \notin X
  PROVE  /\ IsFiniteSet((X \cup {x}) \cup {y})
         /\ Cardinality((X \cup {x}) \cup {y}) = Cardinality(X) + 2
<1>1. IsFiniteSet(X \cup {x}) /\ Cardinality(X \cup {x}) = Cardinality(X) + 1
  BY FS_AddElement
<1>2. y \notin X \cup {x}
  OBVIOUS
<1>3. /\ IsFiniteSet((X \cup {x}) \cup {y})
      /\ Cardinality((X \cup {x}) \cup {y}) = Cardinality(X \cup {x}) + 1
  BY <1>1, <1>2, FS_AddElement
<1>4. Cardinality(X) \in Nat
  BY FS_CardinalityType
<1>5. QED
  BY <1>1, <1>3, <1>4

LEMMA AboveAre ==
  /\ Above(-4) = S!Scenarios
  /\ IsFiniteSet(S!Scenarios)
  /\ Cardinality(Above(3)) = 0 /\ Cardinality(Above(2)) = 2 /\ Cardinality(Above(1)) = 3
  /\ Cardinality(Above(0)) = 5 /\ Cardinality(Above(-1)) = 7 /\ Cardinality(Above(-2)) = 9
  /\ Cardinality(Above(-3)) = 10
<1>1. /\ Above(3) = {}
      /\ Above(2) = ({} \cup {<<"grid", 2, -1>>}) \cup {<<"bear", 2, -1>>}
      /\ Above(1) = Above(2) \cup {<<"grid", 2, 0>>}
  BY ScenariosAre DEF Above, Widening
<1>2. /\ Above(0) = (Above(1) \cup {<<"grid", 2, 1>>}) \cup {<<"grid", 0, -1>>}
      /\ Above(-1) = (Above(0) \cup {<<"grid", 0, 0>>}) \cup {<<"base", 0, 0>>}
  BY ScenariosAre DEF Above, Widening
<1>3. /\ Above(-2) = (Above(-1) \cup {<<"grid", 0, 1>>}) \cup {<<"grid", -2, -1>>}
      /\ Above(-3) = Above(-2) \cup {<<"grid", -2, 0>>}
      /\ Above(-4) = (Above(-3) \cup {<<"grid", -2, 1>>}) \cup {<<"bull", -2, 1>>}
  BY ScenariosAre DEF Above, Widening
<1>4. Above(-4) = S!Scenarios
  BY ScenariosAre DEF Above, Widening
<1>5. /\ <<"grid", 2, 1>> # <<"grid", 0, -1>> /\ <<"grid", 0, 0>> # <<"base", 0, 0>>
      /\ <<"grid", 0, 1>> # <<"grid", -2, -1>> /\ <<"grid", 2, -1>> # <<"bear", 2, -1>>
      /\ \A t \in {0, 1, 2, 3} : <<"grid", 0, 0>> \notin Above(t) /\ <<"base", 0, 0>> \notin Above(t)
      /\ <<"grid", 2, 0>> \notin Above(2)
      /\ <<"grid", 2, 1>> \notin Above(1) /\ <<"grid", 0, -1>> \notin Above(1)
      /\ <<"grid", 0, 1>> \notin Above(-1) /\ <<"grid", -2, -1>> \notin Above(-1)
      /\ <<"grid", -2, 0>> \notin Above(-2)
  BY DEF Above, Widening
<1>6. IsFiniteSet({}) /\ Cardinality({}) = 0
  BY FS_EmptySet
<1>7. IsFiniteSet(Above(2)) /\ Cardinality(Above(2)) = 2
  <2>1. /\ IsFiniteSet(({} \cup {<<"grid", 2, -1>>}) \cup {<<"bear", 2, -1>>})
        /\ Cardinality(({} \cup {<<"grid", 2, -1>>}) \cup {<<"bear", 2, -1>>}) = Cardinality({}) + 2
    BY <1>5, <1>6, AddTwo
  <2>2. Above(2) = ({} \cup {<<"grid", 2, -1>>}) \cup {<<"bear", 2, -1>>}
    BY <1>1
  <2>3. QED
    BY <1>6, <2>1, <2>2
<1>8. IsFiniteSet(Above(1)) /\ Cardinality(Above(1)) = 3
  <2>1. Above(1) = Above(2) \cup {<<"grid", 2, 0>>}
    BY <1>1
  <2>2. <<"grid", 2, 0>> \notin Above(2)
    BY <1>5
  <2>3. /\ IsFiniteSet(Above(2) \cup {<<"grid", 2, 0>>})
        /\ Cardinality(Above(2) \cup {<<"grid", 2, 0>>}) = Cardinality(Above(2)) + 1
    BY <1>7, <2>2, FS_AddElement
  <2>4. QED
    BY <1>7, <2>1, <2>3
<1>9. IsFiniteSet(Above(0)) /\ Cardinality(Above(0)) = 5
  <2>1. /\ IsFiniteSet((Above(1) \cup {<<"grid", 2, 1>>}) \cup {<<"grid", 0, -1>>})
        /\ Cardinality((Above(1) \cup {<<"grid", 2, 1>>}) \cup {<<"grid", 0, -1>>}) = Cardinality(Above(1)) + 2
    BY <1>5, <1>8, AddTwo
  <2>2. Above(0) = (Above(1) \cup {<<"grid", 2, 1>>}) \cup {<<"grid", 0, -1>>}
    BY <1>2
  <2>3. QED
    BY <1>8, <2>1, <2>2
<1>10. IsFiniteSet(Above(-1)) /\ Cardinality(Above(-1)) = 7
  <2>1. /\ IsFiniteSet((Above(0) \cup {<<"grid", 0, 0>>}) \cup {<<"base", 0, 0>>})
        /\ Cardinality((Above(0) \cup {<<"grid", 0, 0>>}) \cup {<<"base", 0, 0>>}) = Cardinality(Above(0)) + 2
    BY <1>5, <1>9, AddTwo
  <2>2. Above(-1) = (Above(0) \cup {<<"grid", 0, 0>>}) \cup {<<"base", 0, 0>>}
    BY <1>2
  <2>3. QED
    BY <1>9, <2>1, <2>2
<1>11. IsFiniteSet(Above(-2)) /\ Cardinality(Above(-2)) = 9
  <2>1. /\ IsFiniteSet((Above(-1) \cup {<<"grid", 0, 1>>}) \cup {<<"grid", -2, -1>>})
        /\ Cardinality((Above(-1) \cup {<<"grid", 0, 1>>}) \cup {<<"grid", -2, -1>>}) = Cardinality(Above(-1)) + 2
    BY <1>5, <1>10, AddTwo
  <2>2. Above(-2) = (Above(-1) \cup {<<"grid", 0, 1>>}) \cup {<<"grid", -2, -1>>}
    BY <1>3
  <2>3. QED
    BY <1>10, <2>1, <2>2
<1>12. IsFiniteSet(Above(-3)) /\ Cardinality(Above(-3)) = 10
  <2>1. Above(-3) = Above(-2) \cup {<<"grid", -2, 0>>}
    BY <1>3
  <2>2. <<"grid", -2, 0>> \notin Above(-2)
    BY <1>5
  <2>3. /\ IsFiniteSet(Above(-2) \cup {<<"grid", -2, 0>>})
        /\ Cardinality(Above(-2) \cup {<<"grid", -2, 0>>}) = Cardinality(Above(-2)) + 1
    BY <1>11, <2>2, FS_AddElement
  <2>4. QED
    BY <1>11, <2>1, <2>3
<1>13. IsFiniteSet(S!Scenarios)
  <2>1. IsFiniteSet(Above(-3) \cup {<<"grid", -2, 1>>})
    BY <1>12, FS_AddElement
  <2>2. IsFiniteSet((Above(-3) \cup {<<"grid", -2, 1>>}) \cup {<<"bull", -2, 1>>})
    BY <2>1, FS_AddElement
  <2>3. QED
    BY <1>3, <1>4, <2>2
<1>14. QED
  BY <1>1, <1>4, <1>7, <1>8, <1>9, <1>10, <1>11, <1>12, <1>13, FS_EmptySet

\* Fewer scenarios widen by more.
LEMMA AboveNests ==
  ASSUME NEW t \in Int, NEW u \in Int, t <= u
  PROVE  Cardinality(Above(u)) <= Cardinality(Above(t)) /\ Cardinality(Above(u)) \in Nat
         /\ Cardinality(Above(t)) \in Nat
<1>1. \A s \in S!Scenarios : Widening(s) \in -3..3
  BY ScenariosAre DEF Widening
<1>2. Above(u) \in SUBSET Above(t) /\ Above(t) \in SUBSET S!Scenarios
  BY <1>1 DEF Above
<1>3. IsFiniteSet(Above(t)) /\ IsFiniteSet(Above(u))
  BY <1>2, AboveAre, FS_Subset
<1>4. QED
  BY <1>2, <1>3, FS_Subset, FS_CardinalityType

LEMMA Sixths ==
  ASSUME NEW y \in Nat \ {0}
  PROVE  /\ (60 * y) \div 1 = 60 * y /\ (60 * y) \div 2 = 30 * y /\ (60 * y) \div 3 = 20 * y
         /\ (60 * y) \div 4 = 15 * y /\ (60 * y) \div 5 = 12 * y /\ (60 * y) \div 6 = 10 * y
OBVIOUS

LEMMA SixthsOrder ==
  ASSUME NEW y \in Nat \ {0}, NEW i \in 1..6, NEW j \in 1..6
  PROVE  /\ (60 * y) \div i < (60 * y) \div j <=> i > j
         /\ (60 * y) \div i <= (60 * y) \div j <=> i > j - 1
         /\ (60 * y) \div i > 0 /\ (60 * y) \div i \in Nat
<1>1. i \in {1, 2, 3, 4, 5, 6} /\ j \in {1, 2, 3, 4, 5, 6}
  OBVIOUS
<1>2. QED
  BY <1>1, Sixths

LEMMA SameSizes == \A X : S!Cardinality(X) = Cardinality(X)
BY DEF Cardinality, S!Cardinality

\* The values of the scenarios of a dividend, where the difference is small: the
\* scenarios that are as wide as another have its value.
Narrow(value, d, y) ==
  /\ d \in 1..3 /\ y \in Nat \ {0}
  /\ S!Priced(value) = Above(-d)
  /\ \A s \in Above(-d) : value[s] = (60 * y) \div (d + Widening(s))

LEMMA NthIs ==
  ASSUME NEW value, NEW d, NEW y, Narrow(value, d, y), NEW j \in 1..6, NEW k \in Int,
         Cardinality(Above(j - d)) <= k, k < Cardinality(Above(j - d - 1))
  PROVE  S!Nth(value, k) = (60 * y) \div j
<1> DEFINE priced == S!Priced(value)
           Below(x)   == {s \in priced : value[s] < x}
           UpTo(x)    == {s \in priced : value[s] <= x}
           Place(x)   == Cardinality(Below(x)) <= k /\ Cardinality(UpTo(x)) > k
<1>1. /\ d \in 1..3 /\ y \in Nat \ {0} /\ priced = Above(-d)
      /\ \A s \in priced : value[s] = (60 * y) \div (d + Widening(s))
  BY DEF Narrow
<1>2. \A s \in S!Scenarios : Widening(s) \in -3..3
  BY ScenariosAre DEF Widening
<1>3. \A s \in priced : s \in S!Scenarios /\ d + Widening(s) \in 1..6
  BY <1>1, <1>2 DEF Above
<1>4. ASSUME NEW i \in 1..6
      PROVE  Below((60 * y) \div i) = Above(i - d) /\ UpTo((60 * y) \div i) = Above(i - d - 1)
  <2>1. ASSUME NEW s \in priced
        PROVE  /\ value[s] < (60 * y) \div i <=> Widening(s) > i - d
               /\ value[s] <= (60 * y) \div i <=> Widening(s) > i - d - 1
    <3>1. Widening(s) \in Int /\ d \in Int /\ i \in Int
      BY <1>1, <1>2, <1>3
    <3>2. /\ value[s] < (60 * y) \div i <=> d + Widening(s) > i
          /\ value[s] <= (60 * y) \div i <=> d + Widening(s) > i - 1
      BY <1>1, <1>3, SixthsOrder
    <3>3. QED
      BY <3>1, <3>2
  <2>2. \A s \in S!Scenarios : Widening(s) > i - d - 1 => s \in priced
    BY <1>1, <1>2 DEF Above
  <2>3. \A s \in S!Scenarios : Widening(s) > i - d => s \in priced
    BY <1>1, <1>2 DEF Above
  <2>4. QED
    BY <1>3, <2>1, <2>2, <2>3 DEF Above
<1>5. \E s \in priced : value[s] = (60 * y) \div j
  <2>1. SUFFICES ASSUME \A s \in priced : d + Widening(s) # j PROVE FALSE
    BY <1>1
  <2>2. \A s \in S!Scenarios : Widening(s) > j - d - 1 => Widening(s) > j - d
    BY <1>1, <1>2, <2>1 DEF Above
  <2>3. Above(j - d) = Above(j - d - 1)
    BY <1>1, <1>2, <2>2 DEF Above
  <2>4. Cardinality(Above(j - d)) \in Nat
    BY <1>1, AboveNests
  <2>5. QED
    BY <2>3, <2>4
<1>6. Place((60 * y) \div j)
  BY <1>4
<1>7. ASSUME NEW i \in 1..6, Place((60 * y) \div i)
      PROVE  i = j
  <2>1. Cardinality(Above(i - d)) <= k /\ k < Cardinality(Above(i - d - 1))
    BY <1>4, <1>7
  <2>2. CASE i < j
    <3>1. Cardinality(Above(j - d - 1)) <= Cardinality(Above(i - d))
      BY <1>1, <2>2, AboveNests
    <3>2. Cardinality(Above(j - d - 1)) \in Nat /\ Cardinality(Above(i - d)) \in Nat
      BY <1>1, AboveNests
    <3>3. QED
      BY <2>1, <3>1, <3>2
  <2>3. CASE i > j
    <3>1. Cardinality(Above(i - d - 1)) <= Cardinality(Above(j - d))
      BY <1>1, <2>3, AboveNests
    <3>2. Cardinality(Above(i - d - 1)) \in Nat /\ Cardinality(Above(j - d)) \in Nat
      BY <1>1, AboveNests
    <3>3. QED
      BY <2>1, <3>1, <3>2
  <2>4. QED
    BY <2>2, <2>3
<1>8. S!Nth(value, k) = CHOOSE x \in {value[s] : s \in priced} : Place(x)
  BY SameSizes DEF S!Nth
<1>9. ASSUME NEW x \in {value[s] : s \in priced}, Place(x)
      PROVE  x = (60 * y) \div j
  <2>1. PICK s \in priced : x = value[s]
    OBVIOUS
  <2>2. x = (60 * y) \div (d + Widening(s)) /\ d + Widening(s) \in 1..6
    BY <1>1, <1>3, <2>1
  <2>3. Place((60 * y) \div (d + Widening(s)))
    BY <1>9, <2>2
  <2> HIDE DEF Place
  <2>4. d + Widening(s) = j
    BY <1>7, <2>2, <2>3
  <2>5. QED
    BY <2>2, <2>4
<1> HIDE DEF Place
<1>10. QED
  BY <1>5, <1>6, <1>8, <1>9

\* Where the difference of the rate and the growth is small, the valuation is fragile.
LEMMA NarrowIsFragile ==
  ASSUME NEW value, NEW d, NEW y, Narrow(value, d, y)
  PROVE  S!Fragility(value, (60 * y) \div d) = "HIGH"
<1> DEFINE many == Cardinality(S!Priced(value))
           low  == S!TenfoldQuantile(value, 1)
           high == S!TenfoldQuantile(value, 9)
           base == (60 * y) \div d
<1>1. d \in {1, 2, 3} /\ y \in Nat \ {0} /\ S!Priced(value) = Above(-d)
  BY DEF Narrow
<1>2. /\ low = LET place == (many - 1) * 1
                   rest  == place % 10
                   first == S!Nth(value, place \div 10)
                   next  == IF rest = 0 THEN first ELSE S!Nth(value, place \div 10 + 1)
               IN first * (10 - rest) + next * rest
      /\ high = LET place == (many - 1) * 9
                    rest  == place % 10
                    first == S!Nth(value, place \div 10)
                    next  == IF rest = 0 THEN first ELSE S!Nth(value, place \div 10 + 1)
                IN first * (10 - rest) + next * rest
  BY SameSizes DEF S!TenfoldQuantile
<1>3. CASE d = 1
  <2>1. many = 7
    BY <1>1, <1>3, AboveAre
  <2>2. S!Nth(value, 0) = 15 * y /\ S!Nth(value, 1) = 15 * y
    <3>1. Cardinality(Above(4 - d)) = 0 /\ Cardinality(Above(4 - d - 1)) = 2
      BY <1>3, AboveAre
    <3>2. S!Nth(value, 0) = (60 * y) \div 4 /\ S!Nth(value, 1) = (60 * y) \div 4
      BY <3>1, NthIs
    <3>3. QED
      BY <1>1, <3>2, Sixths
  <2>3. S!Nth(value, 5) = 60 * y /\ S!Nth(value, 6) = 60 * y
    <3>1. Cardinality(Above(1 - d)) = 5 /\ Cardinality(Above(1 - d - 1)) = 7
      BY <1>3, AboveAre
    <3>2. S!Nth(value, 5) = (60 * y) \div 1 /\ S!Nth(value, 6) = (60 * y) \div 1
      BY <3>1, NthIs
    <3>3. QED
      BY <1>1, <3>2, Sixths
  <2> HIDE DEF many, low, high
  <2>4. low = 150 * y /\ high = 600 * y
    BY <1>1, <1>2, <2>1, <2>2, <2>3
  <2>5. base = 60 * y
    BY <1>1, <1>3, Sixths
  <2>6. QED
    BY <1>1, <2>1, <2>4, <2>5, SameSizes DEF S!Fragility, S!Abs, many, low, high
<1>4. CASE d = 2
  <2>1. many = 9
    BY <1>1, <1>4, AboveAre
  <2>2. S!Nth(value, 0) = 12 * y /\ S!Nth(value, 1) = 12 * y
    <3>1. Cardinality(Above(5 - d)) = 0 /\ Cardinality(Above(5 - d - 1)) = 2
      BY <1>4, AboveAre
    <3>2. S!Nth(value, 0) = (60 * y) \div 5 /\ S!Nth(value, 1) = (60 * y) \div 5
      BY <3>1, NthIs
    <3>3. QED
      BY <1>1, <3>2, Sixths
  <2>3. S!Nth(value, 7) = 60 * y /\ S!Nth(value, 8) = 60 * y
    <3>1. Cardinality(Above(1 - d)) = 7 /\ Cardinality(Above(1 - d - 1)) = 9
      BY <1>4, AboveAre
    <3>2. S!Nth(value, 7) = (60 * y) \div 1 /\ S!Nth(value, 8) = (60 * y) \div 1
      BY <3>1, NthIs
    <3>3. QED
      BY <1>1, <3>2, Sixths
  <2> HIDE DEF many, low, high
  <2>4. low = 120 * y /\ high = 600 * y
    BY <1>1, <1>2, <2>1, <2>2, <2>3
  <2>5. base = 30 * y
    BY <1>1, <1>4, Sixths
  <2>6. QED
    BY <1>1, <2>1, <2>4, <2>5, SameSizes DEF S!Fragility, S!Abs, many, low, high
<1>5. CASE d = 3
  <2>1. many = 10
    BY <1>1, <1>5, AboveAre
  <2>2. S!Nth(value, 0) = 10 * y /\ S!Nth(value, 1) = 10 * y
    <3>1. Cardinality(Above(6 - d)) = 0 /\ Cardinality(Above(6 - d - 1)) = 2
      BY <1>5, AboveAre
    <3>2. S!Nth(value, 0) = (60 * y) \div 6 /\ S!Nth(value, 1) = (60 * y) \div 6
      BY <3>1, NthIs
    <3>3. QED
      BY <1>1, <3>2, Sixths
  <2>3. S!Nth(value, 8) = 30 * y /\ S!Nth(value, 9) = 60 * y
    <3>1. /\ Cardinality(Above(2 - d)) = 7 /\ Cardinality(Above(2 - d - 1)) = 9
          /\ Cardinality(Above(1 - d)) = 9 /\ Cardinality(Above(1 - d - 1)) = 10
      BY <1>5, AboveAre
    <3>2. S!Nth(value, 8) = (60 * y) \div 2
      BY <3>1, NthIs
    <3>3. S!Nth(value, 9) = (60 * y) \div 1
      BY <3>1, NthIs
    <3>4. QED
      BY <1>1, <3>2, <3>3, Sixths
  <2> HIDE DEF many, low, high
  <2>4. low = 100 * y /\ high = 330 * y
    BY <1>1, <1>2, <2>1, <2>2, <2>3
  <2>5. base = 20 * y
    BY <1>1, <1>5, Sixths
  <2>6. QED
    BY <1>1, <2>1, <2>4, <2>5, SameSizes DEF S!Fragility, S!Abs, many, low, high
<1>6. QED
  BY <1>1, <1>3, <1>4, <1>5

-----------------------------------------------------------------------------
(* What a computed sensitivity says *)

LEMMA ComputedIs ==
  ASSUME NEW v, S!RunSensitivity(v).reason = "COMPUTED"
  PROVE  LET s == S!RunSensitivity(v)
         IN /\ v.fair_value = None /\ S!V!Computable(v)
            /\ S!BaseRate(v) # None /\ S!BaseGrowth(v) # None
            /\ s.fragility = S!Fragility(S!ScenarioValues(v), S!FairValue(v))
            /\ s.base = S!FairValue(v)
            /\ s.unpriced = S!Scenarios \ S!Priced(S!ScenarioValues(v))
            /\ s.range["bear"] = S!ScenarioValues(v)[<<"bear", 2, -1>>]
            /\ s.range["base"] = S!ScenarioValues(v)[<<"base", 0, 0>>]
            /\ s.range["bull"] = S!ScenarioValues(v)[<<"bull", -2, 1>>]
<1> DEFINE resolved == S!V!ResolveValuation(v)
           told     == [label \in DOMAIN S!RangeCases |->
                          S!ScenarioValues(v)[<<label, S!RangeCases[label][1], S!RangeCases[label][2]>>]]
           level    == S!Fragility(S!ScenarioValues(v), S!FairValue(v))
           done     == [status |-> IF level = "HIGH" THEN "PASS_WITH_LIMITATIONS" ELSE "PASS",
                        reason |-> "COMPUTED", fragility |-> level, base |-> S!FairValue(v),
                        range |-> told, unpriced |-> S!Scenarios \ S!Priced(S!ScenarioValues(v))]
<1>1. /\ ~(resolved.variant = "manual_input")
      /\ ~(resolved.value = None)
      /\ ~(resolved.value = "computed" /\ None \in {S!BaseRate(v), S!BaseGrowth(v)})
      /\ S!RunSensitivity(v) = done
  <2> HIDE DEF resolved, told, level
  <2>1. \A reason : S!Unavailable(reason).reason = reason
    BY DEF S!Unavailable
  <2>2. S!RunSensitivity(v) =
          CASE resolved.variant = "manual_input" -> S!Unavailable("MANUAL_FAIR_VALUE")
            [] resolved.value = None             -> S!Unavailable("BASE_VALUATION_UNKNOWN")
            [] resolved.value = "computed" /\ None \in {S!BaseRate(v), S!BaseGrowth(v)}
                                                 -> S!Unavailable("DRIVER_INPUTS_MISSING")
            [] OTHER                             -> done
    BY DEF S!RunSensitivity, resolved, told, level
  <2> HIDE DEF done
  <2>3. QED
    BY <2>1, <2>2
<1>2. v.fair_value = None /\ S!V!Computable(v) /\ resolved.value = "computed"
  BY <1>1 DEF S!V!ResolveValuation, S!V!Given
<1>3. /\ told["bear"] = S!ScenarioValues(v)[<<"bear", 2, -1>>]
      /\ told["base"] = S!ScenarioValues(v)[<<"base", 0, 0>>]
      /\ told["bull"] = S!ScenarioValues(v)[<<"bull", -2, 1>>]
  BY DEF S!RangeCases
<1> HIDE DEF resolved, told, level
<1>4. QED
  BY <1>1, <1>2, <1>3 DEF level

\* A dividend that grows at the long-run rate: wide apart, all its scenarios are
\* priced and ordered; close together, it is fragile.
LEMMA DividendFragility ==
  ASSUME NEW v, Numeric \cup {"company_type"} \subseteq DOMAIN v,
         S!V!Model(v) = "ddm", v.ddm_growth = None, v.fair_value = None, v.expected_dps \in Int,
         v.expected_dps # None,
         NEW rate \in Int, NEW growth \in Int, rate > growth, rate - growth + 3 <= Scale,
         S!BaseRate(v) = rate, S!BaseGrowth(v) = growth,
         S!FairValue(v) = (v.expected_dps * Scale) \div (rate - growth),
         S!Fragility(S!ScenarioValues(v), S!FairValue(v)) \in {"LOW", "MEDIUM"}
  PROVE  LET value == S!ScenarioValues(v)
         IN /\ S!Priced(value) = S!Scenarios
            /\ value[<<"bear", 2, -1>>] <= value[<<"base", 0, 0>>]
            /\ value[<<"base", 0, 0>>] <= value[<<"bull", -2, 1>>]
<1> DEFINE value == S!ScenarioValues(v)
           d     == rate - growth
           total == v.expected_dps * Scale
<1>1. DOMAIN value = S!Scenarios
  BY DEF S!ScenarioValues
<1>2. \A s \in S!Scenarios :
        value[s] = IF d + Widening(s) <= 0 THEN None ELSE total \div (d + Widening(s))
  BY DividendScenarios
<1>3. \A s \in S!Scenarios : Widening(s) \in -3..3
  BY ScenariosAre DEF Widening
<1>4. Scale \in Nat \ {0} /\ None \notin Int /\ Scale % 60 = 0
  BY DriversAssumption
<1>5. d \in Nat \ {0} /\ d + 3 <= Scale /\ total \in Int
  BY <1>4
<1>6. S!Priced(value) = {s \in S!Scenarios : value[s] # None /\ value[s] > 0}
  BY <1>1 DEF S!Priced
<1> HIDE DEF value, d
<1>7. v.expected_dps >= 1
  <2>1. SUFFICES ASSUME v.expected_dps <= 0 PROVE FALSE
    OBVIOUS
  <2>2. total <= 0
    BY <1>4, <2>1
  <2> HIDE DEF total
  <2>3. ASSUME NEW s \in S!Scenarios, value[s] # None PROVE ~(value[s] > 0)
    <3>1. d + Widening(s) \in Nat \ {0} /\ value[s] = total \div (d + Widening(s))
      BY <1>2, <1>3, <1>5, <2>3
    <3>2. QED
      BY <1>5, <2>2, <3>1, NoDividend
  <2>4. S!Priced(value) = {}
    BY <1>6, <2>3
  <2>5. S!Cardinality(S!Priced(value)) = 0
    BY <2>4, SameSizes, FS_EmptySet
  <2>6. S!Fragility(value, S!FairValue(v)) = "UNKNOWN"
    BY <2>5 DEF S!Fragility
  <2>7. QED
    BY <2>6 DEF value
<1>8. total \in Nat /\ Scale <= total
  BY <1>4, <1>7
<1>9. CASE d >= 4
  <2>1. \A s \in S!Scenarios : /\ d + Widening(s) \in Nat \ {0} /\ d + Widening(s) <= total
                               /\ value[s] = total \div (d + Widening(s))
    <3> HIDE DEF total
    <3>1. QED
      BY <1>2, <1>3, <1>4, <1>5, <1>8, <1>9
  <2> HIDE DEF total
  <2>2. ASSUME NEW s \in S!Scenarios PROVE value[s] # None /\ value[s] > 0
    <3>1. total \div (d + Widening(s)) \in Int
      BY <1>5, <2>1, Quotients
    <3>2. total \div (d + Widening(s)) > 0
      BY <1>8, <2>1, SomeDividend
    <3>3. QED
      BY <1>4, <2>1, <3>1, <3>2
  <2>3. S!Priced(value) = S!Scenarios
    BY <1>6, <2>2
  <2>4. /\ value[<<"bear", 2, -1>>] = total \div (d + 3)
        /\ value[<<"base", 0, 0>>] = total \div d
        /\ value[<<"bull", -2, 1>>] = total \div (d - 3)
    <3>1. /\ Widening(<<"bear", 2, -1>>) = 3 /\ Widening(<<"base", 0, 0>>) = 0
          /\ Widening(<<"bull", -2, 1>>) = -3
      BY DEF Widening
    <3>2. d + 0 = d /\ d + (-3) = d - 3
      BY <1>5
    <3>3. QED
      BY <2>1, <3>1, <3>2, ScenariosAre
  <2>5. d - 3 \in Nat \ {0} /\ d \in Nat \ {0} /\ d + 3 \in Nat \ {0} /\ d - 3 <= d /\ d <= d + 3
    BY <1>5, <1>9
  <2>6. total \div (d + 3) <= total \div d /\ total \div d <= total \div (d - 3)
    BY <1>8, <2>5, SmallerQuotients
  <2>7. QED
    BY <2>3, <2>4, <2>6 DEF value
<1>10. CASE d \in 1..3
  <2>1. PICK m \in Nat \ {0} : Scale = 60 * m
    <3>1. Scale = 60 * (Scale \div 60) /\ Scale \div 60 \in Nat \ {0}
      BY <1>4
    <3>2. QED
      BY <3>1
  <2> DEFINE y == v.expected_dps * m
  <2>2. y \in Nat \ {0} /\ total = 60 * y
    BY <1>7, <2>1
  <2> HIDE DEF y, total
  <2>3. ASSUME NEW s \in S!Scenarios
        PROVE  /\ d + Widening(s) > 0 => /\ value[s] = (60 * y) \div (d + Widening(s))
                                         /\ value[s] # None /\ value[s] > 0
               /\ ~(d + Widening(s) > 0) => value[s] = None
    <3>1. d + Widening(s) \in Int
      BY <1>3, <1>5
    <3>2. CASE d + Widening(s) > 0
      <4>1. d + Widening(s) \in 1..6
        BY <1>3, <1>10, <3>2
      <4>2. value[s] = (60 * y) \div (d + Widening(s))
        BY <1>2, <2>2, <3>1, <3>2
      <4>3. (60 * y) \div (d + Widening(s)) > 0 /\ (60 * y) \div (d + Widening(s)) \in Nat
        BY <2>2, <4>1, SixthsOrder
      <4>4. QED
        BY <1>4, <3>2, <4>2, <4>3
    <3>3. CASE ~(d + Widening(s) > 0)
      BY <1>2, <3>1, <3>3
    <3>4. QED
      BY <3>2, <3>3
  <2>4. \A s \in S!Scenarios : d + Widening(s) > 0 <=> Widening(s) > -d
    BY <1>3, <1>5
  <2>5. S!Priced(value) = Above(-d)
    BY <1>6, <2>3, <2>4 DEF Above
  <2>6. Narrow(value, d, y)
    BY <1>10, <2>2, <2>3, <2>4, <2>5 DEF Narrow, Above
  <2>7. S!Fragility(value, (60 * y) \div d) = "HIGH"
    BY <2>6, NarrowIsFragile
  <2>8. S!FairValue(v) = (60 * y) \div d
    BY <2>2 DEF total, d
  <2>9. QED
    BY <2>7, <2>8 DEF value
<1>11. QED
  BY <1>5, <1>9, <1>10

LEMMA FragilityEarned == SensitivityInv => LowFragilityIsEarned
<1> SUFFICES ASSUME SensitivityInv, subject.part = "sensitivity", Sensitivity.reason = "COMPUTED",
                    0 \notin {ValuedOn.discount_rate, ValuedOn.long_run_growth}
             PROVE  LET s == Sensitivity
                        v == ValuedOn
                    IN /\ s.fragility \in {"LOW", "MEDIUM"} /\ S!V!Model(v) = "ddm" /\ v.ddm_growth = None =>
                            /\ s.unpriced = {}
                            /\ s.range["bear"] <= s.range["base"]
                            /\ s.range["base"] <= s.range["bull"]
                       /\ S!BaseRate(v) > S!BaseGrowth(v) => s.range["base"] = s.base
  BY DEF LowFragilityIsEarned
<1> DEFINE v      == ValuedOn
           rate   == S!BaseRate(v)
           growth == S!BaseGrowth(v)
           value  == S!ScenarioValues(v)
           s      == Sensitivity
<1>1. /\ v.fair_value = None /\ S!V!Computable(v) /\ rate # None /\ growth # None
      /\ s.fragility = S!Fragility(value, S!FairValue(v)) /\ s.base = S!FairValue(v)
      /\ s.unpriced = S!Scenarios \ S!Priced(value)
      /\ s.range["bear"] = value[<<"bear", 2, -1>>] /\ s.range["base"] = value[<<"base", 0, 0>>]
      /\ s.range["bull"] = value[<<"bull", -2, 1>>]
  BY ComputedIs DEF Sensitivity
<1>2. /\ Numeric \cup {"company_type"} \subseteq DOMAIN v
      /\ v.expected_dps \in Int \cup {None}
  BY DriversAre
<1>3. /\ rate = S!V!DiscountRate(v) /\ growth = S!V!LongRunGrowth(v)
      /\ rate \in Int /\ growth \in Int /\ rate - growth + 3 <= Scale
  BY <1>1, RatesAre
<1> HIDE DEF v, s
<1>4. ASSUME rate > growth PROVE s.range["base"] = s.base
  BY <1>1, <1>2, <1>3, <1>4, BaseIsBase
<1>5. ASSUME s.fragility \in {"LOW", "MEDIUM"}, S!V!Model(v) = "ddm", v.ddm_growth = None
      PROVE  /\ s.unpriced = {}
             /\ s.range["bear"] <= s.range["base"]
             /\ s.range["base"] <= s.range["bull"]
  <2>1. S!V!OwnGrowth(v, v.ddm_growth) = growth
    BY <1>3, <1>5 DEF S!V!OwnGrowth, S!V!Given
  <2>2. v.expected_dps # None /\ rate > growth
    BY <1>1, <1>3, <1>5, <2>1 DEF S!V!Computable, S!V!Ddm, S!V!Discountable, S!V!Given
  <2>3. S!FairValue(v) = (v.expected_dps * Scale) \div (rate - growth)
    BY <1>1, <1>3, <1>5, <2>1 DEF S!FairValue, S!V!Given
  <2>4. v.expected_dps \in Int
    BY <1>2, <2>2
  <2>5. /\ S!Priced(value) = S!Scenarios
        /\ value[<<"bear", 2, -1>>] <= value[<<"base", 0, 0>>]
        /\ value[<<"base", 0, 0>>] <= value[<<"bull", -2, 1>>]
    BY <1>1, <1>2, <1>3, <1>5, <2>2, <2>3, <2>4, DividendFragility
  <2>6. QED
    BY <1>1, <2>5
<1>6. QED
  BY <1>4, <1>5 DEF v, s

\* A dividend that grows at the long-run rate is LOW or MEDIUM in fragility only if
\* all its scenarios are priced and in order, and the base case of every range is
\* the valuation, for every rate, growth, dividend and scale: unless a given rate
\* is zero (sensitivity/scenario_runner.py, sensitivity/fragility.py).
THEOREM FragilityIsEarned == Spec => []LowFragilityIsEarned
BY SensitivityBegins, SensitivityNext, FragilityEarned, PTL DEF Spec

-----------------------------------------------------------------------------
(* The evidence on one company *)

LEMMA GatheredAtFirst == Init => GatheredInv
<1>1. DeskInit => subject.part \in {"desk", "thesis", "comparison", "package", "release", "sensitivity"}
  BY DEF DeskInit
<1>2. Init => EvidenceInit \/ subject.part \notin {"check", "valuation", "risk", "audit"}
  BY <1>1 DEF Init
<1>3. subject.part \notin {"check", "valuation", "risk", "audit"} => GatheredInv
  BY DEF GatheredInv, CheckInv, ValuationInv, RiskInv, AuditInv
<1>4. QED
  BY <1>2, <1>3, GatheredBegins

LEMMA GatheredAlways == GatheredInv /\ [Next]_vars => GatheredInv'
<1> SUFFICES ASSUME GatheredInv, [Next]_vars PROVE GatheredInv'
  OBVIOUS
<1>1. CASE subject.part \in {"check", "valuation", "risk", "audit"}
  BY <1>1, GatheringSteps, GatheredNext, GatheredStays
<1>2. CASE subject.part \notin {"check", "valuation", "risk", "audit"}
  BY <1>2, PartsStay DEF GatheredInv, CheckInv, ValuationInv, RiskInv, AuditInv
<1>3. QED
  BY <1>1, <1>2

\* What the other theorems rest on: which files a desk may have, how many checks
\* are judged, whose figure a payload holds and what was filed, and that every torn line of the
\* journal costs at most one decision (WorkbenchInv).
THEOREM WorkbenchInvariance == Spec => []WorkbenchOK
<1>1. Init => WorkbenchOK
  <2>1. Init => JournalInv
    BY JournalBegins DEF Init
  <2>2. QED
    BY <2>1, DeskBegins, ThesisBegins, ComparisonBegins, PackageBegins, ReleaseBegins, PayloadBegins, FilingsBegin,
       SensitivityBegins, GatheredAtFirst DEF WorkbenchOK
<1>2. WorkbenchOK /\ [Next]_vars => WorkbenchOK'
  BY JournalNext, DeskNext, ThesisNext, ComparisonNext, PackageNext, ReleaseNext, PayloadNext, FilingsNext,
     SensitivityNext, GatheredAlways DEF WorkbenchOK
<1>3. QED
  BY <1>1, <1>2, PTL DEF Spec

\* LOW risk is never concluded for a company that any source calls one the
\* standard model does not fit, nor with an unevaluated check or from degraded
\* data, in whatever order the checks get their verdicts
\* (audit/model_applicability.py, audit/conclusion_risk.py).
THEOREM LowRiskMeansIt == Spec => []LowRiskIsEarned
<1>1. GatheredInv => LowRiskIsEarned
  BY LowRiskLemma DEF GatheredInv, LowRiskIsEarned
<1>2. QED
  BY <1>1, GatheredAtFirst, GatheredAlways, PTL DEF Spec

\* A verdict more never lowers the confidence nor raises the risk, a stale field
\* never does the opposite, for any number of checks, threshold and company
\* (audit/data_confidence.py, audit/conclusion_risk.py).
THEOREM VerdictsHelp == Spec => AuditIsMonotone
<1>1. ASSUME GatheredInv, [Next]_vars, subject.part = "audit", <<subject, evidence>>' # <<subject, evidence>>
      PROVE  IF evidence'.age = evidence.age
             THEN Better[Confidence'.level] >= Better[Confidence.level] /\ Better[Risk'] <= Better[Risk]
             ELSE Better[Confidence'.level] <= Better[Confidence.level] /\ Better[Risk'] >= Better[Risk]
  <2>1. EvidenceStep
    BY <1>1, GatheringSteps
  <2>2. AuditInv /\ AuditInv'
    BY <1>1, GatheredAlways DEF GatheredInv
  <2>3. QED
    BY <1>1, <2>1, <2>2, AuditSteps
<1>2. GatheredInv /\ [Next]_vars
        => [subject.part = "audit" =>
              LET before == [level |-> Better[Confidence.level], risk |-> Better[Risk]]
                  after  == [level |-> Better[Confidence.level], risk |-> Better[Risk]]'
              IN IF evidence'.age = evidence.age
                 THEN after.level >= before.level /\ after.risk <= before.risk
                 ELSE after.level <= before.level /\ after.risk >= before.risk]_<<subject, evidence>>
  <2> SUFFICES ASSUME GatheredInv, [Next]_vars, subject.part = "audit",
                      <<subject, evidence>>' # <<subject, evidence>>
               PROVE  LET before == [level |-> Better[Confidence.level], risk |-> Better[Risk]]
                          after  == [level |-> Better[Confidence.level], risk |-> Better[Risk]]'
                      IN IF evidence'.age = evidence.age
                         THEN after.level >= before.level /\ after.risk <= before.risk
                         ELSE after.level <= before.level /\ after.risk >= before.risk
    OBVIOUS
  <2>1. QED
    BY <1>1 DEF Better
<1>3. QED
  BY <1>2, GatheredAtFirst, GatheredAlways, PTL DEF Spec, AuditIsMonotone

\* A red flag that was raised or cleared stands, and a weak or watched grade never
\* becomes a better one, whatever number becomes known in whatever order
\* (audit/risk_signals.py).
THEOREM WeakGradesStand == Spec => WeakStaysWeak
<1>1. ASSUME GatheredInv, [Next]_vars, subject.part = "risk",
             <<subject, evidence>>' # <<subject, evidence>>
      PROVE  /\ \A f \in DOMAIN R!RedFlags(RiskPayload) :
                  R!RedFlags(RiskPayload)[f] # "UNKNOWN"
                    => R!RedFlags(RiskPayload)[f]' = R!RedFlags(RiskPayload)[f]
             /\ R!AccountingGrade(RiskPayload) = "WEAK" => R!AccountingGrade(RiskPayload)' = "WEAK"
             /\ R!AccountingGrade(RiskPayload) = "WATCH"
                  => R!AccountingGrade(RiskPayload)' \in {"WATCH", "WEAK"}
             /\ R!CapitalAssessment(RiskPayload) = "WATCH"
                  => R!CapitalAssessment(RiskPayload)' = "WATCH"
  <2>1. EvidenceStep
    BY <1>1, GatheringSteps
  <2>2. KnowsMore(RiskPayload, RiskPayload')
    BY <1>1, <2>1, RiskPayloadGrows DEF GatheredInv
  <2>3. QED
    BY <2>2, RedFlagsStand, GradesStand
<1>2. GatheredInv /\ [Next]_vars =>
        [subject.part = "risk" =>
           /\ \A f \in DOMAIN R!RedFlags(RiskPayload) :
                R!RedFlags(RiskPayload)[f] # "UNKNOWN"
                  => R!RedFlags(RiskPayload)[f]' = R!RedFlags(RiskPayload)[f]
           /\ R!AccountingGrade(RiskPayload) = "WEAK" => R!AccountingGrade(RiskPayload)' = "WEAK"
           /\ R!AccountingGrade(RiskPayload) = "WATCH" => R!AccountingGrade(RiskPayload)' \in {"WATCH", "WEAK"}
           /\ R!CapitalAssessment(RiskPayload) = "WATCH" => R!CapitalAssessment(RiskPayload)' = "WATCH"]_<<subject, evidence>>
  BY <1>1
<1>3. QED
  BY <1>2, GatheredAtFirst, GatheredAlways, PTL DEF Spec, WeakStaysWeak

\* A PASS or a FAIL is never taken back when another field becomes known, but for
\* H5 and H6 when the company turns out to make losses and for the dividend when
\* its gate or its history arrives, for every check, type of company and order of
\* arrival (checks/*.py, checks/_helpers.py:39).
THEOREM VerdictsStand == Spec => KnownVerdictsStand
<1>1. ASSUME GatheredInv, GatheredInv', [Next]_vars, subject.part = "check",
             <<subject, evidence>>' # <<subject, evidence>>,
             C!Known(C!Verdict(Payload, Payload.fair_value, subject.of)),
             \A f \in Switches(subject.of) : ~Given(f)
      PROVE  C!Verdict(Payload, Payload.fair_value, subject.of)'
               = C!Verdict(Payload, Payload.fair_value, subject.of)
  <2>1. EvidenceStep /\ subject' = subject
    BY <1>1, GatheringSteps, PartsStay
  <2>2. C!Verdict(Payload', Payload'.fair_value, subject.of)
          = C!Verdict(Payload, Payload.fair_value, subject.of)
    BY <1>1, <2>1, VerdictStands DEF GatheredInv
  <2>3. QED
    BY <2>1, <2>2
<1>2. GatheredInv /\ GatheredInv' /\ [Next]_vars =>
        [subject.part = "check" =>
           LET verdict == C!Verdict(Payload, Payload.fair_value, subject.of) IN
           C!Known(verdict) /\ (\A f \in Switches(subject.of) : ~Given(f))
             => C!Verdict(Payload, Payload.fair_value, subject.of)' = verdict]_<<subject, evidence>>
  BY <1>1
<1>3. QED
  BY <1>2, GatheredAtFirst, GatheredAlways, PTL DEF Spec, KnownVerdictsStand

\* An axis scores no more points than it has checks with every input of the
\* comparison made, and knows no more but for the two dividend checks that fail by
\* default; a check with all its inputs is never said to lack one.  For any numbers
\* and lengths of history (checks/*.py, scoring/axis_scores.py).
THEOREM ScoresAreBacked == Spec => []ScoresAreBackedByData
<1>1. GatheredInv => ScoresAreBackedByData
  BY ScoreIsBacked DEF GatheredInv, ScoresAreBackedByData
<1>2. QED
  BY <1>1, GatheredAtFirst, GatheredAlways, PTL DEF Spec

\* A company without a value gets, as root causes of its UNKNOWN checks, just the
\* rates that its payload lacks, for every type of company and whatever else is
\* known (checks/_helpers.py, audit/missing_inputs.py).
THEOREM LostValuesAreExplained == Spec => []RootCauseIsReported
<1>1. RootCauseIsReported
  BY Zenon, RatesAreNamed DEF RootCauseIsReported
<1>2. QED
  BY <1>1, PTL

\* More data takes a value away only by replacing a rate or a growth that it stood
\* on, by an estimate that cannot be extrapolated, or by moving a bank to excess
\* returns, for every model and every rate (valuation/resolve.py).
THEOREM ValuesAreKept == Spec => ValueIsLostOnlyBySwitches
<1> DEFINE Switched == \E f \in (Rates \ {"risk_free_rate"})
                                \cup {"fcf_estimates", "bank_data", "stable_future_roe"} : Given(f)
<1>1. ASSUME GatheredInv, [Next]_vars, subject.part = "valuation",
             <<subject, evidence>>' # <<subject, evidence>>,
             Valued(ValuationInputs), ~Valued(ValuationInputs)'
      PROVE  Switched
  <2> SUFFICES ASSUME ~Switched PROVE FALSE
    OBVIOUS
  <2>1. EvidenceStep
    BY <1>1, GatheringSteps
  <2>2. \A f \in Turning : ~Given(f)
    BY DEF Turning
  <2>3. ValuedAs(ValuationInputs, ValuationInputs') /\ ValuationInputs.company_type \in V!CompanyTypes
    BY <1>1, <2>1, <2>2, InputsGrow DEF GatheredInv
  <2>4. Valued(ValuationInputs')
    BY <1>1, <2>3, ValuedStands
  <2>5. QED
    BY <1>1, <2>4
<1>2. GatheredInv /\ [Next]_vars =>
        [subject.part = "valuation" /\ Valued(ValuationInputs) /\ ~Valued(ValuationInputs)'
           => Switched]_<<subject, evidence>>
  BY <1>1
<1>3. QED
  BY <1>2, GatheredAtFirst, GatheredAlways, PTL DEF Spec, ValueIsLostOnlyBySwitches
=============================================================================
