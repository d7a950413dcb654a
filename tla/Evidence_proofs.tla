-------------------------- MODULE Evidence_proofs ---------------------------
(***************************************************************************)
(* Lemmas about Evidence, for any values a field may get and any number of *)
(* checks: what is known stays known while a subject gathers data; a check *)
(* with a verdict has read a field it has, and keeps the verdict.          *)
(***************************************************************************)
EXTENDS Evidence, TLAPS, FiniteSetTheorems, WellFoundedInduction

\* The least member of a set of numbers.
LEMMA LeastOf ==
  ASSUME NEW X, X \subseteq Nat, X # {}
  PROVE  \E n \in X : \A m \in X : n <= m
<1>1. PICK n \in X : \A m \in X : <<m, n>> \notin OpToRel(<, Nat)
  BY NatLessThanWellFounded, WFMin
<1>2. OpToRel(<, Nat) = {ss \in Nat \X Nat : ss[1] < ss[2]}
  BY DEF OpToRel
<1>3. ASSUME NEW m \in X PROVE n <= m
  <2>1. n \in Nat /\ m \in Nat /\ <<m, n>> \in Nat \X Nat
    OBVIOUS
  <2>2. ~(m < n)
    BY <1>1, <1>2, <2>1
  <2>3. QED
    BY <2>1, <2>2
<1>4. QED
  BY <1>3

-----------------------------------------------------------------------------
(* Sums over a finite set *)

\* The member a sum takes first, and what sums h over each subset of X.
First(s) == CHOOSE x \in s : TRUE
Sums(f, X, h) ==
  f = [s \in SUBSET X |-> IF s = {} THEN 0 ELSE h[First(s)] + f[s \ {First(s)}]]

LEMMA FirstIs ==
  ASSUME NEW X, IsFiniteSet(X), NEW s \in SUBSET X, s # {}
  PROVE  /\ First(s) \in s
         /\ s \ {First(s)} \in SUBSET X
         /\ Cardinality(s) \in Nat /\ Cardinality(s \ {First(s)}) \in Nat
         /\ Cardinality(s \ {First(s)}) = Cardinality(s) - 1
<1>1. First(s) \in s
  BY DEF First
<1>2. IsFiniteSet(s)
  BY FS_Subset
<1>3. Cardinality(s) \in Nat /\ IsFiniteSet(s \ {First(s)})
      /\ Cardinality(s \ {First(s)}) = Cardinality(s) - 1
  BY <1>1, <1>2, FS_CardinalityType, FS_RemoveElement
<1>4. Cardinality(s \ {First(s)}) \in Nat
  BY <1>3, FS_CardinalityType
<1>5. QED
  BY <1>1, <1>3, <1>4

\* Every sum over a finite set is defined: what sums the sets of n members can be
\* extended to those of n + 1.
LEMMA SumsExist ==
  ASSUME NEW X, IsFiniteSet(X), NEW h, \A x \in X : h[x] \in Int
  PROVE  \E f : Sums(f, X, h)
<1> DEFINE Upto(n) == {s \in SUBSET X : Cardinality(s) <= n}
           Partly(n) == {f \in [Upto(n) -> Int] :
                           \A s \in Upto(n) : f[s] = IF s = {} THEN 0 ELSE h[First(s)] + f[s \ {First(s)}]}
           Bad == {n \in Nat : Partly(n) = {}}
<1>1. \A s \in SUBSET X : Cardinality(s) \in Nat /\ (Cardinality(s) = 0 => s = {})
  BY FS_Subset, FS_CardinalityType, FS_EmptySet
<1>2. Cardinality({}) = 0
  BY FS_EmptySet
<1>3. Partly(0) # {}
  <2> DEFINE f == [s \in Upto(0) |-> 0]
  <2>1. \A s \in Upto(0) : s = {}
    BY <1>1
  <2>2. f \in Partly(0)
    BY <2>1
  <2>3. QED
    BY <2>2
<1>4. ASSUME NEW n \in Nat, Partly(n) # {} PROVE Partly(n + 1) # {}
  <2>1. PICK f \in Partly(n) : TRUE
    BY <1>4
  <2>2. f \in [Upto(n) -> Int] /\ \A s \in Upto(n) : f[s] = IF s = {} THEN 0 ELSE h[First(s)] + f[s \ {First(s)}]
    BY <2>1
  <2> DEFINE g == [s \in Upto(n + 1) |-> IF s = {} THEN 0 ELSE h[First(s)] + f[s \ {First(s)}]]
  <2>3. ASSUME NEW s \in Upto(n + 1), s # {}
        PROVE  First(s) \in X /\ s \ {First(s)} \in Upto(n) /\ s \ {First(s)} \in Upto(n + 1)
    <3>1. s \in SUBSET X /\ Cardinality(s) <= n + 1
      OBVIOUS
    <3>2. QED
      BY <3>1, <2>3, FirstIs
  <2>4. g \in [Upto(n + 1) -> Int]
    BY <2>2, <2>3
  <2>5. \A s \in Upto(n) : s \in Upto(n + 1) /\ g[s] = f[s]
    BY <1>1, <2>2
  <2>6. ASSUME NEW s \in Upto(n + 1) PROVE g[s] = IF s = {} THEN 0 ELSE h[First(s)] + g[s \ {First(s)}]
    BY <2>3, <2>5
  <2>7. g \in Partly(n + 1)
    BY <2>4, <2>6
  <2>8. QED
    BY <2>7
<1>5. Bad = {}
  <2> HIDE DEF Partly
  <2>1. SUFFICES ASSUME Bad # {} PROVE FALSE
    OBVIOUS
  <2>2. PICK n \in Bad : \A m \in Bad : n <= m
    BY <2>1, LeastOf
  <2>3. n \in Nat \ {0} /\ n - 1 \in Nat /\ n - 1 \notin Bad
    BY <2>2, <1>3
  <2>4. Partly((n - 1) + 1) # {}
    BY <2>3, <1>4
  <2>5. QED
    BY <2>2, <2>3, <2>4
<1>6. Cardinality(X) \in Nat /\ Upto(Cardinality(X)) = SUBSET X
  BY FS_CardinalityType, FS_Subset
<1>7. Partly(Cardinality(X)) # {}
  <2> HIDE DEF Partly
  <2>1. QED
    BY <1>5, <1>6
<1>8. PICK f \in Partly(Cardinality(X)) : TRUE
  BY <1>7
<1>9. f \in [SUBSET X -> Int] /\ \A s \in SUBSET X : f[s] = IF s = {} THEN 0 ELSE h[First(s)] + f[s \ {First(s)}]
  BY <1>6, <1>8
<1>10. QED
  BY <1>9 DEF Sums

\* Larger terms, larger sum.
LEMMA SumsGrow ==
  ASSUME NEW X, IsFiniteSet(X), NEW h, NEW k, \A x \in X : h[x] \in Int /\ k[x] \in Int /\ h[x] <= k[x],
         NEW f, Sums(f, X, h), NEW g, Sums(g, X, k)
  PROVE  f[X] \in Int /\ g[X] \in Int /\ f[X] <= g[X]
<1> DEFINE Good(s) == f[s] \in Int /\ g[s] \in Int /\ f[s] <= g[s]
           Bad == {n \in Nat : \E s \in SUBSET X : Cardinality(s) = n /\ ~Good(s)}
<1>1. ASSUME NEW s \in SUBSET X, s = {} \/ Good(s \ {First(s)}) PROVE Good(s)
  <2>1. /\ f[s] = IF s = {} THEN 0 ELSE h[First(s)] + f[s \ {First(s)}]
        /\ g[s] = IF s = {} THEN 0 ELSE k[First(s)] + g[s \ {First(s)}]
    BY DEF Sums
  <2>2. CASE s = {}
    BY <2>1, <2>2
  <2>3. CASE s # {}
    <3>1. First(s) \in X
      BY <2>3, FirstIs
    <3>2. QED
      BY <1>1, <2>1, <2>3, <3>1
  <2>4. QED
    BY <2>2, <2>3
<1> HIDE DEF Good
<1>2. ASSUME Bad # {} PROVE FALSE
  <2>1. PICK n \in Bad : \A m \in Bad : n <= m
    BY <1>2, LeastOf
  <2>2. PICK s \in SUBSET X : Cardinality(s) = n /\ ~Good(s)
    BY <2>1
  <2>3. s # {} /\ ~Good(s \ {First(s)})
    BY <1>1, <2>2
  <2>4. s \ {First(s)} \in SUBSET X /\ Cardinality(s \ {First(s)}) \in Nat /\ Cardinality(s \ {First(s)}) < n
    BY <2>2, <2>3, FirstIs
  <2>5. Cardinality(s \ {First(s)}) \in Bad
    BY <2>3, <2>4
  <2>6. QED
    BY <2>1, <2>4, <2>5
<1>3. Cardinality(X) \in Nat
  BY FS_CardinalityType
<1>4. Good(X)
  BY <1>2, <1>3
<1>5. QED
  BY <1>4 DEF Good

-----------------------------------------------------------------------------
(* The invariant *)

LEMMA GatheredBegins == EvidenceInit => GatheredInv
<1> SUFFICES ASSUME EvidenceInit PROVE GatheredInv
  OBVIOUS
<1>1. CASE /\ subject \in CheckSubjects
           /\ evidence = Without(FieldsOfCheck(subject.of, subject.type))
  <2>1. subject.part = "check"
    BY <1>1 DEF CheckSubjects
  <2>2. QED
    BY <1>1, <2>1 DEF GatheredInv, CheckInv, ValuationInv, RiskInv, AuditInv, Without
<1>2. CASE \E type \in V!CompanyTypes \ {"insurance"} :
             /\ subject = [part |-> "valuation", type |-> type]
             /\ evidence = Without(ReadByModel(type))
  BY <1>2 DEF GatheredInv, CheckInv, ValuationInv, RiskInv, AuditInv, Without
<1>3. CASE \E g \in DOMAIN RiskGroups :
             /\ subject = [part |-> "risk", of |-> g]
             /\ evidence = Without(RiskGroups[g])
  <2>1. PICK g \in DOMAIN RiskGroups : /\ subject = [part |-> "risk", of |-> g]
                                       /\ evidence = Without(RiskGroups[g])
    BY <1>3
  <2>2. subject.part = "risk" /\ subject.of = g /\ DOMAIN evidence = RiskGroups[g]
    BY <2>1 DEF Without
  <2>3. QED
    BY <2>2 DEF GatheredInv, CheckInv, ValuationInv, RiskInv, AuditInv
<1>4. CASE \E i \in Identities, q \in {"exact", None} :
             /\ subject = [part |-> "audit", of |-> [identity |-> i, lineage |-> q]]
             /\ evidence = [exact |-> 0, approximation |-> 0, assumption |-> 0, missing |-> 0, age |-> 0]
  <2>1. /\ subject.part = "audit" /\ subject.of.lineage \in {"exact", None}
        /\ evidence = [exact |-> 0, approximation |-> 0, assumption |-> 0, missing |-> 0, age |-> 0]
    BY <1>4
  <2>2. DOMAIN evidence = Qualities \cup {"age"} /\ \A q \in Qualities : evidence[q] = 0
    BY <2>1 DEF Qualities
  <2>3. Judged <= SomeChecks
    BY <2>2, SomeChecksAssumption DEF Judged, Qualities
  <2>4. QED
    BY <2>1, <2>2, <2>3 DEF GatheredInv, CheckInv, ValuationInv, RiskInv, AuditInv
<1>5. QED
  BY <1>1, <1>2, <1>3, <1>4 DEF EvidenceInit

LEMMA GatheredNext == GatheredInv /\ EvidenceStep => GatheredInv'
<1> SUFFICES ASSUME GatheredInv, EvidenceStep PROVE GatheredInv'
  OBVIOUS
<1> USE DEF GatheredInv
<1>1. CASE \E item \in DOMAIN evidence : Supply(item)
  <2>1. /\ subject' = subject /\ subject.part # "audit"
        /\ DOMAIN evidence' = DOMAIN evidence
    BY <1>1 DEF Supply
  <2>2. QED
    BY <2>1 DEF CheckInv, ValuationInv, RiskInv, AuditInv
<1>2. CASE \E q \in Qualities : Settle(q)
  <2>1. PICK q \in Qualities : Settle(q)
    BY <1>2
  <2>2. /\ subject' = subject /\ subject.part = "audit" /\ Judged < SomeChecks
        /\ evidence' = [evidence EXCEPT ![q] = evidence[q] + 1]
    BY <2>1 DEF Settle
  <2>3. /\ DOMAIN evidence = Qualities \cup {"age"} /\ \A x \in Qualities : evidence[x] \in Nat
    BY <2>2 DEF AuditInv
  <2>4. DOMAIN evidence' = Qualities \cup {"age"} /\ \A x \in Qualities : evidence'[x] \in Nat
    BY <2>2, <2>3
  <2>5. Judged' = Judged + 1 /\ Judged \in Nat
    BY <2>2, <2>3 DEF Judged, Qualities
  <2>6. QED
    BY <2>2, <2>4, <2>5, SomeChecksAssumption DEF CheckInv, ValuationInv, RiskInv, AuditInv
<1>3. CASE Age
  <2>1. /\ subject' = subject /\ subject.part = "audit"
        /\ evidence' = [evidence EXCEPT !["age"] = 2]
    BY <1>3 DEF Age
  <2>2. /\ DOMAIN evidence' = DOMAIN evidence
        /\ \A q \in Qualities : q \in DOMAIN evidence => evidence'[q] = evidence[q]
    BY <2>1 DEF Qualities
  <2>3. Judged' = Judged
    BY <2>1, <2>2 DEF Judged, Qualities, AuditInv
  <2>4. QED
    BY <2>1, <2>2, <2>3 DEF CheckInv, ValuationInv, RiskInv, AuditInv
<1>4. QED
  BY <1>1, <1>2, <1>3 DEF EvidenceStep

LEMMA GatheredStays == GatheredInv /\ UNCHANGED <<subject, evidence>> => GatheredInv'
BY DEF GatheredInv, CheckInv, ValuationInv, RiskInv, AuditInv, Judged

-----------------------------------------------------------------------------
(* The audit *)

\* The ladder is climbed from the types the standard model does not fit.
LEMMA UnfitTypes ==
  ASSUME NEW company,
         A!CompanyType(company) \in {"standard_industrial", "saas"}
  PROVE  ({company.master} \cup company.words)
           \cap {"fund", "bank", "insurance", "reit", "adr", "utility", "commodity"} = {}
<1> DEFINE rungs == {i \in DOMAIN A!Ladder : A!RungHolds(A!Ladder[i], company)}
<1>1. DOMAIN A!Ladder = 1..11
  BY DEF A!Ladder
<1>2. rungs # {} /\ A!CompanyType(company) = A!Ladder[A!Min(rungs)]
  BY DEF A!CompanyType
<1>3. A!Min(rungs) \in rungs /\ \A j \in rungs : A!Min(rungs) <= j
  <2>1. \E n \in rungs : \A m \in rungs : n <= m
    BY <1>1, <1>2, LeastOf
  <2>2. QED
    BY <2>1 DEF A!Min
<1> HIDE DEF rungs
<1>4. A!Min(rungs) \in {8, 11}
  <2>1. A!Min(rungs) \in 1..11
    BY <1>1, <1>3 DEF rungs
  <2>2. A!Ladder[A!Min(rungs)] \in {"standard_industrial", "saas"}
    BY <1>2
  <2>3. /\ A!Ladder[1] = "fund_etf_excluded" /\ A!Ladder[2] = "bank" /\ A!Ladder[3] = "insurance"
        /\ A!Ladder[4] = "reit" /\ A!Ladder[5] = "adr_foreign" /\ A!Ladder[6] = "utility"
        /\ A!Ladder[7] = "commodity_cyclical" /\ A!Ladder[8] = "saas" /\ A!Ladder[9] = "pharma"
        /\ A!Ladder[10] = "loss_making"
    BY DEF A!Ladder
  <2>4. QED
    BY <2>1, <2>2, <2>3
<1>5. \A j \in 1..7 : j \notin rungs
  <2>1. \A j \in 1..7 : ~(8 <= j) /\ ~(11 <= j)
    OBVIOUS
  <2>2. QED
    BY <1>3, <1>4, <2>1
<1>6. \A j \in 1..7 : ~A!RungHolds(A!Ladder[j], company)
  BY <1>1, <1>5 DEF rungs
<1>7. /\ ~A!RungHolds("fund_etf_excluded", company) /\ ~A!RungHolds("bank", company)
      /\ ~A!RungHolds("insurance", company) /\ ~A!RungHolds("reit", company)
      /\ ~A!RungHolds("adr_foreign", company) /\ ~A!RungHolds("utility", company)
      /\ ~A!RungHolds("commodity_cyclical", company)
  <2>1. /\ A!Ladder[1] = "fund_etf_excluded" /\ A!Ladder[2] = "bank" /\ A!Ladder[3] = "insurance"
        /\ A!Ladder[4] = "reit" /\ A!Ladder[5] = "adr_foreign" /\ A!Ladder[6] = "utility"
        /\ A!Ladder[7] = "commodity_cyclical"
    BY DEF A!Ladder
  <2>2. {1, 2, 3, 4, 5, 6, 7} \subseteq 1..7
    OBVIOUS
  <2>3. QED
    BY <1>6, <2>1, <2>2
<1>8. \A word \in {"fund", "bank", "insurance", "reit", "adr", "utility", "commodity"} :
        word # A!RawType(company) /\ word \notin company.words
  BY <1>7 DEF A!RungHolds
<1>9. \A word \in {"fund", "bank", "insurance", "reit", "adr", "utility", "commodity"} :
        word # company.master
  BY <1>8, NoneIsNoWord DEF A!RawType
<1>10. QED
  BY <1>8, <1>9

\* A check is unknown unless it was judged.
LEMMA UnjudgedIsUnknown ==
  ASSUME AuditInv, subject.part = "audit", A!UnknownChecks(Output) = {}
  PROVE  Judged = SomeChecks
<1>1. Judged <= SomeChecks /\ Judged \in Nat /\ SomeChecks \in Nat
  BY SomeChecksAssumption DEF AuditInv, Judged, Qualities
<1>2. ASSUME Judged # SomeChecks PROVE FALSE
  <2>1. SomeChecks \in 1..SomeChecks /\ SomeChecks > Judged
    BY <1>1, <1>2
  <2>2. SomeChecks \in DOMAIN Output /\ Output[SomeChecks] = "unknown"
    BY <2>1 DEF Output
  <2>3. QED
    BY <2>2 DEF A!UnknownChecks
<1>3. QED
  BY <1>2

LEMMA LowRiskLemma ==
  ASSUME AuditInv, subject.part = "audit", Risk = "LOW"
  PROVE  /\ Judged = SomeChecks
         /\ ~subject.of.identity.pragmatic /\ ~subject.of.identity.warned
         /\ ({subject.of.identity.company.master} \cup subject.of.identity.company.words)
              \cap {"fund", "bank", "insurance", "reit", "adr", "utility", "commodity"} = {}
<1> DEFINE dc == Confidence
           ma == Applicability
<1>1. ~A!HighRisk(dc, ma) /\ ~A!MediumRisk(dc)
  BY DEF Risk, A!ConclusionRisk
<1>2. /\ dc.level # "UNKNOWN" /\ ~(dc.unknown >= ManyUnknown)
      /\ ma.status \notin {"NOT_APPLICABLE", "DEGRADED", "UNKNOWN"}
      /\ dc.unknown \notin 1..ManyUnknown - 1 /\ ~dc.degraded
  BY <1>1 DEF A!HighRisk, A!MediumRisk
<1>3. /\ dc.unknown = A!Cardinality(A!UnknownChecks(Output))
      /\ dc.degraded = (subject.of.identity.pragmatic \/ subject.of.identity.warned)
  BY <1>2 DEF Confidence, A!DataConfidence
<1>4. Judged = SomeChecks
  <2>1. DOMAIN Output = 1..SomeChecks
    BY DEF Output
  <2>2. IsFiniteSet(A!UnknownChecks(Output))
    BY <2>1, SomeChecksAssumption, FS_Interval, FS_Subset DEF A!UnknownChecks
  <2>3. dc.unknown = Cardinality(A!UnknownChecks(Output)) /\ dc.unknown \in Nat
    BY <1>3, <2>2, FS_CardinalityType DEF Cardinality, A!Cardinality
  <2>4. dc.unknown = 0
    BY <1>2, <2>3, ThresholdsAssumption
  <2>5. A!UnknownChecks(Output) = {}
    BY <2>2, <2>3, <2>4, FS_EmptySet
  <2>6. QED
    BY <2>5, UnjudgedIsUnknown
<1>5. A!CompanyType(subject.of.identity.company) \in {"standard_industrial", "saas"}
  BY <1>2 DEF Applicability, A!ModelApplicability, A!ApplicabilityStatus
<1>6. ({subject.of.identity.company.master} \cup subject.of.identity.company.words)
         \cap {"fund", "bank", "insurance", "reit", "adr", "utility", "commodity"} = {}
  BY <1>5, UnfitTypes
<1>7. ~subject.of.identity.pragmatic /\ ~subject.of.identity.warned
  BY <1>2, <1>3
<1>8. QED
  BY <1>4, <1>6, <1>7

-----------------------------------------------------------------------------
(* The confidence in an output *)

\* How many checks have which quality.
LEMMA CountsAre ==
  ASSUME AuditInv, subject.part = "audit"
  PROVE  /\ DOMAIN Output = 1..SomeChecks
         /\ A!Cardinality(DOMAIN Output) = SomeChecks
         /\ A!Cardinality(A!UnknownChecks(Output)) = SomeChecks - Judged
         /\ A!Weighed(Output) = 100 * evidence.exact + 60 * evidence.approximation + 30 * evidence.assumption
<1> DEFINE e == evidence.exact
           a == e + evidence.approximation
           s == a + evidence.assumption
           Of(q) == {c \in DOMAIN Output : Output[c] = q}
<1>1. e \in Nat /\ evidence.approximation \in Nat /\ evidence.assumption \in Nat /\ evidence.missing \in Nat
  BY DEF AuditInv, Qualities
<1>2. /\ e \in Nat /\ a \in Nat /\ s \in Nat /\ Judged \in Nat /\ SomeChecks \in Nat
      /\ e <= a /\ a <= s /\ s <= Judged /\ Judged <= SomeChecks
  BY <1>1, SomeChecksAssumption DEF AuditInv, Judged
<1>3. Output = [c \in 1..SomeChecks |->
                  IF c > Judged THEN "unknown"
                  ELSE CASE c <= e            -> "exact"
                         [] c > e /\ c <= a   -> "approximation"
                         [] c > a /\ c <= s   -> "assumption"
                         [] OTHER             -> "missing"]
  BY DEF Output
<1> HIDE DEF e, a, s
<1>4. ASSUME NEW c \in 1..SomeChecks
      PROVE  /\ Output[c] = "exact" <=> c \in 1..e
             /\ Output[c] = "approximation" <=> c \in e + 1..a
             /\ Output[c] = "assumption" <=> c \in a + 1..s
             /\ Output[c] = "unknown" <=> c \in Judged + 1..SomeChecks
  <2>1. Output[c] = IF c > Judged THEN "unknown"
                    ELSE CASE c <= e            -> "exact"
                           [] c > e /\ c <= a   -> "approximation"
                           [] c > a /\ c <= s   -> "assumption"
                           [] OTHER             -> "missing"
    BY <1>3
  <2>2. QED
    BY <1>2, <2>1
<1>5. DOMAIN Output = 1..SomeChecks
  BY <1>3
<1>6. /\ Of("exact") = 1..e /\ Of("approximation") = e + 1..a
      /\ Of("assumption") = a + 1..s /\ Of("unknown") = Judged + 1..SomeChecks
  BY <1>2, <1>4, <1>5
<1>7. \A x, y \in Nat : x <= y => Cardinality(x + 1..y) = y - x
  <2> SUFFICES ASSUME NEW x \in Nat, NEW y \in Nat, x <= y PROVE Cardinality(x + 1..y) = y - x
    OBVIOUS
  <2>1. x + 1 \in Int /\ y \in Int
    OBVIOUS
  <2>2. Cardinality(x + 1..y) = IF x + 1 > y THEN 0 ELSE y - (x + 1) + 1
    BY <2>1, FS_Interval
  <2>3. QED
    BY <2>2
<1>8. \A X : A!Cardinality(X) = Cardinality(X)
  BY DEF Cardinality, A!Cardinality
<1>9. /\ Cardinality(1..SomeChecks) = SomeChecks /\ Cardinality(1..e) = e
      /\ Cardinality(e + 1..a) = a - e /\ Cardinality(a + 1..s) = s - a
      /\ Cardinality(Judged + 1..SomeChecks) = SomeChecks - Judged
  <2>1. \A y \in Nat : Cardinality(0 + 1..y) = y
    BY <1>7
  <2>2. QED
    BY <1>2, <1>7, <2>1
<1>10. A!Weighed(Output) = 100 * e + 60 * (a - e) + 30 * (s - a)
  <2>1. A!Weighed(Output) = A!Weight.exact * A!Cardinality(Of("exact"))
                            + A!Weight.approximation * A!Cardinality(Of("approximation"))
                            + A!Weight.assumption * A!Cardinality(Of("assumption"))
    BY DEF A!Weighed
  <2>2. A!Weight.exact = 100 /\ A!Weight.approximation = 60 /\ A!Weight.assumption = 30
    BY DEF A!Weight
  <2>3. /\ A!Cardinality(Of("exact")) = e /\ A!Cardinality(Of("approximation")) = a - e
        /\ A!Cardinality(Of("assumption")) = s - a
    BY <1>6, <1>8, <1>9
  <2> HIDE DEF Of
  <2>4. QED
    BY <2>1, <2>2, <2>3
<1>11. A!UnknownChecks(Output) = Of("unknown")
  BY DEF A!UnknownChecks
<1>12. a - e = evidence.approximation /\ s - a = evidence.assumption /\ e = evidence.exact
  BY <1>1 DEF a, s, e
<1>13. A!Weighed(Output) = 100 * evidence.exact + 60 * evidence.approximation + 30 * evidence.assumption
  BY <1>10, <1>12
<1>14. QED
  BY <1>5, <1>6, <1>8, <1>9, <1>11, <1>13

\* What the lineage of one field adds up to: nothing, or the weight of an exact
\* field, which counts half when stale.
LEMMA LineageIs ==
  ASSUME AuditInv, subject.part = "audit"
  PROVE  A!LineageSum(Lineage, [price |-> 1]) =
           IF subject.of.lineage = None THEN 0 ELSE IF evidence.age > 1 THEN 100 ELSE 200
<1> DEFINE ttl == [price |-> 1]
           n == (IF A!Stale(Lineage["price"], ttl) THEN 1 ELSE 2) * A!Weight[Lineage["price"].quality]
           Plain(f, X) == f = [s \in SUBSET X |-> IF s = {} THEN 0
                            ELSE (IF A!Stale(Lineage[CHOOSE x \in s : TRUE], ttl) THEN 1 ELSE 2)
                                   * A!Weight[Lineage[CHOOSE x \in s : TRUE].quality]
                                 + f[s \ {CHOOSE x \in s : TRUE}]]
<1>1. CASE subject.of.lineage = None
  <2>1. DOMAIN Lineage = {}
    BY <1>1 DEF Lineage
  <2>2. \E f : Plain(f, {})
    <3> DEFINE f == [s \in SUBSET {} |-> 0]
    <3>1. Plain(f, {})
      OBVIOUS
    <3>2. QED
      BY <3>1
  <2>3. \E f : Plain(f, {}) /\ A!LineageSum(Lineage, ttl) = f[{}]
    BY <2>1, <2>2, Zenon DEF A!LineageSum, A!MapThenSumSet, A!MapThenFoldSet
  <2>4. QED
    BY <1>1, <2>3
<1>2. CASE subject.of.lineage = "exact" /\ subject.of.lineage # None
  <2>1. Lineage = [price |-> [quality |-> "exact", age |-> evidence.age, tier |-> "price"]]
    BY <1>2 DEF Lineage
  <2>2. DOMAIN Lineage = {"price"}
    BY <2>1
  <2>3. n = IF evidence.age > 1 THEN 100 ELSE 200
    <3>1. Lineage["price"] = [quality |-> "exact", age |-> evidence.age, tier |-> "price"]
      BY <2>1
    <3>2. A!Stale(Lineage["price"], ttl) <=> evidence.age > 1
      BY <3>1 DEF A!Stale
    <3>3. A!Weight[Lineage["price"].quality] = 100
      BY <3>1 DEF A!Weight
    <3>4. QED
      BY <3>2, <3>3
  <2> HIDE DEF n
  <2>4. \E f : Plain(f, {"price"})
    <3> DEFINE f == [s \in SUBSET {"price"} |-> IF s = {} THEN 0 ELSE n + 0]
    <3>1. ASSUME NEW s \in SUBSET {"price"}, s # {}
          PROVE  s = {"price"} /\ (CHOOSE x \in s : TRUE) = "price" /\ s \ {CHOOSE x \in s : TRUE} = {}
      <4>1. s = {"price"}
        BY <3>1
      <4>2. (CHOOSE x \in {"price"} : TRUE) = "price"
        OBVIOUS
      <4>3. QED
        BY <4>1, <4>2
    <3>2. f[{}] = 0
      OBVIOUS
    <3>3. Plain(f, {"price"})
      <4>1. ASSUME NEW s \in SUBSET {"price"}
            PROVE  f[s] = IF s = {} THEN 0
                            ELSE (IF A!Stale(Lineage[CHOOSE x \in s : TRUE], ttl) THEN 1 ELSE 2)
                                   * A!Weight[Lineage[CHOOSE x \in s : TRUE].quality]
                                 + f[s \ {CHOOSE x \in s : TRUE}]
        BY <3>1, <3>2 DEF n
      <4>2. QED
        BY <4>1
    <3>4. QED
      BY <3>3
  <2>5. \E f : Plain(f, {"price"}) /\ A!LineageSum(Lineage, ttl) = f[{"price"}]
    <3>1. \E f : Plain(f, DOMAIN Lineage)
      <4> HIDE DEF Plain
      <4>1. QED
        BY <2>2, <2>4
    <3>2. \E f : Plain(f, DOMAIN Lineage) /\ A!LineageSum(Lineage, ttl) = f[DOMAIN Lineage]
      BY <3>1, Zenon DEF A!LineageSum, A!MapThenSumSet, A!MapThenFoldSet
    <3> HIDE DEF Plain
    <3>3. QED
      BY <2>2, <3>2
  <2>6. PICK f : Plain(f, {"price"}) /\ A!LineageSum(Lineage, ttl) = f[{"price"}]
    BY <2>5
  <2>7. f[{"price"}] = n + f[{}] /\ f[{}] = 0
    <3>1. (CHOOSE x \in {"price"} : TRUE) = "price"
      OBVIOUS
    <3>2. QED
      BY <2>6, <3>1 DEF n
  <2>8. QED
    BY <1>2, <2>3, <2>6, <2>7
<1>3. QED
  BY <1>1, <1>2 DEF AuditInv

\* The score of an output: what is known, its quality, and the lineage.
LEMMA ScoresAre ==
  ASSUME AuditInv, subject.part = "audit"
  PROVE  /\ A!FullScore(Output, Lineage) = 200 * SomeChecks
         /\ A!RawScore(Output, Lineage, [price |-> 1]) =
              12000 * Judged + 60 * (100 * evidence.exact + 60 * evidence.approximation
                                       + 30 * evidence.assumption)
                + 10 * SomeChecks * A!LineageSum(Lineage, [price |-> 1])
<1>1. /\ evidence.exact \in Nat /\ evidence.approximation \in Nat /\ evidence.assumption \in Nat
      /\ Judged \in Nat /\ SomeChecks \in Nat
  <2>1. /\ evidence.exact \in Nat /\ evidence.approximation \in Nat /\ evidence.assumption \in Nat
        /\ evidence.missing \in Nat
    BY DEF AuditInv, Qualities
  <2>2. QED
    BY <2>1, SomeChecksAssumption DEF Judged
<1>2. (IF DOMAIN Lineage = {} THEN 1 ELSE A!Cardinality(DOMAIN Lineage)) = 1
  <2>1. CASE subject.of.lineage = None
    BY <2>1 DEF Lineage
  <2>2. CASE subject.of.lineage # None
    <3>1. DOMAIN Lineage = {"price"}
      BY <2>2 DEF Lineage
    <3>2. A!Cardinality({"price"}) = Cardinality({"price"}) /\ Cardinality({"price"}) = 1
      BY FS_Singleton DEF Cardinality, A!Cardinality
    <3>3. QED
      BY <3>1, <3>2
  <2>3. QED
    BY <2>1, <2>2
<1>3. A!FullScore(Output, Lineage) = 200 * SomeChecks * 1
  BY <1>2, CountsAre DEF A!FullScore
<1>4. A!RawScore(Output, Lineage, [price |-> 1]) =
        1 * (200 * 60 * (SomeChecks - (SomeChecks - Judged)) + 60 * A!Weighed(Output))
          + 10 * SomeChecks * A!LineageSum(Lineage, [price |-> 1])
  BY <1>2, CountsAre DEF A!RawScore, A!QualitySum
<1>5. A!Weighed(Output) = 100 * evidence.exact + 60 * evidence.approximation + 30 * evidence.assumption
  BY CountsAre
<1> DEFINE z == A!LineageSum(Lineage, [price |-> 1])
<1>6. z \in Nat
  BY LineageIs
<1> HIDE DEF z
<1>7. 10 * SomeChecks * z \in Nat
  BY <1>1, <1>6
<1>8. A!RawScore(Output, Lineage, [price |-> 1]) =
        1 * (200 * 60 * (SomeChecks - (SomeChecks - Judged))
              + 60 * (100 * evidence.exact + 60 * evidence.approximation + 30 * evidence.assumption))
          + 10 * SomeChecks * z
  BY <1>4, <1>5 DEF z
<1> DEFINE w == 10 * SomeChecks * z
<1>9. w \in Nat
  BY <1>7
<1> HIDE DEF w
<1>10. A!RawScore(Output, Lineage, [price |-> 1]) =
        1 * (200 * 60 * (SomeChecks - (SomeChecks - Judged))
              + 60 * (100 * evidence.exact + 60 * evidence.approximation + 30 * evidence.assumption))
          + w
  BY <1>8 DEF w
<1>11. A!RawScore(Output, Lineage, [price |-> 1]) =
         12000 * Judged + 60 * (100 * evidence.exact + 60 * evidence.approximation
                                  + 30 * evidence.assumption) + w
  BY <1>1, <1>9, <1>10
<1>12. A!FullScore(Output, Lineage) = 200 * SomeChecks
  BY <1>1, <1>3
<1>13. QED
  BY <1>11, <1>12 DEF w, z

\* A better score, no worse a level.
LEMMA LevelsFollow ==
  ASSUME NEW x \in Int, NEW y \in Int, NEW full \in Int, x <= y, NEW pragmatic
  PROVE  /\ A!ConfidenceLevel(A!Capped(A!Grade(x, full), pragmatic)) \in {"LOW", "MEDIUM", "HIGH"}
         /\ A!ConfidenceLevel(A!Capped(A!Grade(y, full), pragmatic)) \in {"LOW", "MEDIUM", "HIGH"}
         /\ Better[A!ConfidenceLevel(A!Capped(A!Grade(x, full), pragmatic))]
              <= Better[A!ConfidenceLevel(A!Capped(A!Grade(y, full), pragmatic))]
<1> DEFINE order == [E |-> 0, D |-> 1, C |-> 2, B |-> 3, A |-> 4]
           grades == {"A", "B", "C", "D", "E"}
<1>1. /\ A!Grade(x, full) \in grades /\ A!Grade(y, full) \in grades
      /\ order[A!Grade(x, full)] <= order[A!Grade(y, full)]
  BY DEF A!Grade
<1>2. \A g, h \in grades :
        order[g] <= order[h] =>
          /\ A!ConfidenceLevel(A!Capped(g, pragmatic)) \in {"LOW", "MEDIUM", "HIGH"}
          /\ A!ConfidenceLevel(A!Capped(h, pragmatic)) \in {"LOW", "MEDIUM", "HIGH"}
          /\ Better[A!ConfidenceLevel(A!Capped(g, pragmatic))]
               <= Better[A!ConfidenceLevel(A!Capped(h, pragmatic))]
  <2>1. CASE pragmatic
    BY <2>1 DEF A!Capped, A!ConfidenceLevel, Better
  <2>2. CASE ~pragmatic
    BY <2>2 DEF A!Capped, A!ConfidenceLevel, Better
  <2>3. QED
    BY <2>1, <2>2
<1> HIDE DEF order, grades
<1>3. QED
  BY <1>1, <1>2

\* Better confidence of as many or fewer unknown checks, no higher a risk.
LEMMA RisksFollow ==
  ASSUME NEW c, NEW d, NEW ma,
         c.level \in {"LOW", "MEDIUM", "HIGH"}, d.level \in {"LOW", "MEDIUM", "HIGH"},
         Better[c.level] <= Better[d.level],
         c.unknown \in Nat, d.unknown \in Nat, d.unknown <= c.unknown,
         c.degraded = d.degraded
  PROVE  /\ A!ConclusionRisk(c, ma) \in {"LOW", "MEDIUM", "HIGH"}
         /\ A!ConclusionRisk(d, ma) \in {"LOW", "MEDIUM", "HIGH"}
         /\ Better[A!ConclusionRisk(d, ma)] <= Better[A!ConclusionRisk(c, ma)]
<1>1. /\ c.level = "LOW" \/ d.level # "LOW"
      /\ d.level # "MEDIUM" \/ c.level # "HIGH"
  BY DEF Better
<1>2. ManyUnknown \in Nat
  BY ThresholdsAssumption
<1>3. A!HighRisk(d, ma) => A!HighRisk(c, ma)
  BY <1>1, <1>2 DEF A!HighRisk
<1>4. A!MediumRisk(d) => A!MediumRisk(c) \/ A!HighRisk(c, ma)
  <2>1. d.level = "MEDIUM" => c.level \in {"LOW", "MEDIUM"}
    BY <1>1
  <2>2. d.unknown \in 1..ManyUnknown - 1 => c.unknown \in 1..ManyUnknown - 1 \/ c.unknown >= ManyUnknown
    BY <1>2
  <2>3. QED
    BY <2>1, <2>2 DEF A!MediumRisk, A!HighRisk
<1>5. \A x \in {c, d} : A!ConclusionRisk(x, ma) =
        (CASE A!HighRisk(x, ma)                          -> "HIGH"
           [] ~A!HighRisk(x, ma) /\ A!MediumRisk(x)     -> "MEDIUM"
           [] OTHER                                      -> "LOW")
  BY DEF A!ConclusionRisk
<1>6. QED
  BY <1>3, <1>4, <1>5 DEF Better

\* What the audit says of an output whose checks were counted.
LEMMA ConfidenceIs ==
  ASSUME AuditInv, subject.part = "audit"
  PROVE  /\ Confidence.level =
              A!ConfidenceLevel(A!Capped(A!Grade(A!RawScore(Output, Lineage, [price |-> 1]),
                                                 200 * SomeChecks), subject.of.identity.pragmatic))
         /\ Confidence.unknown = SomeChecks - Judged
         /\ Confidence.degraded = (subject.of.identity.pragmatic \/ subject.of.identity.warned)
<1>1. DOMAIN Output # {}
  <2>1. 1 \in 1..SomeChecks
    BY SomeChecksAssumption
  <2>2. QED
    BY <2>1, CountsAre
<1>2. A!FullScore(Output, Lineage) = 200 * SomeChecks
  BY ScoresAre
<1>3. A!Cardinality(A!UnknownChecks(Output)) = SomeChecks - Judged
  BY CountsAre
<1>4. QED
  BY <1>1, <1>2, <1>3 DEF Confidence, A!DataConfidence

\* What the score of an output is made of.
ScoreParts ==
  /\ A!RawScore(Output, Lineage, [price |-> 1]) =
       12000 * Judged + 60 * (100 * evidence.exact + 60 * evidence.approximation
                                + 30 * evidence.assumption)
         + 10 * SomeChecks * A!LineageSum(Lineage, [price |-> 1])
  /\ A!LineageSum(Lineage, [price |-> 1]) =
       IF subject.of.lineage = None THEN 0 ELSE IF evidence.age > 1 THEN 100 ELSE 200
  /\ Confidence.level =
       A!ConfidenceLevel(A!Capped(A!Grade(A!RawScore(Output, Lineage, [price |-> 1]),
                                          200 * SomeChecks), subject.of.identity.pragmatic))
  /\ Confidence.unknown = SomeChecks - Judged
  /\ Confidence.degraded = (subject.of.identity.pragmatic \/ subject.of.identity.warned)
  /\ /\ evidence.exact \in Nat /\ evidence.approximation \in Nat
     /\ evidence.assumption \in Nat /\ evidence.missing \in Nat
  /\ Judged = evidence.exact + evidence.approximation + evidence.assumption + evidence.missing
  /\ Judged <= SomeChecks

LEMMA PartsAre == AuditInv /\ subject.part = "audit" => ScoreParts
<1> SUFFICES ASSUME AuditInv, subject.part = "audit" PROVE ScoreParts
  OBVIOUS
<1>1. /\ evidence.exact \in Nat /\ evidence.approximation \in Nat
      /\ evidence.assumption \in Nat /\ evidence.missing \in Nat
      /\ Judged <= SomeChecks
  BY DEF AuditInv, Qualities
<1>2. QED
  BY <1>1, ScoresAre, LineageIs, ConfidenceIs DEF ScoreParts, Judged

\* One more verdict or a stale field.
LEMMA AuditSteps ==
  ASSUME AuditInv, AuditInv', subject.part = "audit", EvidenceStep
  PROVE  /\ IF evidence'.age = evidence.age
            THEN Better[Confidence'.level] >= Better[Confidence.level] /\ Better[Risk'] <= Better[Risk]
            ELSE Better[Confidence'.level] <= Better[Confidence.level] /\ Better[Risk'] >= Better[Risk]
<1> DEFINE x == A!RawScore(Output, Lineage, [price |-> 1])
           y == A!RawScore(Output, Lineage, [price |-> 1])'
           v == A!LineageSum(Lineage, [price |-> 1])
           z == A!LineageSum(Lineage, [price |-> 1])'
           full == 200 * SomeChecks
           pragmatic == subject.of.identity.pragmatic
           degraded == pragmatic \/ subject.of.identity.warned
<1>1. subject' = subject
  BY DEF EvidenceStep, Supply, Settle, Age
<1>2. SomeChecks \in Nat /\ full \in Int
  BY SomeChecksAssumption
<1>3. /\ x = 12000 * Judged + 60 * (100 * evidence.exact + 60 * evidence.approximation
                                      + 30 * evidence.assumption) + 10 * SomeChecks * v
      /\ v = IF subject.of.lineage = None THEN 0 ELSE IF evidence.age > 1 THEN 100 ELSE 200
      /\ Confidence.level = A!ConfidenceLevel(A!Capped(A!Grade(x, full), pragmatic))
      /\ Confidence.unknown = SomeChecks - Judged /\ Confidence.degraded = degraded
      /\ evidence.exact \in Nat /\ evidence.approximation \in Nat
      /\ evidence.assumption \in Nat /\ evidence.missing \in Nat
      /\ Judged = evidence.exact + evidence.approximation + evidence.assumption + evidence.missing
      /\ Judged <= SomeChecks
  BY PartsAre DEF ScoreParts
<1>4. /\ y = 12000 * Judged' + 60 * (100 * evidence'.exact + 60 * evidence'.approximation
                                      + 30 * evidence'.assumption) + 10 * SomeChecks * z
      /\ z = IF subject.of.lineage = None THEN 0 ELSE IF evidence'.age > 1 THEN 100 ELSE 200
      /\ Confidence'.level = A!ConfidenceLevel(A!Capped(A!Grade(y, full), pragmatic))
      /\ Confidence'.unknown = SomeChecks - Judged' /\ Confidence'.degraded = degraded
      /\ evidence'.exact \in Nat /\ evidence'.approximation \in Nat
      /\ evidence'.assumption \in Nat /\ evidence'.missing \in Nat
      /\ Judged' = evidence'.exact + evidence'.approximation + evidence'.assumption + evidence'.missing
      /\ Judged' <= SomeChecks
  <2>1. AuditInv' /\ (subject.part = "audit")'
    BY <1>1
  <2>2. ScoreParts'
    BY <2>1, PartsAre, PTL
  <2>3. QED
    BY <1>1, <2>2 DEF ScoreParts
<1> HIDE DEF x, y, v, z, full, pragmatic, degraded
<1>5. /\ Risk = A!ConclusionRisk(Confidence, Applicability)
      /\ Risk' = A!ConclusionRisk(Confidence', Applicability)
  BY <1>1 DEF Risk, Applicability
<1>6. v \in Nat /\ z \in Nat /\ \A a, b \in Nat : a <= b => 10 * SomeChecks * a <= 10 * SomeChecks * b
                                                            /\ 10 * SomeChecks * a \in Nat
                                                            /\ 10 * SomeChecks * b \in Nat
  <2>1. v \in Nat /\ z \in Nat
    BY <1>3, <1>4
  <2>2. QED
    BY <1>2, <2>1
<1>7. CASE \E q \in Qualities : Settle(q)
  <2>1. PICK q \in Qualities : evidence' = [evidence EXCEPT ![q] = evidence[q] + 1]
    BY <1>7 DEF Settle
  <2>2. /\ DOMAIN evidence = Qualities \cup {"age"}
        /\ Qualities = {"exact", "approximation", "assumption", "missing"}
    BY DEF AuditInv, Qualities
  <2>3. /\ evidence'.age = evidence.age
        /\ evidence'.exact >= evidence.exact /\ evidence'.approximation >= evidence.approximation
        /\ evidence'.assumption >= evidence.assumption /\ evidence'.missing >= evidence.missing
    BY <1>3, <2>1, <2>2
  <2>4. v = z /\ Judged' >= Judged
    BY <1>3, <1>4, <2>3
  <2>5. x \in Int /\ y \in Int /\ x <= y
    <3> DEFINE w == 10 * SomeChecks * v
    <3>1. w \in Nat
      BY <1>6
    <3>2. /\ x = 12000 * Judged + 60 * (100 * evidence.exact + 60 * evidence.approximation
                                      + 30 * evidence.assumption) + w
          /\ y = 12000 * Judged' + 60 * (100 * evidence'.exact + 60 * evidence'.approximation
                                      + 30 * evidence'.assumption) + w
      BY <1>3, <1>4, <2>4
    <3>3. Judged \in Nat /\ Judged' \in Nat
      BY <1>3, <1>4
    <3> HIDE DEF w
    <3>4. QED
      BY <1>3, <1>4, <2>3, <2>4, <3>1, <3>2, <3>3
  <2>6. /\ Confidence.level \in {"LOW", "MEDIUM", "HIGH"} /\ Confidence'.level \in {"LOW", "MEDIUM", "HIGH"}
        /\ Better[Confidence.level] <= Better[Confidence'.level]
    BY <1>2, <1>3, <1>4, <2>5, LevelsFollow
  <2>7. /\ Confidence.unknown \in Nat /\ Confidence'.unknown \in Nat
        /\ Confidence'.unknown <= Confidence.unknown /\ Confidence'.degraded = Confidence.degraded
    BY <1>2, <1>3, <1>4, <2>4
  <2>8. /\ Risk \in {"LOW", "MEDIUM", "HIGH"} /\ Risk' \in {"LOW", "MEDIUM", "HIGH"}
        /\ Better[Risk'] <= Better[Risk]
    BY <1>5, <2>6, <2>7, RisksFollow
  <2>9. \A l \in {"LOW", "MEDIUM", "HIGH"} : Better[l] \in Nat
    BY DEF Better
  <2>10. QED
    BY <2>3, <2>6, <2>8, <2>9
<1>8. CASE Age
  <2>1. evidence.age = 0 /\ evidence' = [evidence EXCEPT !["age"] = 2]
    BY <1>8 DEF Age
  <2>2. DOMAIN evidence = {"exact", "approximation", "assumption", "missing", "age"}
    BY DEF AuditInv, Qualities
  <2>3. /\ evidence'.age = 2
        /\ evidence'.exact = evidence.exact /\ evidence'.approximation = evidence.approximation
        /\ evidence'.assumption = evidence.assumption /\ evidence'.missing = evidence.missing
    BY <2>1, <2>2
  <2>4. z <= v /\ Judged' = Judged
    BY <1>3, <1>4, <2>1, <2>3
  <2>5. x \in Int /\ y \in Int /\ y <= x
    <3> DEFINE w == 10 * SomeChecks * v
               u == 10 * SomeChecks * z
    <3>1. w \in Nat /\ u \in Nat /\ u <= w
      BY <1>6, <2>4
    <3>2. /\ x = 12000 * Judged + 60 * (100 * evidence.exact + 60 * evidence.approximation
                                      + 30 * evidence.assumption) + w
          /\ y = 12000 * Judged' + 60 * (100 * evidence'.exact + 60 * evidence'.approximation
                                      + 30 * evidence'.assumption) + u
      BY <1>3, <1>4
    <3>3. Judged \in Nat
      BY <1>3
    <3> HIDE DEF w, u
    <3>4. QED
      BY <1>3, <2>3, <2>4, <3>1, <3>2, <3>3
  <2>6. /\ Confidence.level \in {"LOW", "MEDIUM", "HIGH"} /\ Confidence'.level \in {"LOW", "MEDIUM", "HIGH"}
        /\ Better[Confidence'.level] <= Better[Confidence.level]
    BY <1>2, <1>3, <1>4, <2>5, LevelsFollow
  <2>7. /\ Confidence.unknown \in Nat /\ Confidence'.unknown \in Nat
        /\ Confidence.unknown <= Confidence'.unknown /\ Confidence'.degraded = Confidence.degraded
    BY <1>2, <1>3, <1>4, <2>4
  <2>8. /\ Risk \in {"LOW", "MEDIUM", "HIGH"} /\ Risk' \in {"LOW", "MEDIUM", "HIGH"}
        /\ Better[Risk] <= Better[Risk']
    BY <1>5, <2>6, <2>7, RisksFollow
  <2>9. \A l \in {"LOW", "MEDIUM", "HIGH"} : Better[l] \in Nat
    BY DEF Better
  <2>10. QED
    BY <2>1, <2>3, <2>6, <2>8, <2>9
<1>9. ~\E item \in DOMAIN evidence : Supply(item)
  BY DEF Supply
<1>10. QED
  BY <1>7, <1>8, <1>9 DEF EvidenceStep

-----------------------------------------------------------------------------
(* The risk signals *)

\* What is known stands.
Stands(x, y) == x # None => y = x

RiskNumbers == {"operating_cash_flow", "capex", "net_income", "dividends", "intangible_assets",
                "total_assets", "total_debt", "cash", "equity", "margin_spread", "buybacks",
                "revenue", "shares"}

\* One payload that knows all that another does.
KnowsMore(p, q) ==
  /\ \A f \in RiskNumbers : Stands(p[f], q[f])
  /\ p.unknown_checks = q.unknown_checks

LEMMA MinusStands ==
  ASSUME NEW a, NEW b, NEW c, NEW d, Stands(a, c), Stands(b, d)
  PROVE  Stands(R!Minus(a, b), R!Minus(c, d))
BY DEF Stands, R!Minus

LEMMA SafeDivStands ==
  ASSUME NEW a, NEW b, NEW c, NEW d, Stands(a, c), Stands(b, d)
  PROVE  Stands(R!SafeDiv(a, b), R!SafeDiv(c, d))
BY DEF Stands, R!SafeDiv

\* The numbers that are made of others.
LEMMA MadeNumbersStand ==
  ASSUME NEW p, NEW q, KnowsMore(p, q)
  PROVE  /\ Stands(R!AdjustedFcf(p), R!AdjustedFcf(q))
         /\ Stands(R!ShareGrowth(p), R!ShareGrowth(q))
         /\ Stands(R!SafeDiv(p.intangible_assets, p.total_assets),
                   R!SafeDiv(q.intangible_assets, q.total_assets))
         /\ Stands(R!SafeDiv(R!Minus(p.total_debt, p.cash), p.equity),
                   R!SafeDiv(R!Minus(q.total_debt, q.cash), q.equity))
         /\ Stands(R!SafeDiv(R!Minus(p.net_income, p.operating_cash_flow), p.total_assets),
                   R!SafeDiv(R!Minus(q.net_income, q.operating_cash_flow), q.total_assets))
         /\ Stands(R!SafeDiv(R!AdjustedFcf(p), p.net_income), R!SafeDiv(R!AdjustedFcf(q), q.net_income))
         /\ Stands(R!SafeDiv(p.dividends, R!AdjustedFcf(p)), R!SafeDiv(q.dividends, R!AdjustedFcf(q)))
         /\ Stands(R!SafeDiv(p.buybacks, R!AdjustedFcf(p)), R!SafeDiv(q.buybacks, R!AdjustedFcf(q)))
         /\ Stands(R!SafeDiv(p.capex, p.revenue), R!SafeDiv(q.capex, q.revenue))
<1>1. /\ Stands(p.operating_cash_flow, q.operating_cash_flow) /\ Stands(p.capex, q.capex)
      /\ Stands(p.net_income, q.net_income) /\ Stands(p.dividends, q.dividends)
      /\ Stands(p.intangible_assets, q.intangible_assets) /\ Stands(p.total_assets, q.total_assets)
      /\ Stands(p.total_debt, q.total_debt) /\ Stands(p.cash, q.cash) /\ Stands(p.equity, q.equity)
      /\ Stands(p.buybacks, q.buybacks) /\ Stands(p.revenue, q.revenue) /\ Stands(p.shares, q.shares)
  BY DEF KnowsMore, RiskNumbers
<1>2. Stands(R!AdjustedFcf(p), R!AdjustedFcf(q))
  BY <1>1, MinusStands DEF R!AdjustedFcf
<1>3. Stands(R!ShareGrowth(p), R!ShareGrowth(q))
  BY <1>1 DEF R!ShareGrowth, Stands
<1>4. /\ Stands(R!Minus(p.total_debt, p.cash), R!Minus(q.total_debt, q.cash))
      /\ Stands(R!Minus(p.net_income, p.operating_cash_flow), R!Minus(q.net_income, q.operating_cash_flow))
  BY <1>1, MinusStands
<1>5. QED
  BY <1>1, <1>2, <1>3, <1>4, SafeDivStands

\* A red flag that was raised or cleared stands.
LEMMA RedFlagsStand ==
  ASSUME NEW p, NEW q, KnowsMore(p, q)
  PROVE  /\ DOMAIN R!RedFlags(q) = DOMAIN R!RedFlags(p)
         /\ \A f \in DOMAIN R!RedFlags(p) :
              R!RedFlags(p)[f] # "UNKNOWN" => R!RedFlags(q)[f] = R!RedFlags(p)[f]
<1> DEFINE a == R!RedFlags(p)
           b == R!RedFlags(q)
<1>1. /\ Stands(p.operating_cash_flow, q.operating_cash_flow)
      /\ Stands(p.net_income, q.net_income) /\ Stands(p.dividends, q.dividends)
  BY DEF KnowsMore, RiskNumbers
<1>2. a.NEGATIVE_OPERATING_CASH_FLOW # "UNKNOWN"
        => b.NEGATIVE_OPERATING_CASH_FLOW = a.NEGATIVE_OPERATING_CASH_FLOW
  BY <1>1 DEF R!RedFlags, R!Signal, Stands
<1>3. a.NEGATIVE_FREE_CASH_FLOW # "UNKNOWN"
        => b.NEGATIVE_FREE_CASH_FLOW = a.NEGATIVE_FREE_CASH_FLOW
  BY MadeNumbersStand DEF R!RedFlags, R!Signal, Stands
<1>4. a.EARNINGS_CASH_FLOW_DIVERGENCE # "UNKNOWN"
        => b.EARNINGS_CASH_FLOW_DIVERGENCE = a.EARNINGS_CASH_FLOW_DIVERGENCE
  BY <1>1, MadeNumbersStand DEF R!RedFlags, R!Signal, Stands
<1>5. a.DIVIDEND_NOT_COVERED_BY_FCF # "UNKNOWN"
        => b.DIVIDEND_NOT_COVERED_BY_FCF = a.DIVIDEND_NOT_COVERED_BY_FCF
  BY <1>1, MadeNumbersStand DEF R!RedFlags, R!Signal, Stands
<1>6. a.HIGH_INTANGIBLES_TO_ASSETS # "UNKNOWN"
        => b.HIGH_INTANGIBLES_TO_ASSETS = a.HIGH_INTANGIBLES_TO_ASSETS
  BY MadeNumbersStand DEF R!RedFlags, R!Signal, Stands
<1>7. a.ELEVATED_NET_DEBT_TO_EQUITY # "UNKNOWN"
        => b.ELEVATED_NET_DEBT_TO_EQUITY = a.ELEVATED_NET_DEBT_TO_EQUITY
  BY MadeNumbersStand DEF R!RedFlags, R!Signal, Stands
<1>8. a.SHARE_DILUTION_ABOVE_10PCT # "UNKNOWN"
        => b.SHARE_DILUTION_ABOVE_10PCT = a.SHARE_DILUTION_ABOVE_10PCT
  BY MadeNumbersStand DEF R!RedFlags, R!Signal, Stands
<1>9. b.ENGINE_UNKNOWN_CHECKS_PRESENT = a.ENGINE_UNKNOWN_CHECKS_PRESENT
  BY DEF R!RedFlags, KnowsMore
<1>10. /\ DOMAIN a = {"NEGATIVE_OPERATING_CASH_FLOW", "NEGATIVE_FREE_CASH_FLOW",
                      "EARNINGS_CASH_FLOW_DIVERGENCE", "DIVIDEND_NOT_COVERED_BY_FCF",
                      "HIGH_INTANGIBLES_TO_ASSETS", "ELEVATED_NET_DEBT_TO_EQUITY",
                      "SHARE_DILUTION_ABOVE_10PCT", "ENGINE_UNKNOWN_CHECKS_PRESENT"}
       /\ DOMAIN b = DOMAIN a
  BY DEF R!RedFlags
<1> HIDE DEF a, b
<1>11. \A f \in DOMAIN a : a[f] # "UNKNOWN" => b[f] = a[f]
  BY <1>2, <1>3, <1>4, <1>5, <1>6, <1>7, <1>8, <1>9, <1>10
<1>12. QED
  BY <1>10, <1>11 DEF a, b

\* A metric with a value stands.
MetricsStand(m, n) == /\ DOMAIN m = DOMAIN n
                      /\ IsFiniteSet(DOMAIN m)
                      /\ \A x \in DOMAIN m : m[x] \in {"UNKNOWN", "FAIL", "WATCH", "PASS"}
                      /\ \A x \in DOMAIN m : m[x] # "UNKNOWN" => n[x] = m[x]

LEMMA AccountingStands ==
  ASSUME NEW p, NEW q, KnowsMore(p, q)
  PROVE  MetricsStand(R!AccountingMetrics(p), R!AccountingMetrics(q))
<1> DEFINE a == R!AccountingMetrics(p)
           b == R!AccountingMetrics(q)
<1>1. Stands(p.margin_spread, q.margin_spread)
  BY DEF KnowsMore, RiskNumbers
<1>2. a.ACCRUALS_RATIO # "UNKNOWN" => b.ACCRUALS_RATIO = a.ACCRUALS_RATIO
  BY MadeNumbersStand DEF R!AccountingMetrics, R!Metric, Stands
<1>3. a.FCF_CONVERSION # "UNKNOWN" => b.FCF_CONVERSION = a.FCF_CONVERSION
  BY MadeNumbersStand DEF R!AccountingMetrics, R!Metric, Stands
<1>4. a.GROSS_MARGIN_VARIABILITY # "UNKNOWN" => b.GROSS_MARGIN_VARIABILITY = a.GROSS_MARGIN_VARIABILITY
  BY <1>1 DEF R!AccountingMetrics, R!HighIsBad, R!Metric, Stands
<1>5. /\ DOMAIN a = {"ACCRUALS_RATIO", "FCF_CONVERSION", "GROSS_MARGIN_VARIABILITY"}
      /\ DOMAIN b = DOMAIN a
  BY DEF R!AccountingMetrics
<1>6. IsFiniteSet({"ACCRUALS_RATIO", "FCF_CONVERSION", "GROSS_MARGIN_VARIABILITY"})
  <2>1. IsFiniteSet(({"ACCRUALS_RATIO"} \cup {"FCF_CONVERSION"}) \cup {"GROSS_MARGIN_VARIABILITY"})
    BY FS_Singleton, FS_AddElement
  <2>2. ({"ACCRUALS_RATIO"} \cup {"FCF_CONVERSION"}) \cup {"GROSS_MARGIN_VARIABILITY"}
          = {"ACCRUALS_RATIO", "FCF_CONVERSION", "GROSS_MARGIN_VARIABILITY"}
    OBVIOUS
  <2>3. QED
    BY <2>1, <2>2
<1>7. \A x \in {a.ACCRUALS_RATIO, a.FCF_CONVERSION, a.GROSS_MARGIN_VARIABILITY} :
        x \in {"UNKNOWN", "FAIL", "WATCH", "PASS"}
  BY DEF R!AccountingMetrics, R!HighIsBad, R!Metric
<1> HIDE DEF a, b
<1>8. \A x \in DOMAIN a : a[x] # "UNKNOWN" => b[x] = a[x]
  BY <1>2, <1>3, <1>4, <1>5
<1>9. \A x \in DOMAIN a : a[x] \in {"UNKNOWN", "FAIL", "WATCH", "PASS"}
  BY <1>5, <1>7
<1>10. QED
  BY <1>5, <1>6, <1>8, <1>9 DEF a, b, MetricsStand

LEMMA CapitalStands ==
  ASSUME NEW p, NEW q, KnowsMore(p, q)
  PROVE  LET a == R!CapitalMetrics(p)
             b == R!CapitalMetrics(q)
         IN DOMAIN a = DOMAIN b /\ \A x \in DOMAIN a : a[x] # "UNKNOWN" => b[x] = a[x]
<1> DEFINE a == R!CapitalMetrics(p)
           b == R!CapitalMetrics(q)
<1>1. a.DIVIDENDS_TO_FCF # "UNKNOWN" => b.DIVIDENDS_TO_FCF = a.DIVIDENDS_TO_FCF
  BY MadeNumbersStand DEF R!CapitalMetrics, R!HighIsBad, R!Metric, Stands
<1>2. a.BUYBACKS_TO_FCF # "UNKNOWN" => b.BUYBACKS_TO_FCF = a.BUYBACKS_TO_FCF
  BY MadeNumbersStand DEF R!CapitalMetrics, R!HighIsBad, R!Metric, Stands
<1>3. a.CAPEX_INTENSITY # "UNKNOWN" => b.CAPEX_INTENSITY = a.CAPEX_INTENSITY
  BY MadeNumbersStand DEF R!CapitalMetrics, R!HighIsBad, R!Metric, Stands
<1>4. a.SHARE_COUNT_GROWTH # "UNKNOWN" => b.SHARE_COUNT_GROWTH = a.SHARE_COUNT_GROWTH
  BY MadeNumbersStand DEF R!CapitalMetrics, R!HighIsBad, R!Metric, Stands
<1>5. /\ DOMAIN a = {"DIVIDENDS_TO_FCF", "BUYBACKS_TO_FCF", "CAPEX_INTENSITY", "SHARE_COUNT_GROWTH"}
      /\ DOMAIN b = DOMAIN a
  BY DEF R!CapitalMetrics
<1> HIDE DEF a, b
<1>6. \A x \in DOMAIN a : a[x] # "UNKNOWN" => b[x] = a[x]
  BY <1>1, <1>2, <1>3, <1>4, <1>5
<1>7. QED
  BY <1>5, <1>6 DEF a, b

\* A grade that says something bad is never taken back.
LEMMA GradesStand ==
  ASSUME NEW p, NEW q, KnowsMore(p, q)
  PROVE  /\ R!AccountingGrade(p) = "WEAK" => R!AccountingGrade(q) = "WEAK"
         /\ R!AccountingGrade(p) = "WATCH" => R!AccountingGrade(q) \in {"WATCH", "WEAK"}
         /\ R!CapitalAssessment(p) = "WATCH" => R!CapitalAssessment(q) = "WATCH"
<1> DEFINE m == R!AccountingMetrics(p)
           n == R!AccountingMetrics(q)
           k == R!CapitalMetrics(p)
           l == R!CapitalMetrics(q)
<1>1. MetricsStand(m, n)
  BY AccountingStands
<1>2. DOMAIN k = DOMAIN l /\ \A x \in DOMAIN k : k[x] # "UNKNOWN" => l[x] = k[x]
  BY CapitalStands
<1>3. R!Evaluated(m) \subseteq R!Evaluated(n) /\ R!Statuses(m) \subseteq R!Statuses(n)
  BY <1>1 DEF R!Evaluated, R!Statuses, MetricsStand
<1>4. R!Evaluated(k) \subseteq R!Evaluated(l) /\ R!Statuses(k) \subseteq R!Statuses(l)
  BY <1>2 DEF R!Evaluated, R!Statuses
<1>5. ~(R!Cardinality(R!Evaluated(m)) < 2) => ~(R!Cardinality(R!Evaluated(n)) < 2)
  <2>1. IsFiniteSet(R!Evaluated(n)) /\ IsFiniteSet(R!Evaluated(m))
    BY <1>1, FS_Subset DEF R!Evaluated, MetricsStand
  <2>2. /\ Cardinality(R!Evaluated(m)) <= Cardinality(R!Evaluated(n))
        /\ Cardinality(R!Evaluated(m)) \in Nat /\ Cardinality(R!Evaluated(n)) \in Nat
    BY <1>3, <2>1, FS_Subset, FS_CardinalityType
  <2>3. \A X : R!Cardinality(X) = Cardinality(X)
    BY DEF Cardinality, R!Cardinality
  <2>4. QED
    BY <2>2, <2>3
<1> DEFINE Few(x) == R!Cardinality(R!Evaluated(x)) < 2
<1>6. ~Few(m) /\ "FAIL" \notin R!Statuses(m) /\ "WATCH" \notin R!Statuses(m)
        => R!Statuses(m) = {"PASS"}
  <2> SUFFICES ASSUME ~Few(m), "FAIL" \notin R!Statuses(m), "WATCH" \notin R!Statuses(m)
               PROVE  R!Statuses(m) = {"PASS"}
    OBVIOUS
  <2>1. R!Evaluated(m) # {}
    <3>1. R!Cardinality({}) = 0
      BY FS_EmptySet DEF Cardinality, R!Cardinality
    <3>2. QED
      BY <3>1
  <2>2. R!Statuses(m) \subseteq {"FAIL", "WATCH", "PASS"}
    BY <1>1 DEF R!Statuses, R!Evaluated, MetricsStand
  <2>3. R!Statuses(m) # {}
    BY <2>1 DEF R!Statuses
  <2>4. QED
    BY <2>2, <2>3
<1> HIDE DEF m, n, k, l, Few
<1>7. /\ R!AccountingGrade(p) = "WEAK" => ~Few(m) /\ "FAIL" \in R!Statuses(m)
      /\ R!AccountingGrade(p) = "WATCH" => ~Few(m) /\ "WATCH" \in R!Statuses(m)
  BY <1>6 DEF R!AccountingGrade, m, Few
<1>8. ~Few(m) => ~Few(n)
  BY <1>5 DEF Few
<1>9. /\ ~Few(n) /\ "FAIL" \in R!Statuses(n) => R!AccountingGrade(q) = "WEAK"
      /\ ~Few(n) /\ "WATCH" \in R!Statuses(n) => R!AccountingGrade(q) \in {"WATCH", "WEAK"}
  BY DEF R!AccountingGrade, n, Few
<1>10. R!CapitalAssessment(p) = "WATCH" => R!CapitalAssessment(q) = "WATCH"
  <2> SUFFICES ASSUME R!CapitalAssessment(p) = "WATCH" PROVE R!CapitalAssessment(q) = "WATCH"
    OBVIOUS
  <2>1. R!Evaluated(k) # {} /\ R!Statuses(k) # {"PASS"}
    <3>1. R!Evaluated(k) = {} => R!CapitalAssessment(p) # "WATCH"
      <4>1. R!Evaluated(k) = {} => R!Statuses(k) # {"PASS"}
        BY DEF R!Statuses
      <4>2. QED
        BY <4>1 DEF R!CapitalAssessment, k
    <3>2. R!Statuses(k) = {"PASS"} => R!CapitalAssessment(p) # "WATCH"
      BY <3>1 DEF R!CapitalAssessment, k
    <3>3. QED
      BY <3>1, <3>2
  <2>2. PICK x \in R!Statuses(k) : x # "PASS"
    <3>1. R!Statuses(k) # {}
      BY <2>1 DEF R!Statuses
    <3>2. QED
      BY <2>1, <3>1
  <2>3. R!Evaluated(l) # {} /\ R!Statuses(l) # {"PASS"}
    BY <1>4, <2>1, <2>2
  <2>4. QED
    BY <2>3 DEF R!CapitalAssessment, l
<1>11. QED
  BY <1>3, <1>7, <1>8, <1>9, <1>10

LEMMA RiskFieldsAre ==
  RiskFields = RiskNumbers /\ "unknown_checks" \notin RiskFields
<1>1. DOMAIN RiskGroups = {"cash_flow", "balance", "accounting", "capital"}
  BY DEF RiskGroups
<1>2. RiskFields = RiskGroups.cash_flow \cup RiskGroups.balance \cup RiskGroups.accounting
                     \cup RiskGroups.capital
  BY <1>1 DEF RiskFields
<1>3. RiskFields = RiskNumbers
  BY <1>2 DEF RiskGroups, RiskNumbers
<1>4. QED
  BY <1>3 DEF RiskNumbers

\* What a step of the evidence does to an item of it.
LEMMA SupplyAddsOne ==
  ASSUME NEW item \in DOMAIN evidence, Supply(item)
  PROVE  /\ subject' = subject /\ DOMAIN evidence' = DOMAIN evidence
         /\ \A f \in DOMAIN evidence : Stands(evidence[f], evidence'[f])
BY DEF Supply, Stands

LEMMA RiskPayloadGrows ==
  ASSUME RiskInv, subject.part = "risk", EvidenceStep
  PROVE  KnowsMore(RiskPayload, RiskPayload')
<1>1. PICK item \in DOMAIN evidence : Supply(item)
  BY DEF EvidenceStep, Settle, Age
<1>2. /\ DOMAIN evidence' = DOMAIN evidence
      /\ \A f \in DOMAIN evidence : Stands(evidence[f], evidence'[f])
  BY <1>1, SupplyAddsOne
<1>3. DOMAIN evidence \subseteq RiskFields
  BY DEF RiskInv, RiskFields
<1>4. \A f \in RiskFields \cup {"unknown_checks"} :
        /\ RiskPayload[f] = IF f \in DOMAIN evidence THEN evidence[f] ELSE None
        /\ RiskPayload'[f] = IF f \in DOMAIN evidence' THEN evidence'[f] ELSE None
  BY DEF RiskPayload, Over, NoNumbers, Without
<1>5. \A f \in RiskFields : Stands(RiskPayload[f], RiskPayload'[f])
  BY <1>2, <1>4 DEF Stands
<1>6. RiskPayload["unknown_checks"] = None /\ RiskPayload'["unknown_checks"] = None
  BY <1>2, <1>3, <1>4, RiskFieldsAre
<1>7. QED
  BY <1>5, <1>6, RiskFieldsAre DEF KnowsMore

-----------------------------------------------------------------------------
(* The 30 checks *)

\* The payload q knows all of the fields that p does, and the switches as p does.
AllStand(p, q, fields) == \A f \in fields : Stands(p[f], q[f])
AllSame(p, q, fields)  == \A f \in fields : q[f] = p[f]

\* The reasons that say a check lacks an input.
Lacking == {"MISSING_INPUT", "PROVIDER_LIMITATION"}

LEMMA ValueStands ==
  ASSUME NEW p, NEW q, NEW i \in 1..6, NEW t,
         AllStand(p, q, FieldsOfCheck(<<"value", i>>, t))
  PROVE  /\ C!Known(C!Value(p, p.fair_value, i)) => C!Value(q, q.fair_value, i) = C!Value(p, p.fair_value, i)
         /\ C!Known(C!Value(p, p.fair_value, i)) => Held(p, FieldsOfCheck(<<"value", i>>, t))
         /\ Held(p, FieldsOfCheck(<<"value", i>>, t)) => C!Value(p, p.fair_value, i).reason \notin Lacking
<1> USE DEF AllStand, Stands, Held, Lacking, C!Known, C!Unknown, C!PassFail, C!Binary, C!Ratio
<1>1. CASE i = 1
  <2>1. FieldsOfCheck(<<"value", i>>, t) = {"price", "fair_value"}
    BY <1>1 DEF FieldsOfCheck
  <2>2. QED
    BY <1>1, <2>1 DEF C!Value, C!BelowFairValue, C!PeReason, C!PeBelow, C!PegBelowOne, C!PbBelow, C!TangibleBookValue
<1>2. CASE i = 2
  <2>1. FieldsOfCheck(<<"value", i>>, t) = {"price", "fair_value"}
    BY <1>2 DEF FieldsOfCheck
  <2>2. QED
    BY <1>2, <2>1 DEF C!Value, C!BelowFairValue, C!PeReason, C!PeBelow, C!PegBelowOne, C!PbBelow, C!TangibleBookValue
<1>3. CASE i = 3
  <2>1. FieldsOfCheck(<<"value", i>>, t) = {"price", "eps", "market_pe"}
    BY <1>3 DEF FieldsOfCheck
  <2>2. QED
    BY <1>3, <2>1 DEF C!Value, C!BelowFairValue, C!PeReason, C!PeBelow, C!PegBelowOne, C!PbBelow, C!TangibleBookValue
<1>4. CASE i = 4
  <2>1. FieldsOfCheck(<<"value", i>>, t) = {"price", "eps", "industry_pe"}
    BY <1>4 DEF FieldsOfCheck
  <2>2. QED
    BY <1>4, <2>1 DEF C!Value, C!BelowFairValue, C!PeReason, C!PeBelow, C!PegBelowOne, C!PbBelow, C!TangibleBookValue
<1>5. CASE i = 5
  <2>1. FieldsOfCheck(<<"value", i>>, t) = {"price", "eps", "earnings_growth"}
    BY <1>5 DEF FieldsOfCheck
  <2>2. QED
    BY <1>5, <2>1 DEF C!Value, C!BelowFairValue, C!PeReason, C!PeBelow, C!PegBelowOne, C!PbBelow, C!TangibleBookValue
<1>6. CASE i = 6
  <2>1. FieldsOfCheck(<<"value", i>>, t) = {"price", "total_assets", "intangible_assets", "total_liabilities", "shares_outstanding", "industry_pb"}
    BY <1>6 DEF FieldsOfCheck
  <2>2. QED
    BY <1>6, <2>1 DEF C!Value, C!BelowFairValue, C!PeReason, C!PeBelow, C!PegBelowOne, C!PbBelow, C!TangibleBookValue
<1>7. QED
  BY <1>1, <1>2, <1>3, <1>4, <1>5, <1>6

LEMMA FutureStands ==
  ASSUME NEW p, NEW q, NEW i \in 1..6, NEW t,
         AllStand(p, q, FieldsOfCheck(<<"future", i>>, t))
  PROVE  /\ C!Known(C!Future(p, i)) => C!Future(q, i) = C!Future(p, i)
         /\ C!Known(C!Future(p, i)) => Held(p, FieldsOfCheck(<<"future", i>>, t)) \/ (i = 1 /\ p.becomes_profitable = TRUE)
         /\ Held(p, FieldsOfCheck(<<"future", i>>, t)) => C!Future(p, i).reason \notin Lacking
         /\ i = 1 /\ p.becomes_profitable = TRUE => C!Future(p, i).reason \notin Lacking
<1> USE DEF AllStand, Stands, Held, Lacking, C!Known, C!Unknown, C!PassFail, C!Binary, C!Ratio
<1>1. CASE i = 1
  <2>1. FieldsOfCheck(<<"future", i>>, t) = {"becomes_profitable", "earnings_growth", "savings_rate", "cpi"}
    BY <1>1 DEF FieldsOfCheck
  <2>2. p.becomes_profitable = TRUE => p.becomes_profitable # None /\ q.becomes_profitable = TRUE
    BY <2>1, NoneIsNoWord
  <2>3. p.becomes_profitable # None => q.becomes_profitable = p.becomes_profitable
    BY <2>1
  <2> DEFINE flag == p.becomes_profitable = TRUE
             reads(r) == C!Binary({r.earnings_growth, r.savings_rate, r.cpi},
                                  r.earnings_growth > r.savings_rate + r.cpi)
  <2>4. ASSUME NEW r
        PROVE  /\ r.becomes_profitable = TRUE /\ r.becomes_profitable # None
                    => C!Future(r, 1) = C!PassFail(TRUE)
               /\ r.becomes_profitable # TRUE /\ r.becomes_profitable = None
                    => C!Future(r, 1) = C!Unknown("MISSING_INPUT")
               /\ r.becomes_profitable # TRUE /\ r.becomes_profitable # None
                    => C!Future(r, 1) = reads(r)
    <3>1. C!Future(r, 1) = C!OutgrowsSavings(r)
      BY DEF C!Future
    <3>2. QED
      BY <3>1, Zenon DEF C!OutgrowsSavings
  <2>5. /\ C!Known(reads(p)) => reads(q) = reads(p)
        /\ C!Known(reads(p)) => Held(p, {"earnings_growth", "savings_rate", "cpi"})
        /\ Held(p, {"earnings_growth", "savings_rate", "cpi"}) => reads(p).reason \notin Lacking
    BY <2>1
  <2>6. /\ C!PassFail(TRUE).reason \notin Lacking
        /\ ~C!Known(C!Unknown("MISSING_INPUT"))
    OBVIOUS
  <2>7. Held(p, FieldsOfCheck(<<"future", i>>, t))
          <=> p.becomes_profitable # None /\ Held(p, {"earnings_growth", "savings_rate", "cpi"})
    BY <2>1
  <2> HIDE DEF reads, Held, Lacking, C!Known, C!Unknown, C!PassFail
  <2>8. CASE flag
    BY <1>1, <2>2, <2>4, <2>6, <2>8
  <2>9. CASE ~flag
    <3>1. CASE p.becomes_profitable = None
      BY <1>1, <2>4, <2>6, <2>7, <2>9, <3>1
    <3>2. CASE p.becomes_profitable # None
      BY <1>1, <2>3, <2>4, <2>5, <2>7, <2>9, <3>2
    <3>3. QED
      BY <3>1, <3>2
  <2>10. QED
    BY <2>8, <2>9
<1>2. CASE i = 2
  <2>1. FieldsOfCheck(<<"future", i>>, t) = {"earnings_growth", "market_income_growth"}
    BY <1>2 DEF FieldsOfCheck
  <2>2. QED
    BY <1>2, <2>1 DEF C!Future
<1>3. CASE i = 3
  <2>1. FieldsOfCheck(<<"future", i>>, t) = {"revenue_growth", "market_revenue_growth"}
    BY <1>3 DEF FieldsOfCheck
  <2>2. QED
    BY <1>3, <2>1 DEF C!Future
<1>4. CASE i = 4
  <2>1. FieldsOfCheck(<<"future", i>>, t) = {"earnings_growth"}
    BY <1>4 DEF FieldsOfCheck
  <2>2. QED
    BY <1>4, <2>1 DEF C!Future
<1>5. CASE i = 5
  <2>1. FieldsOfCheck(<<"future", i>>, t) = {"revenue_growth"}
    BY <1>5 DEF FieldsOfCheck
  <2>2. QED
    BY <1>5, <2>1 DEF C!Future
<1>6. CASE i = 6
  <2>1. FieldsOfCheck(<<"future", i>>, t) = {"roe_3y_estimate"}
    BY <1>6 DEF FieldsOfCheck
  <2>2. QED
    BY <1>6, <2>1 DEF C!Future
<1> HIDE DEF AllStand, Stands, Held, Lacking, C!Known, C!Unknown, C!PassFail, C!Binary, C!Ratio
<1>7. QED
  <2>1. \/ i = 1 \/ i = 2 \/ i = 3 \/ i = 4 \/ i = 5 \/ i = 6
    OBVIOUS
  <2>2. QED
    BY <1>1, <1>2, <1>3, <1>4, <1>5, <1>6, <2>1, Zenon

LEMMA PastStands ==
  ASSUME NEW p, NEW q, NEW i \in 1..6, NEW t,
         AllStand(p, q, FieldsOfCheck(<<"past", i>>, t))
  PROVE  /\ C!Known(C!Past(p, i)) => C!Past(q, i) = C!Past(p, i)
         /\ C!Known(C!Past(p, i)) => Held(p, FieldsOfCheck(<<"past", i>>, t))
         /\ Held(p, FieldsOfCheck(<<"past", i>>, t)) => C!Past(p, i).reason \notin Lacking
<1> USE DEF AllStand, Stands, Held, Lacking, C!Known, C!Unknown, C!PassFail, C!Binary, C!Ratio
<1>1. CASE i = 1
  <2>1. FieldsOfCheck(<<"past", i>>, t) = {"eps_growth_1y", "industry_eps_growth"}
    BY <1>1 DEF FieldsOfCheck
  <2>2. QED
    BY <1>1, <2>1 DEF C!Past
<1>2. CASE i = 2
  <2>1. FieldsOfCheck(<<"past", i>>, t) = {"current_eps", "eps_5y_ago"}
    BY <1>2 DEF FieldsOfCheck
  <2>2. QED
    BY <1>2, <2>1 DEF C!Past
<1>3. CASE i = 3
  <2>1. FieldsOfCheck(<<"past", i>>, t) = {"eps_growth_1y", "eps_growth_5y_avg"}
    BY <1>3 DEF FieldsOfCheck
  <2>2. QED
    BY <1>3, <2>1 DEF C!Past
<1>4. CASE i = 4
  <2>1. FieldsOfCheck(<<"past", i>>, t) = {"roe", "equity"}
    BY <1>4 DEF FieldsOfCheck
  <2>2. QED
    BY <1>4, <2>1 DEF C!Past
<1>5. CASE i = 5
  <2>1. FieldsOfCheck(<<"past", i>>, t) = {"roce_current", "roce_3y_ago"}
    BY <1>5 DEF FieldsOfCheck
  <2>2. QED
    BY <1>5, <2>1 DEF C!Past
<1>6. CASE i = 6
  <2>1. FieldsOfCheck(<<"past", i>>, t) = {"roa", "industry_roa"}
    BY <1>6 DEF FieldsOfCheck
  <2>2. QED
    BY <1>6, <2>1 DEF C!Past
<1>7. QED
  BY <1>1, <1>2, <1>3, <1>4, <1>5, <1>6

LEMMA BankHealthStands ==
  ASSUME NEW p, NEW q, NEW i \in 1..6,
         AllStand(p, q, FieldsOfCheck(<<"health", i>>, "bank"))
  PROVE  /\ C!Known(C!FinancialHealth(p, i)) => C!FinancialHealth(q, i) = C!FinancialHealth(p, i)
         /\ C!Known(C!FinancialHealth(p, i)) => Held(p, FieldsOfCheck(<<"health", i>>, "bank"))
         /\ Held(p, FieldsOfCheck(<<"health", i>>, "bank")) => C!FinancialHealth(p, i).reason \notin Lacking
<1> USE DEF AllStand, Stands, Held, Lacking, C!Known, C!Unknown, C!PassFail, C!Binary, C!Ratio
<1>1. CASE i = 1
  <2>1. FieldsOfCheck(<<"health", i>>, "bank") = {"total_assets", "equity"}
    BY <1>1 DEF FieldsOfCheck
  <2>2. QED
    BY <1>1, <2>1 DEF C!FinancialHealth
<1>2. CASE i = 2
  <2>1. FieldsOfCheck(<<"health", i>>, "bank") = {"allowance_npl", "npl"}
    BY <1>2 DEF FieldsOfCheck
  <2>2. QED
    BY <1>2, <2>1 DEF C!FinancialHealth
<1>3. CASE i = 3
  <2>1. FieldsOfCheck(<<"health", i>>, "bank") = {"deposits", "total_liabilities"}
    BY <1>3 DEF FieldsOfCheck
  <2>2. QED
    BY <1>3, <2>1 DEF C!FinancialHealth
<1>4. CASE i = 4
  <2>1. FieldsOfCheck(<<"health", i>>, "bank") = {"net_loans", "total_assets"}
    BY <1>4 DEF FieldsOfCheck
  <2>2. QED
    BY <1>4, <2>1 DEF C!FinancialHealth
<1>5. CASE i = 5
  <2>1. FieldsOfCheck(<<"health", i>>, "bank") = {"net_loans", "deposits"}
    BY <1>5 DEF FieldsOfCheck
  <2>2. QED
    BY <1>5, <2>1 DEF C!FinancialHealth
<1>6. CASE i = 6
  <2>1. FieldsOfCheck(<<"health", i>>, "bank") = {"net_charge_offs", "net_loans"}
    BY <1>6 DEF FieldsOfCheck
  <2>2. QED
    BY <1>6, <2>1 DEF C!FinancialHealth
<1>7. QED
  BY <1>1, <1>2, <1>3, <1>4, <1>5, <1>6

\* The six checks of a company that is no bank, whichever of them apply.
LEMMA HealthStands ==
  ASSUME NEW p, NEW q, NEW i \in 1..6, NEW t, t # "bank",
         AllStand(p, q, FieldsOfCheck(<<"health", i>>, t))
  PROVE  LET standard == FieldsOfCheck(<<"health", i>>, t) \ (Earnings \cup Runway)
             runway   == FieldsOfCheck(<<"health", i>>, t) \cap Runway
         IN /\ C!Known(C!StandardHealth(p, i)) => C!StandardHealth(q, i) = C!StandardHealth(p, i)
            /\ C!Known(C!StandardHealth(p, i)) => Held(p, standard) \/ (i = 6 /\ C!DebtFree(p))
            /\ Held(p, standard) => C!StandardHealth(p, i).reason \notin Lacking
            /\ i = 6 /\ C!DebtFree(p) => C!StandardHealth(p, i).reason \notin Lacking
            /\ i \in {5, 6} /\ C!Known(C!RunwayHealth(p, i))
                 => C!RunwayHealth(q, i) = C!RunwayHealth(p, i) /\ Held(p, runway)
            /\ i \in {5, 6} /\ Held(p, runway) => C!RunwayHealth(p, i).reason \notin Lacking
<1> USE DEF AllStand, Stands, Held, Lacking, Earnings, Runway, C!Known, C!Unknown, C!PassFail, C!Binary, C!Ratio
<1>1. CASE i = 1
  <2>1. FieldsOfCheck(<<"health", i>>, t)
          = {"current_eps", "eps_recent", "st_assets", "st_liabilities"}
    BY <1>1 DEF FieldsOfCheck
  <2>2. QED
    BY <1>1, <2>1 DEF C!StandardHealth
<1>2. CASE i = 2
  <2>1. FieldsOfCheck(<<"health", i>>, t)
          = {"current_eps", "eps_recent", "st_assets", "lt_liabilities"}
    BY <1>2 DEF FieldsOfCheck
  <2>2. QED
    BY <1>2, <2>1 DEF C!StandardHealth
<1>3. CASE i = 3
  <2>1. FieldsOfCheck(<<"health", i>>, t)
          = {"current_eps", "eps_recent", "debt_current", "equity", "debt_5y_ago", "equity_5y_ago"}
    BY <1>3 DEF FieldsOfCheck
  <2>2. QED
    BY <1>3, <2>1 DEF C!StandardHealth
<1>4. CASE i = 4
  <2>1. FieldsOfCheck(<<"health", i>>, t)
          = {"current_eps", "eps_recent", "debt_current", "equity"}
    BY <1>4 DEF FieldsOfCheck
  <2>2. QED
    BY <1>4, <2>1 DEF C!StandardHealth
<1>5. CASE i = 5
  <2>1. FieldsOfCheck(<<"health", i>>, t)
          = {"current_eps", "eps_recent", "operating_cash_flow", "total_debt", "cash", "cash_burn"}
    BY <1>5 DEF FieldsOfCheck
  <2>2. QED
    BY <1>5, <2>1 DEF C!StandardHealth, C!RunwayHealth
<1>6. CASE i = 6
  <2>1. FieldsOfCheck(<<"health", i>>, t)
          = {"current_eps", "eps_recent", "ebit", "net_interest_expense", "total_debt", "cash", "cash_burn", "burn_growth"}
    BY <1>6 DEF FieldsOfCheck
  <2>2. QED
    BY <1>6, <2>1 DEF C!StandardHealth, C!RunwayHealth, C!InterestCoverage, C!DebtFree
<1>7. QED
  BY <1>1, <1>2, <1>3, <1>4, <1>5, <1>6

\* A dividend check may fail by default, on no data.
LEMMA DividendStands ==
  ASSUME NEW p, NEW q, NEW i \in 1..6, NEW t,
         AllStand(p, q, FieldsOfCheck(<<"dividend", i>>, t)),
         AllSame(p, q, Switches(<<"dividend", i>>)),
         q.company_type = p.company_type
  PROVE  LET inputs == FieldsOfCheck(<<"dividend", i>>, t) \ (IF i > 2 THEN Gate ELSE {})
         IN /\ C!Known(C!Dividend(p, i)) => C!Dividend(q, i) = C!Dividend(p, i)
            /\ C!Known(C!Dividend(p, i)) => Held(p, inputs) \/ i \in {3, 4}
            /\ C!Dividend(p, i).result = "PASS" => Held(p, inputs)
            /\ Held(p, inputs) => C!Dividend(p, i).reason \notin Lacking
<1> USE DEF AllStand, Stands, Held, Lacking, Gate, C!Known, C!Unknown, C!PassFail, C!Binary
<1>1. CASE i = 1
  <2>1. FieldsOfCheck(<<"dividend", i>>, t) = {"dividend_yield", "yield_p25"}
    BY <1>1 DEF FieldsOfCheck
  <2>2. QED
    BY <1>1, <2>1 DEF C!Dividend
<1>2. CASE i = 2
  <2>1. FieldsOfCheck(<<"dividend", i>>, t) = {"dividend_yield", "yield_p75"}
    BY <1>2 DEF FieldsOfCheck
  <2>2. QED
    BY <1>2, <2>1 DEF C!Dividend
<1>3. CASE i = 3
  <2>1. FieldsOfCheck(<<"dividend", i>>, t) = {"dividend_yield", "yield_p10", "dps_history"}
    BY <1>3 DEF FieldsOfCheck
  <2>2. QED
    BY <1>3, <2>1 DEF C!Dividend, C!GateActive, C!FullHistory, C!FailByDefault, C!PayoutSustainable, AllSame, Switches
<1>4. CASE i = 4
  <2>1. FieldsOfCheck(<<"dividend", i>>, t) = {"dividend_yield", "yield_p10", "dps_history"}
    BY <1>4 DEF FieldsOfCheck
  <2>2. QED
    BY <1>4, <2>1 DEF C!Dividend, C!GateActive, C!FullHistory, C!FailByDefault, C!PayoutSustainable, AllSame, Switches
<1>5. CASE i = 5
  <2>1. FieldsOfCheck(<<"dividend", i>>, t) = {"dividend_yield", "yield_p10", "payout_ratio"}
    BY <1>5 DEF FieldsOfCheck
  <2>2. QED
    BY <1>5, <2>1 DEF C!Dividend, C!GateActive, C!FullHistory, C!FailByDefault, C!PayoutSustainable, AllSame, Switches
<1>6. CASE i = 6
  <2>1. FieldsOfCheck(<<"dividend", i>>, t) = {"dividend_yield", "yield_p10", "estimated_payout_3y"}
    BY <1>6 DEF FieldsOfCheck
  <2>2. QED
    BY <1>6, <2>1 DEF C!Dividend, C!GateActive, C!FullHistory, C!FailByDefault, C!PayoutSustainable, AllSame, Switches
<1>7. QED
  BY <1>1, <1>2, <1>3, <1>4, <1>5, <1>6

\* A check that has a verdict keeps it, and holds the inputs of its comparison,
\* unless it is a dividend check that failed by default; one that holds its inputs
\* lacks none.
Settled(p, q, c) ==
  LET x == C!Verdict(p, p.fair_value, c)
      held == Held(p, Compared(p, c))
  IN /\ C!Known(x) => C!Verdict(q, q.fair_value, c) = x
     /\ C!Known(x) => held \/ (c[1] = "dividend" /\ c[2] \in {3, 4})
     /\ x.result = "PASS" => held
     /\ held => x.reason \notin Lacking

\* So it is while the switches of the check do not move.
LEMMA CheckStands ==
  ASSUME NEW p, NEW q, NEW a \in C!Axes, NEW i \in 1..6,
         NEW t \in {"non_financial", "bank", "reit"},
         p.company_type = t, q.company_type = t,
         AllStand(p, q, FieldsOfCheck(<<a, i>>, t)),
         AllSame(p, q, Switches(<<a, i>>))
  PROVE  Settled(p, q, <<a, i>>)
<1> DEFINE x == C!Evaluate(p, p.fair_value, <<a, i>>)
           y == C!Evaluate(q, q.fair_value, <<a, i>>)
           fields == FieldsOfCheck(<<a, i>>, t)
           held == Held(p, Compared(p, <<a, i>>))
<1>1. \A r : ~C!Known(C!Unknown(r)) /\ C!Unknown(r).result # "PASS" /\ C!Unknown(r).reason = r
  BY DEF C!Known, C!Unknown
<1>2. SUFFICES /\ C!Known(x) => y = x
               /\ C!Known(x) => held \/ (a = "dividend" /\ i \in {3, 4})
               /\ x.result = "PASS" => held
               /\ held => x.reason \notin Lacking
  <2> DEFINE v == C!Verdict(p, p.fair_value, <<a, i>>)
             w == C!Verdict(q, q.fair_value, <<a, i>>)
  <2>1. v = x \/ (x = C!Unknown("MISSING_INPUT") /\ v = C!Unknown("PROVIDER_LIMITATION"))
    BY DEF C!Verdict
  <2>2. C!Known(y) => w = y
    BY <1>1 DEF C!Verdict
  <2>3. C!Known(v) => v = x
    BY <1>1, <2>1
  <2>4. v.result = "PASS" => v = x
    BY <1>1, <2>1
  <2>5. x.reason \notin Lacking => v = x
    BY <1>1, <2>1 DEF Lacking
  <2> HIDE DEF v, w, x, y, held
  <2>6. QED
    BY <1>2, <2>2, <2>3, <2>4, <2>5 DEF v, w, held, Settled
<1>3. x.result = "PASS" => C!Known(x)
  BY DEF C!Known
<1>4. CASE a = "value"
  <2>1. x = C!Value(p, p.fair_value, i) /\ y = C!Value(q, q.fair_value, i)
    BY <1>4 DEF C!Evaluate
  <2>2. held = Held(p, fields)
    BY <1>4 DEF Compared, Held
  <2>3. QED
    BY <1>3, <1>4, <2>1, <2>2, ValueStands
<1>5. CASE a = "future"
  <2>1. x = C!Future(p, i) /\ y = C!Future(q, i)
    BY <1>5 DEF C!Evaluate
  <2>2. held <=> IF i = 1 /\ p.becomes_profitable = TRUE THEN p.becomes_profitable # None
                 ELSE Held(p, fields)
    BY <1>5 DEF Compared, Held
  <2>3. p.becomes_profitable = TRUE => p.becomes_profitable # None
    BY NoneIsNoWord
  <2>4. /\ C!Known(C!Future(p, i)) => C!Future(q, i) = C!Future(p, i)
        /\ C!Known(C!Future(p, i)) => Held(p, fields) \/ (i = 1 /\ p.becomes_profitable = TRUE)
        /\ Held(p, fields) => C!Future(p, i).reason \notin Lacking
        /\ i = 1 /\ p.becomes_profitable = TRUE => C!Future(p, i).reason \notin Lacking
    BY <1>5, FutureStands
  <2> HIDE DEF x, y, held, fields
  <2>5. QED
    BY <1>3, <2>1, <2>2, <2>3, <2>4
<1>6. CASE a = "past"
  <2>1. x = C!Past(p, i) /\ y = C!Past(q, i)
    BY <1>6 DEF C!Evaluate
  <2>2. held = Held(p, fields)
    BY <1>6 DEF Compared, Held
  <2>3. QED
    BY <1>3, <1>6, <2>1, <2>2, PastStands
<1>7. CASE a = "health" /\ t = "bank"
  <2>1. x = C!FinancialHealth(p, i) /\ y = C!FinancialHealth(q, i)
    BY <1>7 DEF C!Evaluate, C!Health, C!HealthSet, C!FinancialTypes
  <2>2. held = Held(p, fields)
    <3>1. C!HealthSet(p) = "financial"
      BY <1>7 DEF C!HealthSet, C!FinancialTypes
    <3>2. fields \ (Earnings \cup Runway) = fields
      BY <1>7 DEF FieldsOfCheck, Earnings, Runway
    <3>3. Compared(p, <<a, i>>) = fields \ (Earnings \cup Runway)
      BY <1>7, <3>1 DEF Compared
    <3>4. QED
      BY <3>2, <3>3
  <2>3. QED
    BY <1>3, <1>7, <2>1, <2>2, BankHealthStands
<1>8. CASE a = "health" /\ t # "bank"
  <2> DEFINE runway == C!LossMaking(p)
             standard == Held(p, fields \ (Earnings \cup Runway))
             burning == Held(p, fields \cap Runway)
             free == C!DebtFree(p)
  <2>1. p.company_type \notin C!FinancialTypes /\ q.company_type \notin C!FinancialTypes
    BY <1>8 DEF C!FinancialTypes
  <2>2. i \in {5, 6} => (C!LossMaking(q) <=> runway)
    BY <1>8 DEF AllSame, Switches, C!LossMaking
  <2>3. C!HealthSet(p) = IF runway THEN "loss_making" ELSE "standard"
    BY <2>1 DEF C!HealthSet
  <2>4. x = C!Health(p, i) /\ y = C!Health(q, i)
    BY <1>8 DEF C!Evaluate
  <2>5. x = IF runway /\ i \in {5, 6} THEN C!RunwayHealth(p, i) ELSE C!StandardHealth(p, i)
    BY <2>1, <2>4 DEF C!Health, C!HealthSet
  <2>6. y = IF runway /\ i \in {5, 6} THEN C!RunwayHealth(q, i) ELSE C!StandardHealth(q, i)
    BY <2>1, <2>2, <2>4 DEF C!Health, C!HealthSet
  <2>7. held <=> IF runway /\ i \in {5, 6} THEN burning
                 ELSE IF i = 6 /\ free THEN Held(p, {"total_debt", "net_interest_expense"})
                 ELSE standard
    <3> HIDE DEF runway, free
    <3>1. CASE runway /\ i \in {5, 6}
      BY <1>8, <2>3, <3>1 DEF Compared
    <3>2. CASE ~runway /\ i = 6
      BY <1>8, <2>3, <3>2 DEF Compared, free
    <3>3. CASE i # 6 /\ ~(runway /\ i = 5)
      BY <1>8, <2>3, <3>3 DEF Compared
    <3>4. QED
      BY <3>1, <3>2, <3>3
  <2>8. free => Held(p, {"total_debt", "net_interest_expense"})
    BY DEF C!DebtFree, Held
  <2>9. /\ C!Known(C!StandardHealth(p, i)) => C!StandardHealth(q, i) = C!StandardHealth(p, i)
        /\ C!Known(C!StandardHealth(p, i)) => standard \/ (i = 6 /\ free)
        /\ standard => C!StandardHealth(p, i).reason \notin Lacking
        /\ i = 6 /\ free => C!StandardHealth(p, i).reason \notin Lacking
        /\ i \in {5, 6} /\ C!Known(C!RunwayHealth(p, i))
             => C!RunwayHealth(q, i) = C!RunwayHealth(p, i) /\ burning
        /\ i \in {5, 6} /\ burning => C!RunwayHealth(p, i).reason \notin Lacking
    BY <1>8, HealthStands
  <2> HIDE DEF x, y, held, fields, runway, standard, burning, free
  <2>10. CASE runway /\ i \in {5, 6}
    BY <1>3, <2>5, <2>6, <2>7, <2>9, <2>10
  <2>11. CASE ~(runway /\ i \in {5, 6})
    BY <1>3, <2>5, <2>6, <2>7, <2>8, <2>9, <2>11
  <2>12. QED
    BY <2>10, <2>11
<1>9. CASE a = "dividend"
  <2>1. x = C!Dividend(p, i) /\ y = C!Dividend(q, i)
    BY <1>9 DEF C!Evaluate
  <2>2. held = Held(p, fields \ (IF i > 2 THEN Gate ELSE {}))
    BY <1>9 DEF Compared, Held
  <2>3. QED
    BY <1>9, <2>1, <2>2, DividendStands
<1>10. QED
  BY <1>4, <1>5, <1>6, <1>7, <1>8, <1>9 DEF C!Axes

-----------------------------------------------------------------------------
(* What a check makes of the evidence *)

LEMMA FieldsAreFields ==
  /\ "company_type" \notin CheckFields
  /\ \A a \in C!Axes, i \in 1..6 : \A t \in {"non_financial", "bank", "reit"} :
       FieldsOfCheck(<<a, i>>, t) \subseteq CheckFields
  /\ \A a \in C!Axes, i \in 1..6 : Switches(<<a, i>>) \subseteq CheckFields
<1>1. \A c \in C!Checks : \E a \in C!Axes, i \in 1..6 : c = <<a, i>>
  BY DEF C!Checks
<1>2. \A a \in C!Axes, i \in 1..6 : <<a, i>> \in C!Checks
  BY DEF C!Checks
<1>3. ASSUME NEW a \in C!Axes, NEW i \in 1..6, NEW t \in {"non_financial", "bank"}
      PROVE  "company_type" \notin FieldsOfCheck(<<a, i>>, t)
  <2>1. CASE a = "value"
    BY <2>1 DEF FieldsOfCheck
  <2>2. CASE a = "future"
    BY <2>2 DEF FieldsOfCheck
  <2>3. CASE a = "past"
    BY <2>3 DEF FieldsOfCheck
  <2>4. CASE a = "health" /\ t = "bank"
    BY <2>4 DEF FieldsOfCheck
  <2>5. CASE a = "health" /\ t # "bank"
    BY <2>5 DEF FieldsOfCheck
  <2>6. CASE a = "dividend"
    BY <2>6 DEF FieldsOfCheck
  <2>7. QED
    BY <2>1, <2>2, <2>3, <2>4, <2>5, <2>6 DEF C!Axes
<1> DEFINE types == {"non_financial", "bank"}
<1>9. \A f : f \in CheckFields <=> \E c \in C!Checks : \E t \in types : f \in FieldsOfCheck(c, t)
  <2>1. ASSUME NEW f PROVE f \in CheckFields
                              <=> \E X \in {FieldsOfCheck(c, t) : c \in C!Checks, t \in types} : f \in X
    BY DEF CheckFields
  <2>2. ASSUME NEW X PROVE X \in {FieldsOfCheck(c, t) : c \in C!Checks, t \in types}
                             <=> \E c \in C!Checks : \E t \in types : X = FieldsOfCheck(c, t)
    OBVIOUS
  <2>3. QED
    BY <2>1, <2>2
<1>4. "company_type" \notin CheckFields
  <2> SUFFICES ASSUME "company_type" \in CheckFields PROVE FALSE
    OBVIOUS
  <2>1. PICK c \in C!Checks, t \in types : "company_type" \in FieldsOfCheck(c, t)
    BY <1>9
  <2>2. PICK a \in C!Axes, i \in 1..6 : c = <<a, i>>
    BY <1>1
  <2>3. QED
    BY <1>3, <2>1, <2>2
<1>5. \A a \in C!Axes, i \in 1..6 : \A t \in {"non_financial", "bank"} :
        FieldsOfCheck(<<a, i>>, t) \subseteq CheckFields
  BY <1>2, <1>9
<1>6. ASSUME NEW a \in C!Axes, NEW i \in 1..6
      PROVE  FieldsOfCheck(<<a, i>>, "reit") = FieldsOfCheck(<<a, i>>, "non_financial")
  BY DEF FieldsOfCheck
<1>7. ASSUME NEW a \in C!Axes, NEW i \in 1..6
      PROVE  Switches(<<a, i>>) \subseteq CheckFields
  <2>1. {"current_eps", "eps_recent"} \subseteq CheckFields
    <3>1. {"current_eps", "eps_recent"} \subseteq FieldsOfCheck(<<"health", 6>>, "non_financial")
      BY DEF FieldsOfCheck
    <3>2. QED
      BY <1>5, <3>1 DEF C!Axes
  <2>2. {"dividend_yield", "yield_p10", "dps_history"} \subseteq CheckFields
    <3>1. {"dividend_yield", "yield_p10", "dps_history"}
            \subseteq FieldsOfCheck(<<"dividend", 3>>, "non_financial")
      BY DEF FieldsOfCheck
    <3>2. QED
      BY <1>5, <3>1 DEF C!Axes
  <2>3. QED
    BY <2>1, <2>2 DEF Switches, C!Axes
<1>8. QED
  BY <1>4, <1>5, <1>6, <1>7

\* Which check a subject is.
LEMMA ChecksAre ==
  ASSUME CheckInv, subject.part = "check"
  PROVE  /\ subject.type \in {"non_financial", "bank", "reit"}
         /\ \E a \in C!Axes, i \in 1..6 : subject.of = <<a, i>>
<1>1. subject \in CheckSubjects
  BY DEF CheckInv
<1>2. QED
  BY <1>1 DEF CheckSubjects, C!Checks, C!Axes

LEMMA PayloadIs ==
  ASSUME CheckInv, subject.part = "check"
  PROVE  /\ Payload.company_type = subject.type
         /\ \A f \in CheckFields :
              Payload[f] = IF f \in DOMAIN evidence THEN evidence[f] ELSE None
<1>1. "company_type" \notin CheckFields
  BY FieldsAreFields
<1>2. QED
  BY <1>1 DEF Payload, Over, NoPayload, Without

\* A verdict stands.
LEMMA VerdictStands ==
  ASSUME CheckInv, CheckInv', subject.part = "check", EvidenceStep,
         C!Known(C!Verdict(Payload, Payload.fair_value, subject.of)),
         \A f \in Switches(subject.of) : ~Given(f)
  PROVE  C!Verdict(Payload', Payload'.fair_value, subject.of)
           = C!Verdict(Payload, Payload.fair_value, subject.of)
<1>1. PICK item \in DOMAIN evidence : Supply(item)
  BY DEF EvidenceStep, Settle, Age
<1>2. /\ subject' = subject /\ DOMAIN evidence' = DOMAIN evidence
      /\ \A f \in DOMAIN evidence : Stands(evidence[f], evidence'[f])
  BY <1>1, SupplyAddsOne
<1> DEFINE p == Payload
           q == Payload'
<1>3. /\ p.company_type = subject.type
      /\ \A f \in CheckFields : p[f] = IF f \in DOMAIN evidence THEN evidence[f] ELSE None
  BY PayloadIs
<1>4. /\ q.company_type = subject.type
      /\ \A f \in CheckFields : q[f] = IF f \in DOMAIN evidence' THEN evidence'[f] ELSE None
  <2>1. "company_type" \notin CheckFields
    BY FieldsAreFields
  <2>2. QED
    BY <1>2, <2>1 DEF Payload, Over, NoPayload, Without
<1> HIDE DEF p, q
<1>5. \A f \in CheckFields : Stands(p[f], q[f])
  BY <1>2, <1>3, <1>4 DEF Stands
<1>6. \A f \in CheckFields : ~Given(f) => q[f] = p[f]
  BY <1>2, <1>3, <1>4 DEF Given, Stands
<1>7. PICK a \in C!Axes, i \in 1..6 : subject.of = <<a, i>>
  BY ChecksAre
<1>8. subject.type \in {"non_financial", "bank", "reit"}
  BY ChecksAre
<1>9. AllStand(p, q, FieldsOfCheck(<<a, i>>, subject.type)) /\ AllSame(p, q, Switches(<<a, i>>))
  BY <1>5, <1>6, <1>7, <1>8, FieldsAreFields DEF AllStand, AllSame
<1>10. C!Known(C!Verdict(p, p.fair_value, <<a, i>>))
  BY <1>7 DEF p
<1>11. C!Verdict(q, q.fair_value, <<a, i>>) = C!Verdict(p, p.fair_value, <<a, i>>)
  <2> DEFINE t == subject.type
  <2>1. /\ t \in {"non_financial", "bank", "reit"}
        /\ p.company_type = t /\ q.company_type = t
        /\ AllStand(p, q, FieldsOfCheck(<<a, i>>, t)) /\ AllSame(p, q, Switches(<<a, i>>))
    BY <1>3, <1>4, <1>8, <1>9
  <2> HIDE DEF t
  <2>2. Settled(p, q, <<a, i>>)
    BY <1>7, <2>1, CheckStands
  <2>3. QED
    BY <1>10, <2>2 DEF Settled
<1>12. QED
  BY <1>7, <1>11 DEF p, q

\* Points and known checks rest on the inputs compared, which are then not missing.
LEMMA ScoreIsBacked ==
  ASSUME CheckInv, subject.part = "check"
  PROVE  LET verdicts  == AxisVerdicts(Payload)
             axis      == subject.of[1]
             backed    == {i \in 1..6 : Held(Payload, Compared(Payload, <<axis, i>>))}
             byDefault == IF axis = "dividend" THEN {3, 4} ELSE {}
         IN /\ C!ScoreRaw(verdicts, axis) <= Cardinality(backed)
            /\ C!KnownChecks(verdicts, axis) <= Cardinality(backed \cup byDefault)
            /\ \A i \in backed :
                 verdicts[<<axis, i>>].reason \notin {"MISSING_INPUT", "PROVIDER_LIMITATION"}
<1> DEFINE p         == Payload
           verdicts  == AxisVerdicts(p)
           axis      == subject.of[1]
           backed    == {i \in 1..6 : Held(p, Compared(p, <<axis, i>>))}
           byDefault == IF axis = "dividend" THEN {3, 4} ELSE {}
           passed    == {i \in 1..6 : verdicts[<<axis, i>>].result \in {"PASS"}}
           known     == {i \in 1..6 : verdicts[<<axis, i>>].result \in {"PASS", "FAIL"}}
<1>1. axis \in C!Axes /\ subject.type \in {"non_financial", "bank", "reit"}
  BY ChecksAre
<1>2. p.company_type = subject.type
  BY PayloadIs
<1>3. \A i \in 1..6 : verdicts[<<axis, i>>] = C!Verdict(p, p.fair_value, <<axis, i>>)
  BY DEF AxisVerdicts
<1>4. /\ C!ScoreRaw(verdicts, axis) = Cardinality(passed)
      /\ C!KnownChecks(verdicts, axis) = Cardinality(known)
  BY DEF C!ScoreRaw, C!KnownChecks, C!AxisCount, C!Cardinality, Cardinality
<1> HIDE DEF p, verdicts, axis
<1>5. ASSUME NEW i \in 1..6
      PROVE  /\ i \in known => i \in backed \/ (axis = "dividend" /\ i \in {3, 4})
             /\ i \in passed => i \in backed
             /\ i \in backed => verdicts[<<axis, i>>].reason \notin Lacking
  <2> DEFINE v == C!Verdict(p, p.fair_value, <<axis, i>>)
             held == Held(p, Compared(p, <<axis, i>>))
  <2>1. /\ AllStand(p, p, FieldsOfCheck(<<axis, i>>, subject.type))
        /\ AllSame(p, p, Switches(<<axis, i>>))
    BY DEF AllStand, AllSame, Stands
  <2>2. Settled(p, p, <<axis, i>>)
    BY <1>1, <1>2, <2>1, CheckStands
  <2>3. /\ C!Known(v) => held \/ (axis = "dividend" /\ i \in {3, 4})
        /\ v.result = "PASS" => held
        /\ held => v.reason \notin Lacking
    BY <2>2 DEF Settled
  <2>4. /\ verdicts[<<axis, i>>] = v
        /\ i \in backed <=> held
        /\ i \in known => C!Known(v)
        /\ i \in passed => v.result = "PASS"
    BY <1>3 DEF C!Known
  <2> HIDE DEF v, held, backed, known, passed
  <2>5. QED
    BY <2>3, <2>4
<1>6. passed \subseteq backed /\ known \subseteq backed \cup byDefault
  BY <1>5
<1>7. IsFiniteSet(backed) /\ IsFiniteSet(backed \cup byDefault)
  <2>1. \A n \in Nat : IsFiniteSet(1..n)
    BY FS_Interval
  <2>2. backed \subseteq 1..6 /\ backed \cup byDefault \subseteq 1..6
    OBVIOUS
  <2> HIDE DEF backed, byDefault
  <2>3. QED
    BY <2>1, <2>2, FS_Subset
<1>8. /\ Cardinality(passed) <= Cardinality(backed)
      /\ Cardinality(known) <= Cardinality(backed \cup byDefault)
  <2> HIDE DEF passed, known, backed, byDefault
  <2>1. QED
    BY <1>6, <1>7, FS_Subset
<1>9. \A i \in backed :
        verdicts[<<axis, i>>].reason \notin {"MISSING_INPUT", "PROVIDER_LIMITATION"}
  BY <1>5 DEF Lacking
<1>10. QED
  BY <1>4, <1>8, <1>9 DEF p, verdicts, axis

-----------------------------------------------------------------------------
(* The valuation *)

\* No check is UNKNOWN for words that name a rate.
LEMMA NoCheckNamesARate == \A c : A!ImpactedFields(c) \cap A!RateFields = {}
BY DEF A!ImpactedFields, A!RateFields

\* Without a value the first two checks are UNKNOWN, and the rates are named.
LEMMA RatesAreNamed ==
  ASSUME NEW held, NEW priced
  PROVE  LET unknown == {c \in {"value"} \X (1..6) : ~C!Known(C!Verdict(priced, None, c))}
         IN A!MissingInputs(unknown, held) \cap A!RateFields = A!RateFields \ held
<1> DEFINE unknown == {c \in {"value"} \X (1..6) : ~C!Known(C!Verdict(priced, None, c))}
           first == <<"value", 1>>
<1>1. C!Evaluate(priced, None, first) = C!Unknown("MISSING_INPUT")
  BY DEF C!Evaluate, C!Value, C!BelowFairValue, C!Binary
<1>2. ~C!Known(C!Verdict(priced, None, first))
  <2>1. \A reason : C!Unknown(reason).result = "UNKNOWN"
    BY DEF C!Unknown
  <2>2. C!Verdict(priced, None, first) \in {C!Unknown("MISSING_INPUT"), C!Unknown("PROVIDER_LIMITATION")}
    BY <1>1 DEF C!Verdict
  <2>3. QED
    BY <2>1, <2>2 DEF C!Known
<1>3. first \in unknown
  <2>1. 1 \in 1..6
    OBVIOUS
  <2>2. QED
    BY <1>2, <2>1
<1> HIDE DEF unknown
<1>4. A!MissingInputs(unknown, held)
        = (UNION {A!ImpactedFields(c) : c \in unknown} \ held) \cup (A!RateFields \ held)
  BY <1>3 DEF A!MissingInputs
<1>5. QED
  BY <1>4, NoCheckNamesARate DEF unknown

Numeric == {"risk_free_rate", "discount_rate", "long_run_growth", "equity_risk_premium",
            "levered_beta", "unlevered_beta_and_debt", "shares_outstanding", "excess_returns_growth",
            "ddm_growth", "current_bve", "stable_future_bve", "stable_future_roe", "expected_dps",
            "current_earnings", "earnings_estimates", "earnings_history", "roe_convergence",
            "capex_history", "operating_cash_flow", "fcf_estimates", "affo", "ffo",
            "affo_estimates", "ffo_estimates", "nav_per_share", "bank_data", "fair_value"}

\* What a value can be lost by.
Turning == (Rates \ {"risk_free_rate"}) \cup {"fcf_estimates", "bank_data", "stable_future_roe"}

\* Inputs that know all that others know, and no more of what a value can be lost by.
ValuedAs(v, w) ==
  /\ v.company_type = w.company_type
  /\ AllStand(v, w, Numeric)
  /\ AllSame(v, w, Turning)

LEMMA RatesStand ==
  ASSUME NEW v, NEW w, ValuedAs(v, w)
  PROVE  /\ V!Given(V!DiscountRate(v)) => V!DiscountRate(w) = V!DiscountRate(v)
         /\ V!Given(V!LongRunGrowth(v)) => V!LongRunGrowth(w) = V!LongRunGrowth(v)
         /\ V!Given(V!OwnGrowth(v, v.excess_returns_growth))
              => V!OwnGrowth(w, w.excess_returns_growth) = V!OwnGrowth(v, v.excess_returns_growth)
         /\ V!Given(V!OwnGrowth(v, v.ddm_growth))
              => V!OwnGrowth(w, w.ddm_growth) = V!OwnGrowth(v, v.ddm_growth)
<1>1. /\ w.discount_rate = v.discount_rate /\ w.long_run_growth = v.long_run_growth
      /\ w.equity_risk_premium = v.equity_risk_premium
      /\ w.excess_returns_growth = v.excess_returns_growth /\ w.ddm_growth = v.ddm_growth
  BY DEF ValuedAs, AllSame, Turning, Rates
<1>2. /\ Stands(v.risk_free_rate, w.risk_free_rate)
      /\ Stands(v.levered_beta, w.levered_beta)
      /\ Stands(v.unlevered_beta_and_debt, w.unlevered_beta_and_debt)
  BY DEF ValuedAs, AllStand, Numeric
<1>3. V!Given(V!DiscountRate(v)) => V!DiscountRate(w) = V!DiscountRate(v)
  BY <1>1, <1>2 DEF V!DiscountRate, V!CostOfEquity, V!Given, Stands
<1>4. V!Given(V!LongRunGrowth(v)) => V!LongRunGrowth(w) = V!LongRunGrowth(v)
  BY <1>1, <1>2 DEF V!LongRunGrowth, V!Given, Stands
<1>5. QED
  BY <1>1, <1>3, <1>4 DEF V!OwnGrowth, V!Given

\* The engines.
LEMMA EnginesStand ==
  ASSUME NEW v, NEW w, ValuedAs(v, w)
  PROVE  /\ V!TwoStage(v) => V!TwoStage(w)
         /\ V!ExcessReturns(v) => V!ExcessReturns(w)
         /\ V!Ddm(v) => V!Ddm(w)
         /\ V!AffoVariant(v) # "unknown" => V!AffoVariant(w) # "unknown"
<1>1. /\ Stands(v.shares_outstanding, w.shares_outstanding)
      /\ Stands(v.current_bve, w.current_bve) /\ Stands(v.stable_future_bve, w.stable_future_bve)
      /\ Stands(v.stable_future_roe, w.stable_future_roe) /\ Stands(v.expected_dps, w.expected_dps)
      /\ Stands(v.capex_history, w.capex_history)
      /\ Stands(v.operating_cash_flow, w.operating_cash_flow)
      /\ Stands(v.affo, w.affo) /\ Stands(v.ffo, w.ffo)
      /\ Stands(v.affo_estimates, w.affo_estimates) /\ Stands(v.ffo_estimates, w.ffo_estimates)
      /\ Stands(v.nav_per_share, w.nav_per_share)
  BY DEF ValuedAs, AllStand, Numeric
<1>2. /\ Stands(v.current_earnings, w.current_earnings)
      /\ Stands(v.earnings_estimates, w.earnings_estimates)
      /\ Stands(v.earnings_history, w.earnings_history)
      /\ Stands(v.roe_convergence, w.roe_convergence)
  BY DEF ValuedAs, AllStand, Numeric
<1>3. w.fcf_estimates = v.fcf_estimates
  BY DEF ValuedAs, AllSame, Turning
<1>4. V!TwoStagePossible(v) => V!TwoStagePossible(w)
  BY <1>1, RatesStand DEF V!TwoStagePossible, V!Discountable, V!Given, Stands
<1>5. V!Given(V!GrowthRoute(v)) => V!Given(V!GrowthRoute(w))
  BY <1>2, NoneIsNoWord DEF V!GrowthRoute, V!Given, Stands
<1>6. /\ V!FromBase(v, v.operating_cash_flow) => V!FromBase(w, w.operating_cash_flow)
      /\ V!FromBase(v, v.affo) => V!FromBase(w, w.affo)
      /\ V!FromBase(v, v.ffo) => V!FromBase(w, w.ffo)
  BY <1>1, <1>4, <1>5 DEF V!FromBase, V!Given, Stands
<1>7. V!TwoStage(v) => V!TwoStage(w)
  BY <1>1, <1>3, <1>4, <1>6 DEF V!TwoStage, V!FromEstimates, V!Given, Stands
<1>8. V!ExcessReturns(v) => V!ExcessReturns(w)
  BY <1>1, RatesStand DEF V!ExcessReturns, V!Discountable, V!Given, Stands
<1>9. V!Ddm(v) => V!Ddm(w)
  BY <1>1, RatesStand DEF V!Ddm, V!Discountable, V!Given, Stands
<1>10. /\ V!FromEstimates(v, v.affo_estimates) => V!FromEstimates(w, w.affo_estimates)
       /\ V!FromEstimates(v, v.ffo_estimates) => V!FromEstimates(w, w.ffo_estimates)
  BY <1>1, <1>4, NoneIsNoWord DEF V!FromEstimates, Stands
<1>11. V!AffoVariant(v) # "unknown" => V!AffoVariant(w) # "unknown"
  BY <1>1, <1>6, <1>10 DEF V!AffoVariant, V!Given, Stands
<1>12. QED
  BY <1>7, <1>8, <1>9, <1>11

LEMMA ValuedStands ==
  ASSUME NEW v, NEW w, ValuedAs(v, w), v.company_type \in V!CompanyTypes, Valued(v)
  PROVE  Valued(w)
<1>1. /\ Stands(v.fair_value, w.fair_value) /\ w.company_type = v.company_type
      /\ w.bank_data = v.bank_data /\ w.stable_future_roe = v.stable_future_roe
  BY DEF ValuedAs, AllStand, AllSame, Numeric, Turning
<1>2. V!Model(w) = V!Model(v)
  BY <1>1 DEF V!Model, V!Given
<1>3. V!Model(v) \in {"two_stage_fcf", "excess_returns", "ddm", "affo_dcf"}
  BY DEF V!Model, V!CompanyTypes
<1>4. V!Computable(v) => V!Computable(w)
  BY <1>2, <1>3, EnginesStand DEF V!Computable
<1>5. V!Given(v.fair_value) \/ V!Computable(v)
  BY DEF Valued, V!ResolveValuation
<1>6. V!Given(w.fair_value) \/ V!Computable(w)
  BY <1>1, <1>4, <1>5 DEF V!Given, Stands
<1>7. QED
  BY <1>6, NoneIsNoWord DEF Valued, V!ResolveValuation

LEMMA InputsAreInputs ==
  /\ "company_type" \notin ValuationFields
  /\ \A t \in V!CompanyTypes \ {"insurance"} : ReadByModel(t) \subseteq ValuationFields
  /\ Numeric \subseteq ValuationFields
  /\ Turning \subseteq ValuationFields
<1> DEFINE types == V!CompanyTypes \ {"insurance"}
<1>1. types = {"non_financial", "bank", "reit", "other_financial"}
  BY DEF V!CompanyTypes
<1>2. \A t \in types : ReadByModel(t) \subseteq ValuationFields
  BY DEF ValuationFields
<1>3. \A t \in types : "company_type" \notin ReadByModel(t)
  BY <1>1 DEF ReadByModel
<1>4. "company_type" \notin ValuationFields
  BY <1>3 DEF ValuationFields, Series, Rates
<1>5. Numeric \subseteq ReadByModel("non_financial") \cup ReadByModel("bank") \cup ReadByModel("reit")
                           \cup ReadByModel("other_financial") \cup Series \cup Rates
  BY DEF Numeric, ReadByModel, Series, Rates
<1>6. Turning \subseteq ReadByModel("bank") \cup Series \cup Rates
  BY DEF Turning, ReadByModel, Series, Rates
<1>7. Series \cup Rates \subseteq ValuationFields
  BY DEF ValuationFields
<1>8. QED
  BY <1>1, <1>2, <1>4, <1>5, <1>6, <1>7

LEMMA InputsGrow ==
  ASSUME ValuationInv, subject.part = "valuation", EvidenceStep,
         \A f \in Turning : ~Given(f)
  PROVE  ValuedAs(ValuationInputs, ValuationInputs') /\ ValuationInputs.company_type \in V!CompanyTypes
<1>1. PICK item \in DOMAIN evidence : Supply(item)
  BY DEF EvidenceStep, Settle, Age
<1>2. /\ subject' = subject /\ DOMAIN evidence' = DOMAIN evidence
      /\ \A f \in DOMAIN evidence : Stands(evidence[f], evidence'[f])
  BY <1>1, SupplyAddsOne
<1> DEFINE v == ValuationInputs
           w == ValuationInputs'
<1>3. "company_type" \notin ValuationFields
  BY InputsAreInputs
<1>4. /\ v.company_type = subject.type
      /\ \A f \in ValuationFields : v[f] = IF f \in DOMAIN evidence THEN evidence[f] ELSE None
  BY <1>3 DEF ValuationInputs, Over, NoInputs, Without
<1>5. /\ w.company_type = subject.type
      /\ \A f \in ValuationFields : w[f] = IF f \in DOMAIN evidence' THEN evidence'[f] ELSE None
  BY <1>2, <1>3 DEF ValuationInputs, Over, NoInputs, Without
<1> HIDE DEF v, w
<1>6. AllStand(v, w, Numeric)
  BY <1>2, <1>4, <1>5, InputsAreInputs DEF AllStand, Stands
<1>7. AllSame(v, w, Turning)
  BY <1>2, <1>4, <1>5, InputsAreInputs DEF AllSame, Given, Stands
<1>8. subject.type \in V!CompanyTypes
  BY DEF ValuationInv
<1>9. QED
  BY <1>4, <1>5, <1>6, <1>7, <1>8 DEF ValuedAs, v, w
=============================================================================
