--------------------------- MODULE OperatorProofs ---------------------------
(***************************************************************************)
(* What the operators return, for every input: a list of checks, one       *)
(* evaluation of a rule book, and the redaction of a body.  The theorems   *)
(* on the engine, the redaction and the gateway rest on these lemmas.      *)
(***************************************************************************)
EXTENDS Payloads, WellFoundedInduction, FiniteSetTheorems, SequenceTheorems, TLAPS

(* What a passed list of checks says of its conditions.                    *)

\* A list is passed when none of its conditions applies.
LEMMA OutcomeOk ==
  ASSUME NEW checks, NEW passed
  PROVE  Outcome(checks, passed).ok <=> \A i \in DOMAIN checks : ~checks[i][2]
BY DEF Outcome

\* One check is passed when its condition does not apply.
LEMMA OneCheck ==
  ASSUME NEW a, NEW p, NEW passed, Outcome(<< <<a, p>> >>, passed).ok
  PROVE  ~p
<1> DEFINE checks == << <<a, p>> >>
<1>1. checks[1][2] = p /\ 1 \in DOMAIN checks
  OBVIOUS
<1>2. \A i \in DOMAIN checks : ~checks[i][2]
  BY OutcomeOk
<1> HIDE DEF checks
<1>3. ~checks[1][2]
  BY <1>1, <1>2
<1> QED  BY <1>1, <1>3

\* Three checks are passed exactly when no condition applies.
LEMMA ThreeChecks ==
  ASSUME NEW p \in BOOLEAN, NEW q \in BOOLEAN, NEW r \in BOOLEAN,
         NEW a, NEW b, NEW c, NEW passed
  PROVE  Outcome(<< <<a, p>>, <<b, q>>, <<c, r>> >>, passed).ok <=> ~p /\ ~q /\ ~r
BY DEF Outcome

\* Of seven checks that are passed, the fifth does not apply.
LEMMA FifthOfSeven ==
  ASSUME NEW c1, NEW c2, NEW c3, NEW c4, NEW c5, NEW c6, NEW c7, NEW a, NEW p, NEW passed,
         c5 = <<a, p>>, Outcome(<<c1, c2, c3, c4, c5, c6, c7>>, passed).ok
  PROVE  ~p
<1> DEFINE checks == <<c1, c2, c3, c4, c5, c6, c7>>
<1>1. checks[5] = c5 /\ 5 \in DOMAIN checks /\ c5[2] = p
  OBVIOUS
<1>2. \A i \in DOMAIN checks : ~checks[i][2]
  BY OutcomeOk
<1> HIDE DEF checks
<1>3. ~checks[5][2]
  BY <1>1, <1>2
<1> QED  BY <1>1, <1>3

\* Two parts are passed when each of them is.
LEMMA BothParts ==
  ASSUME NEW first, NEW second
  PROVE  Then(first, second).ok <=> first.ok /\ second.ok
BY DEF Then

-----------------------------------------------------------------------------
(* What the rules decide.                                                  *)

\* A set of natural numbers that is not empty has a least element.
LEMMA LeastNatural ==
  ASSUME NEW S \in SUBSET Nat, S # {}
  PROVE  \E m \in S : \A k \in S : m <= k
<1>1. PICK m \in S : \A k \in S : <<k, m>> \notin OpToRel(<, Nat)
  BY WFMin, NatLessThanWellFounded, Zenon
<1>2. \A k \in S : ~(k < m)
  BY <1>1 DEF OpToRel
<1> QED  BY <1>2

\* max over a list that is not empty returns one of its greatest elements.
LEMMA FirstGreatestIsGreatest ==
  ASSUME NEW n \in Nat, NEW rules, NEW field,
         NEW S \in SUBSET (1 .. n), S # {},
         \A i \in S : rules[i][field] \in Int
  PROVE  /\ FirstGreatest(rules, S, field) \in S
         /\ \A j \in S : rules[j][field] <= rules[FirstGreatest(rules, S, field)][field]
<1> DEFINE v(i) == rules[i][field]
           Greatest(i, m) == /\ i \in S /\ i <= m
                             /\ \A j \in S : j <= m => v(j) < v(i) \/ (v(j) = v(i) /\ i <= j)
           Some(m) == \E j \in S : j <= m
           Bad == {m \in 0 .. n : Some(m) /\ \A i \in S : ~Greatest(i, m)}
<1>0. \A i \in S : v(i) \in Int /\ i \in 1 .. n
  OBVIOUS
<1> HIDE DEF v
<1>1. Bad = {}
  <2> SUFFICES ASSUME Bad # {} PROVE FALSE
    OBVIOUS
  <2>1. PICK m \in Bad : \A k \in Bad : m <= k
    <3>1. Bad \in SUBSET Nat
      OBVIOUS
    <3> QED  BY <3>1, LeastNatural
  <2>2. m \in 1 .. n
    OBVIOUS
  <2>3. m - 1 \in 0 .. n /\ m - 1 \notin Bad
    <3>1. m - 1 < m /\ m - 1 \in 0 .. n /\ m \in Nat
      BY <2>2
    <3> HIDE DEF Bad
    <3>2. ASSUME m - 1 \in Bad PROVE FALSE
      BY <3>1, <3>2, <2>1
    <3> QED  BY <3>1, <3>2
  <2>4. CASE Some(m - 1)
    <3>1. PICK i \in S : Greatest(i, m - 1)
      BY <2>3, <2>4
    <3>2. \A j \in S : j <= m => j <= m - 1 \/ j = m
      BY <2>2
    <3>3. CASE m \in S /\ v(i) < v(m)
      <4>1. Greatest(m, m)
        BY <3>1, <3>2, <3>3, <2>2, <1>0
      <4> QED  BY <4>1, <3>3
    <3>4. CASE ~(m \in S /\ v(i) < v(m))
      <4>1. i \in Nat /\ i <= m /\ i <= m - 1
        BY <3>1, <2>2
      <4>2. ASSUME NEW j \in S, j <= m
            PROVE  v(j) < v(i) \/ (v(j) = v(i) /\ i <= j)
        <5>1. CASE j <= m - 1
          BY <5>1, <4>2, <3>1, <2>2
        <5>2. CASE j = m
          <6>1. v(j) \in Int /\ v(i) \in Int /\ ~(v(i) < v(j))
            BY <5>2, <3>4, <4>2, <1>0
          <6>2. \A a, b \in Int : ~(a < b) => b < a \/ b = a
            OBVIOUS
          <6>3. v(j) < v(i) \/ v(j) = v(i)
            BY <6>1, <6>2
          <6> QED  BY <5>2, <6>3, <4>1
        <5> QED  BY <5>1, <5>2, <4>2, <3>2
      <4>3. Greatest(i, m)
        BY <4>1, <4>2
      <4> QED  BY <4>3
    <3> QED  BY <3>3, <3>4
  <2>5. CASE ~Some(m - 1)
    <3>1. \A j \in S : j <= m => j = m
      BY <2>5, <2>2
    <3>2. m \in S
      BY <3>1
    <3>3. Greatest(m, m)
      BY <3>1, <3>2, <2>2
    <3> QED  BY <3>2, <3>3
  <2> QED  BY <2>4, <2>5
<1>2. Some(n)
  <2>1. PICK j \in S : j \in 1 .. n
    BY <1>0
  <2> QED  BY <2>1
<1>3. n \in 0 .. n
  OBVIOUS
<1>4. PICK i \in S : Greatest(i, n)
  BY <1>1, <1>2, <1>3
<1>5. \A j \in S : v(j) < v(i) \/ (v(j) = v(i) /\ i <= j)
  BY <1>4, <1>0
<1>6. LET g == FirstGreatest(rules, S, field) IN
      g \in S /\ \A j \in S : v(j) < v(g) \/ (v(j) = v(g) /\ g <= j)
  BY <1>4, <1>5 DEF FirstGreatest, v
<1>7. \A a, b \in Int : a < b \/ a = b => a <= b
  OBVIOUS
<1>8. LET g == FirstGreatest(rules, S, field) IN \A j \in S : v(j) <= v(g)
  BY <1>0, <1>6, <1>7
<1> QED  BY <1>6, <1>8 DEF v

-----------------------------------------------------------------------------
(* What one evaluation returns.                                            *)

\* A bundle passes exactly when it is active, unexpired and properly signed.
LEMMA BundleValid ==
  ASSUME NEW judge, NEW t
  PROVE  BundleInvalidReason(judge, t).ok <=>
           /\ judge.bundle.status = "active"
           /\ ~(judge.bundle.expires <= t)
           /\ judge.requireSigned => SignatureValid(judge)
<1> DEFINE p == judge.bundle.status # "active"
           q == judge.bundle.expires <= t
           r == judge.requireSigned /\ ~SignatureValid(judge)
<1>1. p \in BOOLEAN /\ q \in BOOLEAN /\ r \in BOOLEAN
  OBVIOUS
<1>2. BundleInvalidReason(judge, t) =
        Outcome(<< <<"policy_inactive", p>>, <<"policy_expired", q>>,
                   <<"policy_signature_invalid", r>> >>, "none")
  BY DEF BundleInvalidReason
<1>3. BundleInvalidReason(judge, t).ok <=> ~p /\ ~q /\ ~r
  <2> HIDE DEF p, q, r
  <2> QED  BY <1>1, <1>2, ThreeChecks
<1> QED  BY <1>3

\* The matching rules are positions of the list, and of some of them no other
\* has a higher priority.
LEMMA MatchingRules ==
  ASSUME NEW rules, WellFormed(rules), NEW asked
  PROVE  /\ Matching(rules, asked) \in SUBSET (1 .. Len(rules))
         /\ Matching(rules, asked) # {} => Highest(rules, Matching(rules, asked)) # {}
<1> DEFINE matching == Matching(rules, asked)
           top == FirstGreatest(rules, matching, "priority")
<1>1. matching \in SUBSET (1 .. Len(rules)) /\ Len(rules) \in Nat
  BY DEF Matching, WellFormed
<1>2. ASSUME matching # {} PROVE Highest(rules, matching) # {}
  <2>1. \A i \in matching : rules[i]["priority"] \in Int
    BY <1>1 DEF WellFormed
  <2>2. top \in matching /\ \A j \in matching : rules[j]["priority"] <= rules[top]["priority"]
    <3> HIDE DEF matching
    <3> QED  BY <1>1, <1>2, <2>1, FirstGreatestIsGreatest
  <2> QED  BY <2>2 DEF Highest
<1> QED  BY <1>1, <1>2

\* Some matching rule blocks: the decision blocks.
LEMMA BlockWins ==
  ASSUME NEW judge, WellFormed(judge.bundle.rules), NEW asked, NEW t,
         NEW i \in Matching(judge.bundle.rules, asked),
         judge.bundle.rules[i].action = "block"
  PROVE  Evaluate(judge, asked, t).action = "block"
<1> DEFINE rules == judge.bundle.rules
           matching == Matching(rules, asked)
           blocks == {k \in matching : rules[k].action = "block"}
           last == FirstGreatest(rules, blocks, "priority")
<1>1. blocks \in SUBSET (1 .. Len(rules)) /\ Len(rules) \in Nat
  BY MatchingRules DEF WellFormed
<1>2. blocks # {}
  OBVIOUS
<1>3. \A k \in blocks : rules[k]["priority"] \in Int
  BY <1>1 DEF WellFormed
<1>4. last \in blocks
  <2> HIDE DEF blocks
  <2> QED  BY <1>1, <1>2, <1>3, FirstGreatestIsGreatest
<1>5. DecisionFromRule(rules[last]).action = "block"
  BY <1>4 DEF DecisionFromRule, Decision
<1>6. DecisionFromMatches(rules, matching).action = "block"
  <2> HIDE DEF last
  <2> QED  BY <1>2, <1>5 DEF DecisionFromMatches, Decision, last
<1> HIDE DEF matching
<1> QED  BY <1>6 DEF Evaluate, Decision, matching

\* Two matching rules of the highest priority disagree: the decision blocks
\* and names no rule.
LEMMA ConflictWins ==
  ASSUME NEW judge, NEW asked, NEW t,
         NEW i \in Matching(judge.bundle.rules, asked),
         NEW j \in Matching(judge.bundle.rules, asked),
         judge.bundle.rules[i].action # judge.bundle.rules[j].action,
         judge.bundle.rules[i].priority = judge.bundle.rules[j].priority,
         \A k \in Matching(judge.bundle.rules, asked) :
           judge.bundle.rules[k].priority <= judge.bundle.rules[i].priority
  PROVE  /\ Evaluate(judge, asked, t).action = "block"
         /\ Evaluate(judge, asked, t).rule = Unset
<1> DEFINE rules == judge.bundle.rules
           matching == Matching(rules, asked)
<1>1. i \in Highest(rules, matching) /\ j \in Highest(rules, matching)
  BY DEF Highest
<1>2. DecisionFromMatches(rules, matching) = Decision("block", "policy_conflict", Unset, TRUE, {})
  BY <1>1 DEF DecisionFromMatches
<1> HIDE DEF matching
<1> QED  BY <1>2 DEF Evaluate, Decision, matching

\* What is not blocked passed the checks of the bundle, and carries the
\* decision of a highest matching rule, or a default when no rule matches.
LEMMA Unblocked ==
  ASSUME NEW judge, WellFormed(judge.bundle.rules), NEW asked, NEW t,
         Evaluate(judge, asked, t).action # "block"
  PROVE  LET rules    == judge.bundle.rules
             matching == Matching(rules, asked)
             decided  == Evaluate(judge, asked, t)
         IN  /\ BundleInvalidReason(judge, t).ok
             /\ \/ matching = {} /\ decided = DefaultDecision(judge.bundle, asked)
                \/ \E i \in Highest(rules, matching) : decided = DecisionFromRule(rules[i])
<1> DEFINE rules == judge.bundle.rules
           matching == Matching(rules, asked)
           highest == Highest(rules, matching)
           blocks == {k \in matching : rules[k].action = "block"}
           best == FirstGreatest(rules, highest, "id")
<1>1. BundleInvalidReason(judge, t).ok
  BY DEF Evaluate, Decision
<1>2. CASE matching = {}
  BY <1>1, <1>2 DEF Evaluate
<1>3. CASE matching # {}
  <2>1. Evaluate(judge, asked, t) = DecisionFromMatches(rules, matching)
    BY <1>1, <1>3 DEF Evaluate
  <2>2. blocks = {}
    BY BlockWins
  <2>3. ~ \E i, j \in highest : rules[i].action # rules[j].action
    BY <2>1 DEF DecisionFromMatches, Decision
  <2>4. DecisionFromMatches(rules, matching) = DecisionFromRule(rules[best])
    <3> HIDE DEF highest, matching, rules
    <3> QED  BY <2>2, <2>3 DEF DecisionFromMatches, highest
  <2>5. best \in highest
    <3>1. highest # {} /\ highest \in SUBSET (1 .. Len(rules)) /\ Len(rules) \in Nat
      BY <1>3, MatchingRules DEF Highest, WellFormed
    <3>2. \A k \in highest : rules[k]["id"] \in Int
      BY <3>1 DEF WellFormed
    <3> HIDE DEF highest
    <3> QED  BY <3>1, <3>2, FirstGreatestIsGreatest
  <2> HIDE DEF highest, best
  <2>6. \E i \in highest : Evaluate(judge, asked, t) = DecisionFromRule(rules[i])
    BY <2>1, <2>4, <2>5
  <2> QED  BY <1>1, <2>6 DEF highest
<1> QED  BY <1>2, <1>3

\* A decision has one of the three actions, and is a conflict or is not.
LEMMA ActionOfDecision ==
  ASSUME NEW judge, WellFormed(judge.bundle.rules), NEW asked, NEW t
  PROVE  /\ Evaluate(judge, asked, t).action \in PolicyAction
         /\ Evaluate(judge, asked, t).conflict \in BOOLEAN
<1> DEFINE rules == judge.bundle.rules
           matching == Matching(rules, asked)
           default == DefaultDecision(judge.bundle, asked)
           decided == DecisionFromMatches(rules, matching)
<1>1. default.action \in PolicyAction /\ default.conflict \in BOOLEAN
  BY DEF DefaultDecision, Decision, PolicyAction
<1>2. decided.conflict \in BOOLEAN
  BY DEF DecisionFromMatches, DecisionFromRule, Decision
<1>3. Evaluate(judge, asked, t).conflict \in BOOLEAN
  <2> HIDE DEF default, decided
  <2> QED  BY <1>1, <1>2 DEF Evaluate, Decision, default, decided
<1>4. \A i \in Highest(rules, matching) : DecisionFromRule(rules[i]).action \in PolicyAction
  BY DEF DecisionFromRule, Decision, Highest, Matching, WellFormed
<1>5. CASE Evaluate(judge, asked, t).action = "block"
  BY <1>3, <1>5 DEF PolicyAction
<1>6. CASE Evaluate(judge, asked, t).action # "block"
  BY <1>1, <1>3, <1>4, <1>6, Unblocked
<1> QED  BY <1>5, <1>6

\* Defaults let a request through only when every class has an allow.
LEMMA DefaultAllows ==
  ASSUME NEW bundle, IsBundle(bundle), NEW asked,
         DefaultDecision(bundle, asked).action # "block"
  PROVE  /\ asked.classes # {}
         /\ DefaultDecision(bundle, asked).action = "allow" =>
              \A c \in asked.classes : c \in DOMAIN bundle.defaults
                                       /\ bundle.defaults[c] = "allow"
<1> DEFINE defaultOf(c) == IF c \in DOMAIN bundle.defaults THEN bundle.defaults[c] ELSE "block"
           actions == {defaultOf(c) : c \in asked.classes}
<1>1. DefaultDecision(bundle, asked).action =
        IF "redact" \in actions THEN "redact"
        ELSE IF "block" \in actions \/ actions = {} THEN "block" ELSE "allow"
  BY DEF DefaultDecision, Decision
<1>2. actions # {} /\ asked.classes # {}
  BY <1>1
<1>3. ASSUME DefaultDecision(bundle, asked).action = "allow", NEW c \in asked.classes
      PROVE  c \in DOMAIN bundle.defaults /\ bundle.defaults[c] = "allow"
  <2>1. defaultOf(c) \in actions /\ "redact" \notin actions /\ "block" \notin actions
    BY <1>1, <1>3
  <2> QED  BY <2>1 DEF IsBundle, PolicyAction
<1> QED  BY <1>2, <1>3

-----------------------------------------------------------------------------
(* What redaction does to a body.                                          *)

\* Positions of a sequence, counted from the first, take each count once.
LEMMA RanksFill ==
  ASSUME NEW L \in Nat, NEW P \in SUBSET (1 .. L)
  PROVE  /\ Cardinality(P) \in Nat
         /\ \A i \in P : Cardinality({j \in P : j <= i}) \in 1 .. Cardinality(P)
         /\ \A n \in 1 .. Cardinality(P) : \E i \in P : Cardinality({j \in P : j <= i}) = n
         /\ \A i, k \in P : Cardinality({j \in P : j <= i}) = Cardinality({j \in P : j <= k}) => i = k
<1> DEFINE N == Cardinality(P)
           Upto(i) == {j \in P : j <= i}
           rank == [i \in P |-> Cardinality(Upto(i))]
<1>1. IsFiniteSet(P) /\ N \in Nat
  <2>1. IsFiniteSet(1 .. L)
    BY FS_Interval
  <2>2. IsFiniteSet(P)
    BY <2>1, FS_Subset
  <2> QED  BY <2>2, FS_CardinalityType
<1> HIDE DEF N
<1>2. ASSUME NEW i \in P PROVE Cardinality(Upto(i)) \in 1 .. N
  <2>1. Upto(i) \in SUBSET P /\ i \in Upto(i)
    OBVIOUS
  <2> HIDE DEF Upto
  <2>2. IsFiniteSet(Upto(i)) /\ Cardinality(Upto(i)) <= N
    BY <1>1, <2>1, FS_Subset DEF N
  <2>3. Cardinality(Upto(i)) \in Nat /\ Cardinality(Upto(i)) # 0
    BY <2>1, <2>2, FS_CardinalityType, FS_EmptySet
  <2> QED  BY <1>1, <2>2, <2>3
<1>3. ASSUME NEW i \in P, NEW k \in P, i < k PROVE Cardinality(Upto(i)) # Cardinality(Upto(k))
  <2>0. i \in Int /\ k \in Int /\ \A j \in P : j \in Int
    OBVIOUS
  <2>1. Upto(i) \in SUBSET Upto(k) /\ k \in Upto(k) /\ k \notin Upto(i) /\ Upto(k) \in SUBSET P
    <3>1. \A j \in P : j <= i => j <= k
      BY <1>3, <2>0
    <3>2. ~(k <= i) /\ k <= k
      BY <1>3, <2>0
    <3> QED  BY <3>1, <3>2
  <2> HIDE DEF Upto
  <2>2. IsFiniteSet(Upto(k))
    BY <1>1, <2>1, FS_Subset
  <2> QED  BY <2>1, <2>2, FS_Subset
<1>4. ASSUME NEW i \in P, NEW k \in P, Cardinality(Upto(i)) = Cardinality(Upto(k)) PROVE i = k
  <2> HIDE DEF Upto
  <2>1. i < k \/ k < i \/ i = k
    OBVIOUS
  <2> QED  BY <1>3, <1>4, <2>1
<1> HIDE DEF Upto
<1>5. rank \in Injection(P, 1 .. N)
  BY <1>2, <1>4 DEF Injection, IsInjective
<1>6. rank \in Surjection(P, 1 .. N)
  <2>1. IsFiniteSet(1 .. N) /\ Cardinality(1 .. N) = N
    BY <1>1, FS_Interval
  <2> HIDE DEF rank
  <2>2. Cardinality(P) = Cardinality(1 .. N)
    BY <2>1 DEF N
  <2> QED  BY <1>5, <2>1, <2>2, FS_Injection
<1>7. \A n \in 1 .. N : \E i \in P : Cardinality(Upto(i)) = n
  BY <1>6 DEF Surjection
<1> QED  BY <1>1, <1>2, <1>4, <1>7 DEF N, Upto

\* What remains is exactly what stood at the positions, and all of it when
\* the positions are all there are.
LEMMA RemainingFacts ==
  ASSUME NEW S, NEW s \in Seq(S), NEW P \in SUBSET (1 .. Len(s))
  PROVE  /\ Remaining(s, P) \in Seq(S)
         /\ Range(Remaining(s, P)) = {s[i] : i \in P}
         /\ P = 1 .. Len(s) => Remaining(s, P) = s
<1> DEFINE N == Cardinality(P)
           rank(i) == Cardinality({j \in P : j <= i})
           at(n) == CHOOSE i \in P : rank(i) = n
           left == [n \in 1 .. N |-> s[at(n)]]
<1>1. Len(s) \in Nat /\ DOMAIN s = 1 .. Len(s) /\ \A i \in 1 .. Len(s) : s[i] \in S
  BY ElementOfSeq, LenProperties
<1>2. /\ N \in Nat
      /\ \A i \in P : rank(i) \in 1 .. N
      /\ \A n \in 1 .. N : \E i \in P : rank(i) = n
      /\ \A i, k \in P : rank(i) = rank(k) => i = k
  BY <1>1, RanksFill
<1>3. Remaining(s, P) = left
  BY DEF Remaining
<1> HIDE DEF rank, N
<1>4. ASSUME NEW n \in 1 .. N PROVE at(n) \in P /\ rank(at(n)) = n
  BY <1>2
<1>5. ASSUME NEW i \in P PROVE at(rank(i)) = i
  BY <1>2, <1>4
<1> HIDE DEF at
<1>6. left \in Seq(S)
  <2>1. \A n \in 1 .. N : s[at(n)] \in S
    BY <1>1, <1>4
  <2> QED  BY <1>2, <2>1, IsASeq
<1>7. DOMAIN left = 1 .. N /\ \A n \in 1 .. N : left[n] = s[at(n)]
  OBVIOUS
<1> HIDE DEF left
<1>8. Range(left) = {left[n] : n \in 1 .. N}
  BY <1>7 DEF Range
<1>9. Range(left) = {s[i] : i \in P}
  <2>1. ASSUME NEW n \in 1 .. N PROVE left[n] \in {s[i] : i \in P}
    BY <1>4, <1>7
  <2>2. ASSUME NEW i \in P PROVE \E n \in 1 .. N : left[n] = s[i]
    BY <1>2, <1>5, <1>7
  <2> QED  BY <1>8, <2>1, <2>2
<1>10. ASSUME P = 1 .. Len(s) PROVE left = s
  <2>1. N = Len(s)
    BY <1>1, <1>10, FS_Interval DEF N
  <2>2. ASSUME NEW i \in 1 .. Len(s) PROVE rank(i) = i
    <3>1. {j \in P : j <= i} = 1 .. i
      BY <1>1, <1>10
    <3>2. Cardinality(1 .. i) = i
      BY <1>1, FS_Interval
    <3> QED  BY <3>1, <3>2 DEF rank
  <2>3. ASSUME NEW i \in 1 .. Len(s) PROVE left[i] = s[i]
    BY <1>5, <1>7, <1>10, <2>1, <2>2
  <2>4. left \in Seq(S) /\ Len(left) = Len(s)
    BY <1>1, <1>2, <1>6, <1>7, <2>1, LenProperties
  <2> QED  BY <2>3, <2>4, SeqEqual
<1> QED  BY <1>3, <1>6, <1>9, <1>10

\* The leaves that filtering leaves are the permitted ones; a body of which
\* all are permitted stays as it is.
LEMMA FilterFacts ==
  ASSUME NEW b, IsBody(b), NEW fields
  PROVE  LET kept == FilterValue(b, fields) IN
         /\ IsBody(kept) /\ kept.lists = b.lists
         /\ Leaves(kept) = {leaf \in Leaves(b) : PathIsPermitted(leaf.path, fields)}
         /\ (\A leaf \in Leaves(b) : PathIsPermitted(leaf.path, fields)) => kept = b
<1> DEFINE s == b.leaves
           P == {i \in DOMAIN s : PathIsPermitted(s[i].path, fields)}
           left == Remaining(s, P)
           kept == FilterValue(b, fields)
<1>1. s \in Seq(Range(s)) /\ DOMAIN s = 1 .. Len(s)
  BY LenProperties DEF IsBody
<1>2. kept = [b EXCEPT !.leaves = left]
  BY DEF FilterValue
<1>3. P \in SUBSET (1 .. Len(s))
  BY <1>1
<1>4. Leaves(b) = Range(s) /\ Range(s) = {s[i] : i \in DOMAIN s}
  BY DEF Leaves, ToSet, Range
<1> HIDE DEF P
<1>5. /\ left \in Seq(Range(s)) /\ Range(left) = {s[i] : i \in P}
      /\ P = 1 .. Len(s) => left = s
  BY <1>1, <1>3, RemainingFacts
<1> HIDE DEF left, kept
<1>6. left \in Seq(Range(left))
  <2>1. Len(left) \in Nat /\ left \in [1 .. Len(left) -> Range(s)]
    BY <1>5, LenProperties
  <2>2. left \in [1 .. Len(left) -> Range(left)]
    BY <2>1 DEF Range
  <2> QED  BY <2>1, <2>2, SeqDef
<1>7. /\ kept.leaves = left /\ kept.lists = b.lists
      /\ IsBody(kept)
  BY <1>2, <1>6 DEF IsBody
<1>8. Leaves(kept) = Range(left)
  BY <1>7 DEF Leaves, ToSet, Range
<1>9. Leaves(kept) = {leaf \in Leaves(b) : PathIsPermitted(leaf.path, fields)}
  BY <1>4, <1>5, <1>8 DEF P
<1>10. ASSUME \A leaf \in Leaves(b) : PathIsPermitted(leaf.path, fields) PROVE kept = b
  <2>1. P = 1 .. Len(s)
    BY <1>1, <1>4, <1>10 DEF P
  <2>2. left = s
    BY <1>5, <2>1
  <2> QED  BY <1>2, <2>2 DEF IsBody
<1> QED  BY <1>7, <1>9, <1>10 DEF kept
=============================================================================
