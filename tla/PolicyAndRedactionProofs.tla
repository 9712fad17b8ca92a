----------------------- MODULE PolicyAndRedactionProofs -----------------------
(***************************************************************************)
(* For every rule book, input and clock: a matching block and a conflict   *)
(* at the top fail closed, what is let through was earned, and the order   *)
(* in which the rules are listed does not matter.  For every body: what    *)
(* redaction may leave unreported, what may survive it, and that a second  *)
(* pass finds nothing to do.                                               *)
(***************************************************************************)
EXTENDS PolicyEvaluation, PayloadRedaction, OperatorProofs

-----------------------------------------------------------------------------
(* The engine over its life.                                               *)

\* The inductive invariant: besides the types, the verdict at hand is the one
\* the engine gives for the item at the time it was asked.
IInv ==
  /\ engine \in Engines
  /\ now \in 0 .. MaxTime /\ askedAt \in 0 .. now
  /\ item \in Items \cup {Unset}
  /\ Evaluated => verdict = Evaluate(engine, item, askedAt)

LEMMA IInvHolds == Spec => []IInv
<1>1. Init => IInv
  BY MaxTimeAssumption DEF Init, IInv, Evaluated
<1>2. IInv /\ [Next]_vars => IInv'
  <2> SUFFICES ASSUME IInv, [Next]_vars PROVE IInv'
    OBVIOUS
  <2>1. CASE Tick
    BY <2>1, MaxTimeAssumption DEF IInv, Tick, Evaluated
  <2>2. ASSUME NEW asked \in Items, EvaluateItem(asked) PROVE IInv'
    BY <2>2, MaxTimeAssumption DEF IInv, EvaluateItem, Evaluated
  <2>3. CASE UNCHANGED vars
    BY <2>3 DEF IInv, vars, Evaluated
  <2> QED  BY <2>1, <2>2, <2>3 DEF Next
<1> QED  BY <1>1, <1>2, PTL DEF Spec

\* The bundle of the engine is well formed throughout.
LEMMA EngineWellFormed ==
  ASSUME IInv
  PROVE  IsBundle(engine.bundle) /\ WellFormed(engine.bundle.rules)
BY EnginesAssumption DEF IInv, IsBundle

\* The engine stays the one created, and its verdicts are decisions.
THEOREM EngineTyped == Spec => []TypeOK
<1>1. IInv => TypeOK
  BY EngineWellFormed, ActionOfDecision DEF IInv, TypeOK, Evaluated
<1> QED  BY <1>1, IInvHolds, PTL

\* A matching block blocks, however low its priority.
THEOREM BlockAlwaysDominates == Spec => []BlockDominates
<1>1. IInv => BlockDominates
  BY EngineWellFormed, BlockWins DEF IInv, BlockDominates, Matched, Rules
<1> QED  BY <1>1, IInvHolds, PTL

\* Disagreement at the highest priority blocks and names no rule.
THEOREM ConflictAlwaysFailsClosed == Spec => []ConflictFailsClosed
<1>1. IInv => ConflictFailsClosed
  BY ConflictWins DEF IInv, ConflictFailsClosed, Matched, Rules
<1> QED  BY <1>1, IInvHolds, PTL

\* Nothing is let through but by a valid bundle, and then by a highest
\* matching rule or by the defaults of the classes.
THEOREM ReleaseAlwaysEarned == Spec => []ReleaseIsEarned
<1>1. ASSUME IInv, Evaluated, verdict.action # "block"
      PROVE  /\ engine.bundle.status = "active"
             /\ engine.bundle.expires > askedAt
             /\ engine.requireSigned => engine.bundle = SignBundle(engine.bundle, engine.key)
  <2>1. BundleInvalidReason(engine, askedAt).ok
    BY <1>1, EngineWellFormed, Unblocked DEF IInv
  <2>2. engine.bundle.expires \in Int /\ askedAt \in Int
    BY <1>1, EngineWellFormed, MaxTimeAssumption DEF IInv, IsBundle
  <2>3. SignatureValid(engine) => engine.bundle = SignBundle(engine.bundle, engine.key)
    BY <1>1, EngineWellFormed DEF SignatureValid, SignBundle, IsBundle
  <2> QED  BY <2>1, <2>2, <2>3, BundleValid
<1>2. ASSUME IInv, Evaluated, verdict.action # "block"
      PROVE  \/ /\ Matched = {}
                /\ item.classes # {}
                /\ verdict.action = "allow" =>
                     \A c \in item.classes : /\ c \in DOMAIN engine.bundle.defaults
                                             /\ engine.bundle.defaults[c] = "allow"
             \/ \E i \in Highest(Rules, Matched) : verdict = DecisionFromRule(Rules[i])
  <2>1. verdict = Evaluate(engine, item, askedAt) /\ IsBundle(engine.bundle)
    BY <1>2, EngineWellFormed DEF IInv
  <2>2. \/ Matched = {} /\ verdict = DefaultDecision(engine.bundle, item)
        \/ \E i \in Highest(Rules, Matched) : verdict = DecisionFromRule(Rules[i])
    BY <1>2, <2>1, EngineWellFormed, Unblocked DEF Matched, Rules
  <2> QED  BY <1>2, <2>1, <2>2, DefaultAllows
<1>3. IInv => ReleaseIsEarned
  BY <1>1, <1>2 DEF ReleaseIsEarned, Highest, DecisionFromRule, Decision
<1> QED  BY <1>3, IInvHolds, PTL

\* An expired engine never lets anything through again.
THEOREM ExpiryAlwaysFinal == Spec => ExpiryIsFinal
<1>1. ASSUME IInv, [Next]_vars, Evaluated, engine.bundle.expires <= askedAt
      PROVE  verdict'.action = "block"
  <2>1. CASE Tick \/ UNCHANGED vars
    <3>1. verdict' = Evaluate(engine, item, askedAt)
      BY <1>1, <2>1 DEF IInv, Tick, vars
    <3>2. ~BundleInvalidReason(engine, askedAt).ok
      BY <1>1, BundleValid
    <3> QED  BY <3>1, <3>2 DEF Evaluate, Decision
  <2>2. ASSUME NEW asked \in Items, EvaluateItem(asked)
        PROVE  verdict'.action = "block"
    <3>1. verdict' = Evaluate(engine, asked, now)
      BY <2>2 DEF EvaluateItem
    <3>2. engine.bundle.expires \in Int /\ askedAt \in Int /\ now \in Int /\ askedAt <= now
      BY <1>1, EngineWellFormed, MaxTimeAssumption DEF IInv, IsBundle
    <3>3. engine.bundle.expires <= now
      BY <1>1, <3>2
    <3>4. ~BundleInvalidReason(engine, now).ok
      BY <3>3, BundleValid
    <3> QED  BY <3>1, <3>4 DEF Evaluate, Decision
  <2> QED  BY <1>1, <2>1, <2>2 DEF Next
<1>2. IInv /\ [Next]_vars
        => (Evaluated /\ engine.bundle.expires <= askedAt => verdict'.action = "block")
  BY <1>1
<1>3. Spec => [][Next]_vars
  BY PTL DEF Spec
<1> QED  BY <1>2, <1>3, IInvHolds, PTL DEF ExpiryIsFinal

-----------------------------------------------------------------------------
(* The order of the rules.                                                 *)

\* The rules of a list at other positions: others[i] is rules[p[i]].
Moved(rules, others, p, n) ==
  /\ p \in [1 .. n -> 1 .. n] /\ \A d \in 1 .. n : \E i \in 1 .. n : p[i] = d
  /\ DOMAIN rules = 1 .. n /\ DOMAIN others = 1 .. n
  /\ \A i \in 1 .. n : others[i] = rules[p[i]]

\* Where the rules at these positions stand in the moved list.
At(p, n, positions) == {i \in 1 .. n : p[i] \in positions}

\* The positions that match, and those of the highest priority, move along.
LEMMA MatchesMove ==
  ASSUME NEW n \in Nat, NEW rules, NEW others, NEW p, Moved(rules, others, p, n), NEW asked
  PROVE  Matching(others, asked) = At(p, n, Matching(rules, asked))
BY DEF Moved, Matching, At

LEMMA HighestMove ==
  ASSUME NEW n \in Nat, NEW rules, NEW others, NEW p, Moved(rules, others, p, n),
         NEW matching \in SUBSET (1 .. n)
  PROVE  /\ (At(p, n, matching) = {}) <=> (matching = {})
         /\ Highest(others, At(p, n, matching)) = At(p, n, Highest(rules, matching))
<1> DEFINE D == 1 .. n
           moved == At(p, n, matching)
<1>1. /\ p \in [D -> D] /\ \A d \in D : \E i \in D : p[i] = d
      /\ \A i \in D : others[i] = rules[p[i]]
      /\ matching \subseteq D /\ moved = {i \in D : p[i] \in matching}
  BY DEF Moved, At
<1> HIDE DEF D, moved
<1>2. (moved = {}) <=> (matching = {})
  BY <1>1
<1>3. ASSUME NEW i \in D
      PROVE  i \in Highest(others, moved) <=> p[i] \in Highest(rules, matching)
  <2>1. i \in moved <=> p[i] \in matching
    BY <1>1
  <2>2. (\A j \in moved : others[j].priority <= others[i].priority)
          <=> \A j \in matching : rules[j].priority <= rules[p[i]].priority
    <3> DEFINE below(r) == r.priority <= rules[p[i]].priority
    <3>1. ASSUME \A j \in moved : below(others[j]), NEW j \in matching PROVE below(rules[j])
      <4>1. PICK k \in D : p[k] = j
        BY <1>1
      <4>2. k \in moved /\ others[k] = rules[j]
        BY <1>1, <4>1
      <4> QED  BY <3>1, <4>2
    <3>2. ASSUME \A j \in matching : below(rules[j]), NEW j \in moved PROVE below(others[j])
      <4>1. p[j] \in matching /\ others[j] = rules[p[j]]
        BY <1>1
      <4> QED  BY <3>2, <4>1
    <3>3. others[i] = rules[p[i]]
      BY <1>1
    <3> QED  BY <3>1, <3>2, <3>3
  <2> QED  BY <2>1, <2>2 DEF Highest
<1>4. Highest(others, moved) \subseteq D
  BY <1>1 DEF Highest
<1>5. Highest(others, moved) = {i \in D : p[i] \in Highest(rules, matching)}
  BY <1>3, <1>4
<1> QED  BY <1>2, <1>5 DEF D, moved, At

\* The same matching rules at other positions decide alike.
LEMMA SameDecision ==
  ASSUME NEW n \in Nat, NEW rules, NEW others, NEW p, Moved(rules, others, p, n),
         \A i \in 1 .. n : rules[i].priority \in Int /\ rules[i].id \in Int,
         NEW matching \in SUBSET (1 .. n), Highest(rules, matching) # {}
  PROVE  LET decided == DecisionFromMatches(rules, matching)
             again   == DecisionFromMatches(others, At(p, n, matching))
         IN  /\ again.action = decided.action
             /\ decided.action = "redact"
                  /\ (\A i, j \in 1 .. n : i # j => rules[i].id # rules[j].id)
                  => again.permitted = decided.permitted
<1>h. Highest(others, At(p, n, matching)) = At(p, n, Highest(rules, matching))
  BY HighestMove
<1> DEFINE high == Highest(rules, matching)
           moved == At(p, n, matching)
           top == Highest(others, moved)
           blocks == {i \in matching : rules[i].action = "block"}
           blocked == {i \in moved : others[i].action = "block"}
           best == FirstGreatest(rules, high, "id")
           again == FirstGreatest(others, top, "id")
           stop == FirstGreatest(rules, blocks, "priority")
           stopped == FirstGreatest(others, blocked, "priority")
<1>1. top = At(p, n, high)
  BY <1>h
<1>2. high \subseteq 1 .. n /\ high # {}
  BY DEF Highest
<1> HIDE DEF high, top, moved
<1>0. /\ p \in [1 .. n -> 1 .. n] /\ \A d \in 1 .. n : \E i \in 1 .. n : p[i] = d
      /\ \A i \in 1 .. n : others[i] = rules[p[i]]
  BY DEF Moved
<1>c. /\ top = {i \in 1 .. n : p[i] \in high}
      /\ moved = {i \in 1 .. n : p[i] \in matching}
  BY <1>1 DEF At, moved
<1>a. \A i \in top : i \in 1 .. n /\ p[i] \in high /\ others[i] = rules[p[i]]
  BY <1>0, <1>c
<1>b. ASSUME NEW i \in high PROVE \E j \in top : p[j] = i /\ others[j] = rules[i]
  <2>1. PICK j \in 1 .. n : p[j] = i
    BY <1>0, <1>2
  <2> QED  BY <2>1, <1>0, <1>c
<1>3. top # {} /\ top \subseteq 1 .. n
  <2>1. PICK i \in high : TRUE
    BY <1>2
  <2> QED  BY <2>1, <1>a, <1>b
<1>4. \A i \in 1 .. n : others[i]["priority"] \in Int /\ others[i]["id"] \in Int
  BY <1>0
<1>5. blocked = {i \in 1 .. n : p[i] \in blocks}
  BY <1>0, <1>c
<1>6. blocks \subseteq 1 .. n /\ blocked \subseteq 1 .. n /\ ((blocked = {}) <=> (blocks = {}))
  <2>1. blocks \subseteq 1 .. n
    OBVIOUS
  <2> HIDE DEF blocks, blocked
  <2> QED  BY <1>0, <1>5, <2>1
<1>7. ASSUME blocks # {}
      PROVE  rules[stop].action = "block" /\ others[stopped].action = "block"
  <2>1. blocked # {}
    BY <1>6, <1>7
  <2>2. stop \in blocks
    <3> HIDE DEF blocks
    <3> QED  BY <1>6, <1>7, FirstGreatestIsGreatest
  <2>3. stopped \in blocked
    <3> HIDE DEF blocked
    <3> QED  BY <1>4, <1>6, <2>1, FirstGreatestIsGreatest
  <2> HIDE DEF stop, stopped
  <2> QED  BY <2>2, <2>3
<1>8. best \in high /\ \A j \in high : rules[j]["id"] <= rules[best]["id"]
  BY <1>2, FirstGreatestIsGreatest
<1>9. again \in top /\ \A j \in top : others[j]["id"] <= others[again]["id"]
  BY <1>3, <1>4, FirstGreatestIsGreatest
<1> HIDE DEF blocks, blocked, stop, stopped, best, again
<1>10. (\E i, j \in top : others[i].action # others[j].action)
         <=> \E i, j \in high : rules[i].action # rules[j].action
  <2>1. ASSUME NEW i \in top, NEW j \in top, others[i].action # others[j].action
        PROVE  \E k, l \in high : rules[k].action # rules[l].action
    BY <1>a, <2>1
  <2>2. ASSUME NEW k \in high, NEW l \in high, rules[k].action # rules[l].action
        PROVE  \E i, j \in top : others[i].action # others[j].action
    <3>1. PICK i \in top : others[i] = rules[k]
      BY <1>b
    <3>2. PICK j \in top : others[j] = rules[l]
      BY <1>b
    <3> QED  BY <3>1, <3>2, <2>2
  <2> QED  BY <2>1, <2>2
<1>11. p[again] \in high /\ others[again] = rules[p[again]]
  BY <1>a, <1>9
<1>12. ASSUME \A i, j \in 1 .. n : i # j => rules[i].id # rules[j].id
       PROVE  others[again] = rules[best]
  <2>2. PICK j \in top : others[j] = rules[best]
    BY <1>b, <1>8
  <2>3. rules[best]["id"] <= rules[p[again]]["id"] /\ rules[p[again]]["id"] <= rules[best]["id"]
    BY <1>8, <1>9, <1>11, <2>2
  <2>4. rules[best]["id"] \in Int /\ rules[p[again]]["id"] \in Int
    BY <1>2, <1>8, <1>11
  <2>5. rules[best]["id"] = rules[p[again]]["id"]
    <3>1. \A a, b \in Int : a <= b /\ b <= a => a = b
      OBVIOUS
    <3> QED  BY <2>3, <2>4, <3>1
  <2>6. best = p[again]
    BY <1>2, <1>8, <1>11, <1>12, <2>5
  <2> QED  BY <1>11, <2>6
<1>13. CASE \E i, j \in high : rules[i].action # rules[j].action
  <2>1. /\ DecisionFromMatches(rules, matching) = Decision("block", "policy_conflict", Unset, TRUE, {})
        /\ DecisionFromMatches(others, moved) = Decision("block", "policy_conflict", Unset, TRUE, {})
    BY <1>10, <1>13 DEF DecisionFromMatches, high, top
  <2> QED  BY <2>1 DEF Decision, moved
<1>14. CASE /\ ~ \E i, j \in high : rules[i].action # rules[j].action
            /\ blocks # {}
  <2>1. /\ DecisionFromMatches(rules, matching) = DecisionFromRule(rules[stop])
        /\ DecisionFromMatches(others, moved) = DecisionFromRule(others[stopped])
    BY <1>6, <1>10, <1>14 DEF DecisionFromMatches, high, top, blocks, blocked, stop, stopped
  <2>2. /\ DecisionFromMatches(rules, matching).action = "block"
        /\ DecisionFromMatches(others, moved).action = "block"
    BY <2>1, <1>7, <1>14 DEF DecisionFromRule, Decision
  <2> QED  BY <2>2 DEF moved
<1>15. CASE /\ ~ \E i, j \in high : rules[i].action # rules[j].action
            /\ blocks = {}
  <2>1. /\ DecisionFromMatches(rules, matching) = DecisionFromRule(rules[best])
        /\ DecisionFromMatches(others, moved) = DecisionFromRule(others[again])
    BY <1>6, <1>10, <1>15 DEF DecisionFromMatches, high, top, blocks, blocked, best, again
  <2>2. others[again].action = rules[best].action
    BY <1>8, <1>11, <1>15
  <2>3. /\ DecisionFromMatches(rules, matching).action = rules[best].action
        /\ DecisionFromMatches(others, moved).action = others[again].action
        /\ DecisionFromMatches(rules, matching).permitted = rules[best].allowed
        /\ DecisionFromMatches(others, moved).permitted = others[again].allowed
    BY <2>1 DEF DecisionFromRule, Decision
  <2> QED  BY <2>2, <2>3, <1>12 DEF moved
<1> QED  BY <1>13, <1>14, <1>15

\* However the rules are listed, the engine decides alike.
THEOREM OrderIsImmaterial == Spec => []OrderInsensitive
<1>1. ASSUME IInv, Evaluated, NEW p \in Bijection(DOMAIN Rules, DOMAIN Rules)
      PROVE  LET shuffled == [engine.bundle EXCEPT !.rules = [i \in DOMAIN Rules |-> Rules[p[i]]]]
                 again    == Evaluate([engine EXCEPT
                                         !.bundle = IF SignatureValid(engine)
                                                      THEN SignBundle(shuffled, engine.key)
                                                      ELSE [shuffled EXCEPT !.signature = NoSignature]],
                                      item, askedAt)
             IN  /\ again.action = verdict.action
                 /\ verdict.action = "redact"
                      /\ (\A i, j \in DOMAIN Rules : i # j => Rules[i].id # Rules[j].id)
                      => again.permitted = verdict.permitted
  <2> DEFINE n == Len(Rules)
             others == [i \in DOMAIN Rules |-> Rules[p[i]]]
             shuffled == [engine.bundle EXCEPT !.rules = others]
             bundle == IF SignatureValid(engine) THEN SignBundle(shuffled, engine.key)
                       ELSE [shuffled EXCEPT !.signature = NoSignature]
             judge == [engine EXCEPT !.bundle = bundle]
             again == Evaluate(judge, item, askedAt)
             matching == Matching(Rules, item)
  <2>1. n \in Nat /\ DOMAIN Rules = 1 .. n
    BY <1>1, EngineWellFormed DEF WellFormed, Rules
  <2>2. \A i \in 1 .. n : Rules[i].priority \in Int /\ Rules[i].id \in Int
    BY <1>1, <2>1, EngineWellFormed DEF WellFormed, Rules
  <2>3. Moved(Rules, others, p, n)
    BY <2>1 DEF Moved, Bijection, Surjection
  <2>4. /\ engine.bundle = [rules |-> Rules, defaults |-> engine.bundle.defaults,
                            expires |-> engine.bundle.expires, status |-> engine.bundle.status,
                            signature |-> engine.bundle.signature]
        /\ engine = [bundle |-> engine.bundle, key |-> engine.key,
                     requireSigned |-> engine.requireSigned]
    BY <1>1, EngineWellFormed, EnginesAssumption DEF IInv, IsBundle, Rules
  <2> HIDE DEF others, n
  <2>5. /\ bundle.rules = others /\ bundle.defaults = engine.bundle.defaults
        /\ bundle.expires = engine.bundle.expires /\ bundle.status = engine.bundle.status
        /\ bundle.signature = IF SignatureValid(engine)
                                THEN [key |-> engine.key, content |-> CanonicalPayload(bundle)]
                                ELSE NoSignature
    BY <2>4 DEF SignBundle, CanonicalPayload
  <2> HIDE DEF bundle
  <2>6. judge.bundle = bundle /\ judge.key = engine.key /\ judge.requireSigned = engine.requireSigned
    BY <2>4
  <2> HIDE DEF judge
  <2>7. [key |-> engine.key, content |-> CanonicalPayload(bundle)] # NoSignature
    BY DEF NoSignature, CanonicalPayload
  <2>8. SignatureValid(judge) <=> SignatureValid(engine)
    <3>1. SignatureValid(judge)
            <=> /\ bundle.signature # NoSignature
                /\ bundle.signature = [key |-> engine.key, content |-> CanonicalPayload(bundle)]
      BY <2>6 DEF SignatureValid
    <3> QED  BY <2>5, <2>7, <3>1
  <2>9. BundleInvalidReason(judge, askedAt).ok <=> BundleInvalidReason(engine, askedAt).ok
    BY <2>5, <2>6, <2>8, BundleValid
  <2>10. verdict = Evaluate(engine, item, askedAt)
    BY <1>1 DEF IInv
  <2>11. matching \in SUBSET (1 .. n)
    BY <2>1 DEF Matching
  <2>12. matching # {} => Highest(Rules, matching) # {}
    BY <1>1, EngineWellFormed, MatchingRules DEF Rules
  <2>13. Matching(others, item) = At(p, n, matching)
    BY <2>1, <2>3, MatchesMove
  <2>14. (At(p, n, matching) = {}) <=> (matching = {})
    <3> HIDE DEF matching
    <3> QED  BY <2>1, <2>3, <2>11, HighestMove
  <2>15. CASE ~BundleInvalidReason(engine, askedAt).ok
    <3>1. verdict.action = "block" /\ again.action = "block"
      BY <2>9, <2>10, <2>15 DEF Evaluate, Decision
    <3> QED  BY <3>1 DEF judge, bundle, others
  <2>16. CASE BundleInvalidReason(engine, askedAt).ok /\ matching = {}
    <3>1. DefaultDecision(bundle, item) = DefaultDecision(engine.bundle, item)
      BY <2>5 DEF DefaultDecision
    <3>2. verdict = DefaultDecision(engine.bundle, item)
      BY <2>10, <2>16 DEF Evaluate, Rules
    <3>3. again = DefaultDecision(bundle, item)
      BY <2>5, <2>6, <2>9, <2>13, <2>14, <2>16 DEF Evaluate
    <3> QED  BY <3>1, <3>2, <3>3 DEF judge, bundle, others
  <2>17. CASE BundleInvalidReason(engine, askedAt).ok /\ matching # {}
    <3>1. verdict = DecisionFromMatches(Rules, matching)
      BY <2>10, <2>17 DEF Evaluate, Rules
    <3>2. again = DecisionFromMatches(others, At(p, n, matching))
      BY <2>5, <2>6, <2>9, <2>13, <2>14, <2>17 DEF Evaluate
    <3>3. /\ again.action = verdict.action
          /\ verdict.action = "redact"
               /\ (\A i, j \in 1 .. n : i # j => Rules[i].id # Rules[j].id)
               => again.permitted = verdict.permitted
      <4> HIDE DEF matching, again
      <4> QED  BY <2>1, <2>2, <2>3, <2>11, <2>12, <2>17, <3>1, <3>2, SameDecision
    <3> QED  BY <2>1, <3>3 DEF judge, bundle, others
  <2> QED  BY <2>15, <2>16, <2>17
<1>2. IInv => OrderInsensitive
  BY <1>1 DEF OrderInsensitive
<1> QED  BY <1>2, IInvHolds, PTL

-----------------------------------------------------------------------------
(* Redaction over its two passes.                                          *)

\* The inductive invariant: the result at hand is the redaction of the body at
\* hand, what was said of it is what the removal check says, and on a second
\* pass every leaf of the body is a permitted one.
RedactionInv ==
  /\ IsBody(original)
  /\ Filtered => result = RedactToPermittedFields(original, permitted)
  /\ absent # Unset =>
       /\ Filtered
       /\ absent = EnsureRemovedValuesAbsent(original, result.body, result.redacted)
  /\ passes = 1 => \A leaf \in Leaves(original) : PathIsPermitted(leaf.path, permitted)

LEMMA RedactionInvHolds == RedactionSpec => []RedactionInv
<1>1. RedactionInit => RedactionInv
  BY RedactionAssumption DEF RedactionInit, RedactionInv, Filtered
<1>2. RedactionInv /\ [RedactionNext]_redactionVars => RedactionInv'
  <2> SUFFICES ASSUME RedactionInv, [RedactionNext]_redactionVars PROVE RedactionInv'
    OBVIOUS
  <2>1. CASE Filter
    BY <2>1 DEF Filter, RedactionInv, Filtered
  <2>2. CASE Check
    BY <2>2 DEF Check, RedactionInv, Filtered
  <2>3. CASE Resubmit
    <3>1. /\ IsBody(result.body)
          /\ \A leaf \in Leaves(result.body) : PathIsPermitted(leaf.path, permitted)
      <4>1. result.body = FilterValue(original, permitted)
        BY <2>3 DEF Resubmit, RedactionInv, RedactToPermittedFields
      <4> QED  BY <4>1, FilterFacts DEF RedactionInv
    <3> QED  BY <2>3, <3>1 DEF Resubmit, RedactionInv, Filtered
  <2>4. CASE UNCHANGED redactionVars
    BY <2>4 DEF redactionVars, RedactionInv, Filtered
  <2> QED  BY <2>1, <2>2, <2>3, <2>4 DEF RedactionNext
<1> QED  BY <1>1, <1>2, PTL DEF RedactionSpec

\* What the result at hand is.
LEMMA ResultFacts ==
  ASSUME RedactionInv, Filtered
  PROVE  /\ result.body = FilterValue(original, permitted)
         /\ result.redacted = LeafPaths(original) \ LeafPaths(result.body)
         /\ result.body.lists = original.lists
         /\ Leaves(result.body) =
              {leaf \in Leaves(original) : PathIsPermitted(leaf.path, permitted)}
         /\ \A k \in DOMAIN original.leaves : original.leaves[k] \in Leaves(original)
<1>1. /\ result.body = FilterValue(original, permitted)
      /\ result.redacted = LeafPaths(original) \ LeafPaths(result.body)
  BY DEF RedactionInv, RedactToPermittedFields
<1>2. \A k \in DOMAIN original.leaves : original.leaves[k] \in Leaves(original)
  BY DEF Leaves, ToSet
<1> QED  BY <1>1, <1>2, FilterFacts DEF RedactionInv

\* A removed leaf goes unreported only when its list is left empty.
THEOREM LossesAreReported == RedactionSpec => []UnreportedOnlyInEmptiedLists
<1>1. ASSUME RedactionInv, Filtered, NEW k \in Removed,
             original.leaves[k].path \notin result.redacted
      PROVE  \E list \in EmptyLists(result.body) :
               result.body.lists[list] = original.leaves[k].path
  <2> DEFINE leaf == original.leaves[k]
  <2>1. leaf \in Leaves(original) /\ leaf \notin Leaves(result.body)
    BY <1>1, ResultFacts DEF Removed
  <2>2. leaf.path \in LeafPaths(original)
    BY <2>1 DEF LeafPaths
  <2>3. leaf.path \in LeafPaths(result.body)
    BY <1>1, <2>2, ResultFacts
  <2>4. ~PathIsPermitted(leaf.path, permitted)
    BY <1>1, <2>1, ResultFacts
  <2>5. leaf.path \notin {other.path : other \in Leaves(result.body)}
    BY <1>1, <2>4, ResultFacts
  <2> QED  BY <2>3, <2>5 DEF LeafPaths
<1>2. RedactionInv => UnreportedOnlyInEmptiedLists
  BY <1>1 DEF UnreportedOnlyInEmptiedLists
<1> QED  BY <1>2, RedactionInvHolds, PTL

\* Of the leaves of one path the removal check looks for the last.
LEMMA LastOfItsPath ==
  ASSUME NEW b, IsBody(b), NEW k \in DOMAIN b.leaves,
         ~ \E j \in DOMAIN b.leaves : j > k /\ b.leaves[j].path = b.leaves[k].path
  PROVE  PathValue(b, b.leaves[k].path) = b.leaves[k].value
<1> DEFINE at == {i \in DOMAIN b.leaves : b.leaves[i].path = b.leaves[k].path}
           last == CHOOSE i \in at : \A j \in at : j <= i
<1>1. DOMAIN b.leaves = 1 .. Len(b.leaves) /\ Len(b.leaves) \in Nat
  BY LenProperties DEF IsBody
<1>2. at \subseteq Int /\ k \in at
  BY <1>1
<1>3. \A j \in at : j <= k
  <2>1. ASSUME NEW j \in at PROVE j <= k
    <3>1. j \in Int /\ k \in Int /\ ~(j > k)
      BY <1>1
    <3> QED  BY <3>1
  <2> QED  BY <2>1
<1>4. PathValue(b, b.leaves[k].path) = b.leaves[last].value
  BY DEF PathValue
<1> HIDE DEF at
<1>5. last \in at /\ \A j \in at : j <= last
  BY <1>2, <1>3
<1>6. last = k
  <2>1. last \in Int /\ k \in Int /\ last <= k /\ k <= last
    BY <1>2, <1>3, <1>5
  <2> HIDE DEF last
  <2> QED  BY <2>1
<1> QED  BY <1>4, <1>6

\* A removed value the check did not find survives only in a list.
THEOREM SurvivorsStoodInLists == RedactionSpec => []SurvivorsOnlyInLists
<1>1. ASSUME RedactionInv, Filtered, absent = TRUE, NEW k \in Removed, Survives(k),
             original.leaves[k].path \in result.redacted
      PROVE  \E j \in DOMAIN original.leaves : /\ j > k
                                               /\ original.leaves[j].path = original.leaves[k].path
  <2> SUFFICES ASSUME ~ \E j \in DOMAIN original.leaves :
                          j > k /\ original.leaves[j].path = original.leaves[k].path
               PROVE  FALSE
    OBVIOUS
  <2> DEFINE leaf == original.leaves[k]
  <2>1. k \in DOMAIN original.leaves /\ IsBody(original) /\ leaf \in Leaves(original)
    BY <1>1, ResultFacts DEF Removed, RedactionInv
  <2>2. PathValue(original, leaf.path) = leaf.value
    BY <2>1, LastOfItsPath
  <2>3. EnsureRemovedValuesAbsent(original, result.body, result.redacted)
    BY <1>1, RedactionAssumption DEF RedactionInv
  <2>4. leaf.path \in result.redacted \cap {other.path : other \in Leaves(original)}
    BY <1>1, <2>1
  <2>5. leaf.value \in Unsearchable \/ ~Occurs(leaf.value, result.body)
    <3> HIDE DEF leaf
    <3> QED  BY <2>2, <2>3, <2>4 DEF EnsureRemovedValuesAbsent
  <2> QED  BY <1>1, <2>5 DEF Survives
<1>2. RedactionInv => SurvivorsOnlyInLists
  BY <1>1 DEF SurvivorsOnlyInLists
<1> QED  BY <1>2, RedactionInvHolds, PTL

\* What was redacted is left alone by a second pass.
THEOREM RedactionIsIdempotent == RedactionSpec => []SecondPassChangesNothing
<1>1. ASSUME RedactionInv, Filtered, passes = 1
      PROVE  result.body = original /\ result.redacted = {} /\ absent # FALSE
  <2>1. result.body = original
    BY <1>1, ResultFacts, FilterFacts DEF RedactionInv
  <2>2. result.redacted = {}
    BY <1>1, <2>1, ResultFacts
  <2>3. EnsureRemovedValuesAbsent(original, result.body, result.redacted)
    BY <2>2 DEF EnsureRemovedValuesAbsent
  <2>4. absent # FALSE
    BY <1>1, <2>3, RedactionAssumption DEF RedactionInv
  <2> QED  BY <2>1, <2>2, <2>4
<1>2. RedactionInv => SecondPassChangesNothing
  BY <1>1 DEF SecondPassChangesNothing
<1> QED  BY <1>2, RedactionInvHolds, PTL

===============================================================================
