-------------------------- MODULE DecisionsProofs ---------------------------
(***************************************************************************)
(* Proofs about the DecisionEngine for every set of inputs, every policy   *)
(* and every lag of the callers' timestamps.  The rules are one lemma on   *)
(* the operators (RuleSound); the hysteresis needs HysteresisInv.          *)
(***************************************************************************)
EXTENDS Decisions, TLAPS

\* The limits of an input are finitely many numbers, so the running minimum of
\* the code's consider() is one of them and the least.
LEMMA CeilingIsLeast ==
    ASSUME NEW in \in DecisionInput
    PROVE  /\ Given(in) \subseteq Nat
           /\ Given(in) # {} => /\ Min(Given(in)) \in Given(in)
                                /\ \A l \in Given(in) : Min(Given(in)) <= l
<1>1. Given(in) \subseteq Nat
  BY DecisionAssumption DEF Given, DecisionInput
<1>2. ASSUME Given(in) # {}
      PROVE  \E x \in Given(in) : \A y \in Given(in) : x <= y
  <2> DEFINE a == in.hardware_cap
             b == in.budget_available
             c == in.thermal_ceiling
  <2>1. /\ a \in Nat \cup {NoLimit}
        /\ b \in Nat \cup {NoLimit}
        /\ c \in Nat \cup {NoLimit}
    BY DEF DecisionInput
  <2>2. Given(in) = {a, b, c} \ {NoLimit}
    BY DEF Given
  <2> HIDE DEF a, b, c
  <2> QED  BY <1>2, <2>1, <2>2, DecisionAssumption
<1> QED  BY <1>1, <1>2 DEF Min

\* What the rules say of any input before hysteresis: verdict and limit have
\* their types, ALLOW is safe, the limit is within every limit of the input,
\* and the rule that hysteresis may overrule says ALLOW with the ceiling.
LEMMA RuleSound ==
    ASSUME NEW in \in DecisionInput
    PROVE  /\ Rule(in).verdict \in Verdicts
           /\ Rule(in).limit \in Nat \cup {NoLimit}
           /\ Ceiling(in) \in Nat \cup {NoLimit}
           /\ Ceiling(in) = NoLimit <=> Given(in) = {}
           /\ Ceiling(in) # NoLimit => \A l \in Given(in) : Ceiling(in) <= l
           /\ Rule(in).verdict = "ALLOW" =>
                  /\ ~ Stale(in) /\ ~ Constrained(in) /\ ~ Recovering(in)
                  /\ \A l \in Given(in) : in.requested_power <= l
           /\ Rule(in).limit # NoLimit => \A l \in Given(in) : Rule(in).limit <= l
           /\ Rule(in).rule = "default" =>
                  Rule(in).verdict = "ALLOW" /\ Rule(in).limit = Ceiling(in)
           /\ Rule(in).verdict = "ALLOW" => Rule(in).rule \in {"default", "burst"}
<1>1. /\ Ceiling(in) \in Nat \cup {NoLimit}
      /\ Ceiling(in) = NoLimit <=> Given(in) = {}
      /\ Ceiling(in) # NoLimit => \A l \in Given(in) : Ceiling(in) <= l
  BY CeilingIsLeast, DecisionAssumption DEF Ceiling
<1>2. in.requested_power \in Nat /\ SoftTarget \in Nat \cup {NoLimit}
  BY DecisionAssumption DEF DecisionInput
<1>3. ~ Exceeds(in) => \A l \in Given(in) : in.requested_power <= l
  BY <1>2, CeilingIsLeast DEF Exceeds
<1>4. ~ Exceeds(in) /\ OverSoftTarget(in) =>
          SoftTarget \in Nat /\ \A l \in Given(in) : SoftTarget <= l
  BY <1>2, <1>3, CeilingIsLeast DEF OverSoftTarget
<1> DEFINE r == Rule(in)
<1>5. CASE Stale(in)
  BY <1>1, <1>5 DEF Rule, Verdicts
<1>6. CASE ~ Stale(in) /\ NoCapacity(in)
  BY <1>1, <1>6 DEF Rule, Verdicts
<1>7. CASE ~ Stale(in) /\ ~ NoCapacity(in) /\ Constrained(in)
  BY <1>1, <1>7 DEF Rule, Verdicts
<1>8. CASE /\ ~ Stale(in) /\ ~ NoCapacity(in) /\ ~ Constrained(in)
           /\ Exceeds(in) \/ Recovering(in)
  BY <1>1, <1>8 DEF Rule, Verdicts
<1>9. CASE /\ ~ Stale(in) /\ ~ NoCapacity(in) /\ ~ Constrained(in)
           /\ ~ Exceeds(in) /\ ~ Recovering(in)
  BY <1>1, <1>3, <1>4, <1>9 DEF Rule, Verdicts
<1> QED  BY <1>5, <1>6, <1>7, <1>8, <1>9

\* Whatever the engine did before, a call leaves a decision that is safe to
\* follow, with a limit within every limit of its input.
LEMMA EvaluateSound ==
    ASSUME NEW in \in Inputs, NEW now \in CallTimes, HysteresisInv, evaluate(in, now)
    PROVE  AllowIsSafe' /\ LimitWithinCeiling'
<1>1. in \in DecisionInput
  BY DecisionAssumption
<1>2. decision'.input = in /\ Given(decision'.input) = Given(in)
  BY DEF evaluate, make_verdict
<1>3. CASE Holds(in, now)
  <2>1. decision'.verdict # "ALLOW" /\ decision'.limit = HeldLimit(in)
    BY <1>3 DEF evaluate, make_verdict, Holds
  <2>2. HeldLimit(in) # NoLimit => \A l \in Given(in) : HeldLimit(in) <= l
    BY <1>1, RuleSound DEF HeldLimit
  <2> QED  BY <1>2, <2>1, <2>2 DEF AllowIsSafe, LimitWithinCeiling, Given
<1>4. CASE ~ Holds(in, now)
  <2>1. decision'.verdict = Rule(in).verdict /\ decision'.limit = Rule(in).limit
    BY <1>4 DEF evaluate, make_verdict
  <2>2. ~ Stale(in) => in.policy_current /\ in.power_freshness \in {"CURRENT", "AGING"}
    BY <1>1 DEF Stale, DecisionInput, Freshness
  <2> QED
    BY <1>1, <1>2, <2>1, <2>2, RuleSound
    DEF AllowIsSafe, LimitWithinCeiling, Given, Constrained, Recovering
<1> QED  BY <1>3, <1>4

\* A call keeps last_ and the restriction it stands for in step, and allows or
\* holds a verdict only as hysteresis and the burst rule let it.
LEMMA EvaluateHysteresis ==
    ASSUME NEW in \in Inputs, NEW now \in CallTimes, HysteresisInv, evaluate(in, now)
    PROVE  HysteresisInv' /\ OnlyBurstBreaksHold' /\ HeldRepeatsCause'
<1>1. in \in DecisionInput /\ CallLag \in Nat /\ MinStable \in Nat /\ MaxTime \in Nat
  BY DecisionAssumption
<1>2. /\ now \in 0 .. MaxTime /\ now <= clock /\ clock <= now + CallLag
      /\ clock \in 0 .. MaxTime /\ clock' = clock
  BY <1>1 DEF CallTimes, HysteresisInv, TypeOK, evaluate
<1>3. /\ last \in GivenVerdict \cup {NoVerdict}
      /\ cause \in Restriction \cup {NoVerdict}
      /\ Restricting <=> Standing
      /\ Standing => /\ last.verdict = cause.verdict
                     /\ cause.at <= clock
                     /\ cause.at <= last.at + CallLag
  BY DEF HysteresisInv, TypeOK
<1>4. \A v \in Verdicts :
          /\ [verdict |-> v, at |-> now] \in GivenVerdict
          /\ [verdict |-> v, at |-> now, bypassed |-> FALSE] \in Restriction
  BY <1>2 DEF GivenVerdict, Restriction
<1>5. NoVerdict \notin GivenVerdict /\ NoVerdict \notin Restriction
  BY <1>1, DecisionAssumption DEF GivenVerdict, Restriction
<1>6. CASE Holds(in, now)
  <2>1. /\ Standing /\ cause # NoVerdict /\ last # NoVerdict
        /\ last.verdict \in Verdicts /\ last.verdict # "ALLOW"
    BY <1>3, <1>6 DEF Holds, Restricting, Standing, GivenVerdict
  <2>2. /\ last' = [verdict |-> last.verdict, at |-> now] /\ cause' = cause
        /\ decision'.verdict = last.verdict /\ decision'.limit = HeldLimit(in)
        /\ decision'.held = TRUE /\ decision'.at = now /\ decision'.cause = cause
    BY <1>6 DEF evaluate, make_verdict, CauseAfter
  <2>3. HeldLimit(in) \in Nat \cup {NoLimit}
    BY <1>1, RuleSound, DecisionAssumption DEF HeldLimit
  <2>4. TypeOK'
    BY <1>2, <1>3, <1>4, <2>1, <2>2, <2>3 DEF TypeOK
  <2>5. cause.at \in Nat /\ cause.at <= now + CallLag
    BY <1>1, <1>2, <1>3, <2>1 DEF Restriction
  <2>6. last' # NoVerdict
    BY <1>4, <1>5, <2>1, <2>2
  <2>7. HysteresisInv'
    BY <1>2, <1>3, <2>1, <2>2, <2>4, <2>5, <2>6 DEF HysteresisInv, Restricting, Standing
  <2>8. OnlyBurstBreaksHold' /\ HeldRepeatsCause'
    BY <1>3, <2>1, <2>2 DEF OnlyBurstBreaksHold, HeldRepeatsCause, Standing
  <2> QED  BY <2>7, <2>8
<1>7. CASE ~ Holds(in, now)
  <2> DEFINE v == Rule(in).verdict
  <2>1. /\ v \in Verdicts /\ Rule(in).limit \in Nat \cup {NoLimit}
        /\ v = "ALLOW" => Rule(in).rule \in {"default", "burst"}
    BY <1>1, RuleSound
  <2>2. /\ last' = [verdict |-> v, at |-> now]
        /\ cause' = CauseAfter(Rule(in).rule, v, FALSE, now)
        /\ decision'.verdict = v /\ decision'.limit = Rule(in).limit
        /\ decision'.rule = Rule(in).rule
        /\ decision'.held = FALSE /\ decision'.at = now /\ decision'.cause = cause
    BY <1>7 DEF evaluate, make_verdict, CauseAfter
  <2> HIDE DEF v
  <2>3. last' \in GivenVerdict /\ last' # NoVerdict /\ last'.verdict = v /\ last'.at = now
    BY <1>4, <1>5, <2>1, <2>2
  <2>4. ASSUME v = "ALLOW" PROVE HysteresisInv'
    <3>1. \A c \in Restriction : /\ [c EXCEPT !.bypassed = TRUE] \in Restriction
                                 /\ [c EXCEPT !.bypassed = TRUE].bypassed = TRUE
      BY DEF Restriction
    <3>2. cause' \in Restriction \cup {NoVerdict} /\ (cause' = NoVerdict \/ cause'.bypassed)
      BY <1>3, <2>2, <2>4, <3>1 DEF CauseAfter
    <3>3. TypeOK'
      BY <1>2, <1>3, <1>4, <2>1, <2>2, <2>3, <3>2 DEF TypeOK
    <3>4. ~ Restricting' /\ ~ Standing'
      BY <2>3, <2>4, <3>2 DEF Restricting, Standing
    <3> QED  BY <3>3, <3>4 DEF HysteresisInv
  <2>5. ASSUME v # "ALLOW" PROVE HysteresisInv'
    <3>1. cause' = [verdict |-> v, at |-> now, bypassed |-> FALSE]
      BY <2>2, <2>5 DEF CauseAfter
    <3>2. /\ cause' \in Restriction /\ cause' # NoVerdict
          /\ cause'.verdict = v /\ cause'.at = now /\ ~ cause'.bypassed
      BY <1>4, <1>5, <2>1, <3>1
    <3>3. TypeOK'
      BY <1>2, <1>3, <1>4, <2>1, <2>2, <2>3, <3>2 DEF TypeOK
    <3>4. Restricting' /\ Standing'
      BY <2>3, <2>5, <3>2 DEF Restricting, Standing
    <3> QED  BY <1>1, <1>2, <2>3, <3>2, <3>3, <3>4 DEF HysteresisInv
  <2>6. HeldRepeatsCause'
    BY <2>2 DEF HeldRepeatsCause
  <2>7. OnlyBurstBreaksHold'
    <3> SUFFICES ASSUME v = "ALLOW", cause # NoVerdict,
                        Rule(in).rule # "burst", ~ cause.bypassed
                 PROVE  now + CallLag >= cause.at + MinStable
      BY <2>2 DEF OnlyBurstBreaksHold
    <3>1. Restricting /\ Standing /\ last \in GivenVerdict /\ cause \in Restriction
      BY <1>3 DEF Restricting, Standing
    <3>2. ~ ((IF now > last.at THEN now - last.at ELSE 0) < MinStable)
      BY <1>7, <2>1, <3>1 DEF Holds, Restricting
    <3>3. last.at \in Nat /\ cause.at \in Nat
      BY <1>1, <3>1 DEF GivenVerdict, Restriction
    <3> QED  BY <1>1, <1>2, <1>3, <3>1, <3>2, <3>3
  <2> QED  BY <2>4, <2>5, <2>6, <2>7
<1> QED  BY <1>6, <1>7

\* The engine starts with no verdict to hold and a decision that allows
\* nothing.
LEMMA EngineInit ==
    Init => /\ HysteresisInv /\ OnlyBurstBreaksHold /\ HeldRepeatsCause
            /\ AllowIsSafe /\ LimitWithinCeiling
BY DecisionAssumption
   DEF Init, NoInput, HysteresisInv, Restricting, Standing, TypeOK, Verdicts,
       OnlyBurstBreaksHold, HeldRepeatsCause, AllowIsSafe, LimitWithinCeiling

\* What every step of the engine keeps.
LEMMA EngineStep ==
    ASSUME HysteresisInv, OnlyBurstBreaksHold, HeldRepeatsCause, AllowIsSafe, LimitWithinCeiling,
           [Next]_vars
    PROVE  /\ HysteresisInv' /\ OnlyBurstBreaksHold' /\ HeldRepeatsCause'
           /\ AllowIsSafe' /\ LimitWithinCeiling'
<1>1. ASSUME NEW in \in Inputs, NEW now \in CallTimes, evaluate(in, now)
      PROVE  /\ HysteresisInv' /\ OnlyBurstBreaksHold' /\ HeldRepeatsCause'
             /\ AllowIsSafe' /\ LimitWithinCeiling'
  BY <1>1, EvaluateSound, EvaluateHysteresis
<1>2. ASSUME decision' = decision
      PROVE  OnlyBurstBreaksHold' /\ HeldRepeatsCause' /\ AllowIsSafe' /\ LimitWithinCeiling'
  BY <1>2 DEF OnlyBurstBreaksHold, HeldRepeatsCause, AllowIsSafe, LimitWithinCeiling, Given
<1>3. CASE reset_hysteresis
  <2>1. HysteresisInv'
    BY <1>3 DEF reset_hysteresis, HysteresisInv, TypeOK, Restricting, Standing
  <2> QED  BY <1>2, <1>3, <2>1 DEF reset_hysteresis
<1>4. CASE Tick
  <2>1. HysteresisInv'
    BY <1>4, DecisionAssumption
    DEF Tick, HysteresisInv, TypeOK, Restricting, Standing, GivenVerdict, Restriction
  <2> QED  BY <1>2, <1>4, <2>1 DEF Tick
<1>5. CASE UNCHANGED vars
  <2>1. HysteresisInv'
    BY <1>5 DEF vars, HysteresisInv, TypeOK, Restricting, Standing
  <2> QED  BY <1>2, <1>5, <2>1 DEF vars
<1> QED  BY <1>1, <1>3, <1>4, <1>5 DEF Next

EngineInv ==
    HysteresisInv /\ OnlyBurstBreaksHold /\ HeldRepeatsCause /\ AllowIsSafe /\ LimitWithinCeiling

\* What the engine's state and its decisions keep together in every run.
LEMMA EngineInvHolds == Spec => []EngineInv
<1>1. Init => EngineInv
  BY EngineInit DEF EngineInv
<1>2. EngineInv /\ [Next]_vars => EngineInv'
  BY EngineStep DEF EngineInv
<1> QED  BY <1>1, <1>2, PTL DEF Spec

\* The hysteresis state, the clock and every decision returned by evaluate keep
\* their types, whatever inputs and timestamps callers pass.
THEOREM DecisionsTyped == Spec => []TypeOK
<1>1. EngineInv => TypeOK
  BY DEF EngineInv, HysteresisInv
<1> QED  BY <1>1, EngineInvHolds, PTL

\* A plain ALLOW of evaluate is given only for current telemetry and policy,
\* within every limit of the input and to a device that is thermally free.
THEOREM AllowIsSafeHolds == Spec => []AllowIsSafe
<1>1. EngineInv => AllowIsSafe
  BY DEF EngineInv
<1> QED  BY <1>1, EngineInvHolds, PTL

\* No decision recommends a limit above one of its input, a held one included.
THEOREM LimitWithinCeilingHolds == Spec => []LimitWithinCeiling
<1>1. EngineInv => LimitWithinCeiling
  BY DEF EngineInv
<1> QED  BY <1>1, EngineInvHolds, PTL

\* Within min_stable_duration of a restriction, up to the lag of the callers'
\* timestamps, ALLOW comes from the burst rule or after it, never from the
\* default rule alone.
THEOREM OnlyBurstBreaksHoldHolds == Spec => []OnlyBurstBreaksHold
<1>1. EngineInv => OnlyBurstBreaksHold
  BY DEF EngineInv
<1> QED  BY <1>1, EngineInvHolds, PTL

\* A verdict that hysteresis holds was given by a rule since the last ALLOW and
\* the last reset.
THEOREM HeldRepeatsCauseHolds == Spec => []HeldRepeatsCause
<1>1. EngineInv => HeldRepeatsCause
  BY DEF EngineInv
<1> QED  BY <1>1, EngineInvHolds, PTL
=============================================================================
