----------------------------- MODULE Decisions ------------------------------
(***************************************************************************)
(* The DecisionEngine: a chain of rules over one DecisionInput, and the    *)
(* hysteresis that holds a restrictive verdict for min_stable_duration.    *)
(*                                                                         *)
(* The governor calls evaluate under its exclusive lock, so one decision   *)
(* is one step.  The timestamp is the caller's, read before it waited for  *)
(* the lock.  Watts and joules are naturals (the 1e-9 slack of the code    *)
(* disappears), an absent limit is NoLimit.                                *)
(***************************************************************************)
EXTENDS Integers, FiniteSets, FiniteSetsExt

CONSTANTS
    NoLimit,        \* std::nullopt of an optional limit
    NoVerdict,      \* no verdict to hold
    Inputs,         \* the inputs decisions are taken on
    SoftTarget,     \* soft_target of the policy, or NoLimit
    EnergyBudget,   \* energy_window.budget; 0 when the window is not enforced
    MinStable,      \* min_stable_duration
    MaxTime,        \* bound on the clock
    CallLag         \* how old a caller's timestamp may be when its call runs

Freshness == {"CURRENT", "AGING", "STALE", "EXPIRED"}
ThermalState == {"UNKNOWN", "COOL", "NORMAL", "WARM", "HOT", "THERMALLY_CONSTRAINED", "RECOVERING"}
Verdicts == {"ALLOW", "ALLOW_WITH_LIMIT", "THROTTLE", "DEFER", "REVALIDATION_REQUIRED", "REJECT"}

\* energy is what the request and the window so far use together.
DecisionInput ==
    [power_freshness: Freshness, policy_current: BOOLEAN, thermal_state: ThermalState,
     hardware_cap: Nat \cup {NoLimit}, budget_available: Nat \cup {NoLimit},
     thermal_ceiling: Nat \cup {NoLimit}, requested_power: Nat,
     energy: Nat, burst_available: BOOLEAN]

ASSUME DecisionAssumption ==
    /\ NoLimit \notin Nat
    /\ NoVerdict \notin [verdict: Verdicts, at: Nat]
    /\ NoVerdict \notin [verdict: Verdicts, at: Nat, bypassed: BOOLEAN]
    /\ Inputs \subseteq DecisionInput
    /\ SoftTarget \in Nat \cup {NoLimit}
    /\ EnergyBudget \in Nat
    /\ MinStable \in Nat /\ MaxTime \in Nat /\ CallLag \in Nat

-----------------------------------------------------------------------------
(* The rules, in the order in which the code tries them.                   *)

Stale(in) == ~ in.policy_current \/ in.power_freshness \in {"STALE", "EXPIRED"}

Given(in) == {in.hardware_cap, in.budget_available, in.thermal_ceiling} \ {NoLimit}

\* A mutant: the limit is what the request leaves free under the ceiling.
Ceiling_as_headroom(in) ==
    IF Given(in) = {} THEN NoLimit ELSE Min(Given(in)) - in.requested_power

Ceiling(in) == IF Given(in) = {} THEN NoLimit ELSE Min(Given(in))

Exceeds(in) == Given(in) # {} /\ in.requested_power > Min(Given(in))

NoCapacity(in) == Exceeds(in) /\ Ceiling(in) = 0

Constrained(in) == in.thermal_state = "THERMALLY_CONSTRAINED"
Recovering(in) == in.thermal_state = "RECOVERING"

OverSoftTarget(in) == SoftTarget # NoLimit /\ in.requested_power > SoftTarget

OverEnergyWindow(in) == EnergyBudget > 0 /\ in.energy > EnergyBudget

\* A mutant: the soft target and burst credit are looked at before the ceiling.
Rule_burst_first(in) ==
    LET says(rule, verdict, limit) == [rule |-> rule, verdict |-> verdict, limit |-> limit] IN
    IF Stale(in) THEN says("freshness", "REVALIDATION_REQUIRED", NoLimit)
    ELSE IF OverSoftTarget(in)
         THEN IF in.burst_available THEN says("burst", "ALLOW", Ceiling(in))
              ELSE says("soft_target", "ALLOW_WITH_LIMIT", SoftTarget)
    ELSE IF Exceeds(in) \/ Recovering(in) THEN says("ceiling", "ALLOW_WITH_LIMIT", Ceiling(in))
    ELSE says("default", "ALLOW", Ceiling(in))

\* What the rules say of an input, before hysteresis.  A rule returns at once;
\* only the last one, rule "default", goes through the hysteresis below.
Rule(in) ==
    LET says(rule, verdict, limit) == [rule |-> rule, verdict |-> verdict, limit |-> limit] IN
    IF Stale(in) THEN says("freshness", "REVALIDATION_REQUIRED", NoLimit)
    ELSE IF NoCapacity(in)
         THEN says("capacity", IF Constrained(in) THEN "DEFER" ELSE "REJECT", Ceiling(in))
    ELSE IF Constrained(in) THEN says("thermal", "THROTTLE", Ceiling(in))
    ELSE IF Exceeds(in) \/ Recovering(in) THEN says("ceiling", "ALLOW_WITH_LIMIT", Ceiling(in))
    ELSE IF OverSoftTarget(in)
         THEN IF in.burst_available THEN says("burst", "ALLOW", Ceiling(in))
              ELSE says("soft_target", "ALLOW_WITH_LIMIT", SoftTarget)
    ELSE IF OverEnergyWindow(in) THEN says("energy", "THROTTLE", Ceiling(in))
    ELSE says("default", "ALLOW", Ceiling(in))

-----------------------------------------------------------------------------
VARIABLES
    last,       \* last_: the verdict given last and when, or NoVerdict
    decision,   \* the decision returned last
    cause,      \* auxiliary: the last verdict that restricted by a rule of its
                \* own, until hysteresis lets it go or is reset; bypassed once
                \* a burst ALLOW was given against it
    clock

vars == <<last, decision, cause, clock>>

NoInput ==
    [power_freshness |-> "EXPIRED", policy_current |-> FALSE, thermal_state |-> "UNKNOWN",
     hardware_cap |-> NoLimit, budget_available |-> NoLimit, thermal_ceiling |-> NoLimit,
     requested_power |-> 0, energy |-> 0, burst_available |-> FALSE]

Init ==
    /\ last = NoVerdict
    /\ decision = [input |-> NoInput, rule |-> "freshness", verdict |-> "REVALIDATION_REQUIRED",
                   limit |-> NoLimit, held |-> FALSE, at |-> 0, cause |-> NoVerdict]
    /\ cause = NoVerdict
    /\ clock = 0

CallTimes == {t \in 0 .. clock : clock - t <= CallLag}

\* A mutant: the time since a later timestamp wraps around to a long time.
Holds_wrapping(in, now) ==
    /\ Rule(in).rule = "default"
    /\ last # NoVerdict
    /\ last.verdict # "ALLOW"
    /\ now >= last.at /\ now - last.at < MinStable

\* Elapsed time saturates at zero when the caller's timestamp is older.
Holds(in, now) ==
    /\ Rule(in).rule = "default"
    /\ last # NoVerdict
    /\ last.verdict # "ALLOW"
    /\ (IF now > last.at THEN now - last.at ELSE 0) < MinStable

\* The limit of a held ALLOW_WITH_LIMIT falls back to the soft target.
HeldLimit(in) ==
    IF last.verdict = "ALLOW_WITH_LIMIT" /\ Ceiling(in) = NoLimit THEN SoftTarget ELSE Ceiling(in)

\* Every verdict is stored as the one to hold, a held one too.
make_verdict(in, now, rule, verdict, limit, held) ==
    /\ decision' = [input |-> in, rule |-> rule, verdict |-> verdict, limit |-> limit,
                    held |-> held, at |-> now, cause |-> cause]
    /\ last' = [verdict |-> verdict, at |-> now]

CauseAfter(rule, verdict, held, now) ==
    IF held \/ (verdict = "ALLOW" /\ cause = NoVerdict) THEN cause
    ELSE IF verdict # "ALLOW" THEN [verdict |-> verdict, at |-> now, bypassed |-> FALSE]
    ELSE IF rule = "burst" \/ cause.bypassed THEN [cause EXCEPT !.bypassed = TRUE]
    ELSE NoVerdict

evaluate(in, now) ==
    LET held == Holds(in, now)
        ruled == Rule(in)
        verdict == IF held THEN last.verdict ELSE ruled.verdict
        limit == IF held THEN HeldLimit(in) ELSE ruled.limit
    IN  /\ make_verdict(in, now, ruled.rule, verdict, limit, held)
        /\ cause' = CauseAfter(ruled.rule, verdict, held, now)
        /\ UNCHANGED clock

\* A mutant: the verdict to hold survives the reset.
reset_hysteresis_keeps_last ==
    /\ cause' = NoVerdict
    /\ UNCHANGED <<last, decision, clock>>

reset_hysteresis ==
    /\ last' = NoVerdict
    /\ cause' = NoVerdict
    /\ UNCHANGED <<decision, clock>>

Tick ==
    /\ clock < MaxTime
    /\ clock' = clock + 1
    /\ UNCHANGED <<last, decision, cause>>

Next ==
    \/ \E in \in Inputs, now \in CallTimes : evaluate(in, now)
    \/ reset_hysteresis
    \/ Tick

Spec == Init /\ [][Next]_vars

-----------------------------------------------------------------------------
GivenVerdict == [verdict: Verdicts, at: 0 .. MaxTime]
Restriction == [verdict: Verdicts, at: 0 .. MaxTime, bypassed: BOOLEAN]

\* Every variable of the engine keeps its type.
TypeOK ==
    /\ last \in GivenVerdict \cup {NoVerdict}
    /\ cause \in Restriction \cup {NoVerdict}
    /\ clock \in 0 .. MaxTime
    /\ decision.verdict \in Verdicts
    /\ decision.limit \in Nat \cup {NoLimit}
    /\ decision.at \in 0 .. MaxTime
    /\ decision.cause \in Restriction \cup {NoVerdict}
    /\ decision.held \in BOOLEAN

\* Whatever hysteresis and burst credit do, a plain ALLOW is given only on
\* current telemetry, below every limit of the input and on a device that is
\* neither constrained nor recovering ("can never bypass a hard hardware/policy
\* limit", README.md).
AllowIsSafe ==
    decision.verdict = "ALLOW" =>
        /\ decision.input.policy_current
        /\ decision.input.power_freshness \in {"CURRENT", "AGING"}
        /\ \A l \in Given(decision.input) : decision.input.requested_power <= l
        /\ decision.input.thermal_state \notin {"THERMALLY_CONSTRAINED", "RECOVERING"}

\* A recommended limit is never above a limit of the input, also when it comes
\* from the soft target or with a verdict held from an earlier input.
LimitWithinCeiling ==
    decision.limit # NoLimit => \A l \in Given(decision.input) : decision.limit <= l

\* What hysteresis really promises of ALLOW: within min_stable_duration of a
\* restriction, up to the lag of the callers' timestamps (a late call moves
\* last_.at back), ALLOW is given by the burst rule, which does not ask
\* hysteresis, or after the burst rule did, and in no other way.
OnlyBurstBreaksHold ==
    decision.verdict = "ALLOW" /\ decision.cause # NoVerdict =>
        \/ decision.rule = "burst"
        \/ decision.cause.bypassed
        \/ decision.at + CallLag >= decision.cause.at + MinStable

\* A held verdict is one that a rule gave: it repeats the last restriction and
\* never outlives an ALLOW, the burst rule's included, or a reset.
HeldRepeatsCause ==
    decision.held =>
        /\ decision.cause # NoVerdict
        /\ ~ decision.cause.bypassed
        /\ decision.verdict = decision.cause.verdict

Severity ==
    [ALLOW |-> 0, ALLOW_WITH_LIMIT |-> 1, THROTTLE |-> 2, DEFER |-> 3,
     REVALIDATION_REQUIRED |-> 4, REJECT |-> 5]

\* Everything the input says of device, policy, budget and energy window; the
\* power requested is not part of it.
Conditions(in) == [in EXCEPT !.requested_power = 0]

\* "after a restrictive verdict, the engine refuses to flip to a less
\* restrictive verdict within min_stable_duration unless a hard constraint was
\* removed" (decision_engine.hpp:136): here no constraint changes at all, and
\* no reset lies between the two decisions.  Only the default rule asks
\* hysteresis, so the code does not keep this.
RestrictionIsStable ==
    [][/\ last # NoVerdict
       /\ Conditions(decision'.input) = Conditions(decision.input)
       /\ decision'.at < decision.at + MinStable
       => Severity[decision'.verdict] >= Severity[decision.verdict]]_vars

(***************************************************************************)
(* What makes OnlyBurstBreaksHold and HeldRepeatsCause inductive: unless a *)
(* burst bypassed it, last_ repeats the verdict of the cause, and only the *)
(* lag of a held call can have moved it back.                              *)
(***************************************************************************)
Restricting == last # NoVerdict /\ last.verdict # "ALLOW"
Standing == cause # NoVerdict /\ ~ cause.bypassed

HysteresisInv ==
    /\ TypeOK
    /\ Restricting <=> Standing
    /\ Standing =>
           /\ last.verdict = cause.verdict
           /\ cause.at <= clock
           /\ cause.at <= last.at + CallLag

=============================================================================
