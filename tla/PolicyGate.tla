------------------------------ MODULE PolicyGate -------------------------------
(***************************************************************************)
(* RiskBasedPolicyGate (adapters/policy/gate.py) over a sequence of        *)
(* evaluations: its cooldown memory, the wall clock it reads, and the true *)
(* time that passes meanwhile. The gate stores wall-clock readings         *)
(* (datetime.now), so a clock that is stepped while the process runs is    *)
(* part of its environment.                                                *)
(*                                                                         *)
(* One evaluation is one step. The code reads the clock up to three times  *)
(* in it; the readings are taken as equal.                                 *)
(***************************************************************************)
EXTENDS PolicyRules

CONSTANTS
    Incoming,     \* the [diagnosis, signal] pairs the gate is asked about
    ClockSteps,   \* corrections the wall clock may suddenly receive
    MaxTime,      \* bound on the true time and on the wall clock
    MaxLog        \* bound on the number of evaluations

ASSUME GateAssumption ==
    /\ \A i \in Incoming :
          /\ i.signal \in Signal
          /\ \/ i.diagnosis = None
             \/ i.diagnosis \in [proposed_action : STRING, confidence : 0..100,
                                 target : Target]
    /\ ClockSteps \subseteq Int
    /\ MaxTime \in Nat
    /\ MaxLog \in Nat

VARIABLES
    last_action,   \* _last_action: key -> wall-clock time of its last approval
    now,           \* the wall clock, datetime.now(utc)
    elapsed,       \* true time; the gate cannot see it
    log            \* history: every evaluation so far, in order

vars == <<last_action, now, elapsed, log>>

-----------------------------------------------------------------------------

\* The key an incident is remembered under. Nothing outside the allowlist has
\* one, and neither has an incident without a diagnosis.
KeyIn(i) == IF i.diagnosis = None THEN None ELSE KeyOf(i.diagnosis, i.signal)

\* dict.get: a key that was never approved reads as None.
LastOf(key) == IF key \in Key THEN last_action[key] ELSE None

Entry(i, v) ==
    [diagnosis |-> i.diagnosis, key |-> KeyIn(i), verdict |-> v,
     wall |-> now, at |-> elapsed]

Init ==
    /\ last_action = [k \in Key |-> None]
    /\ now = 0
    /\ elapsed = 0
    /\ log = << >>

\* evaluate(incident)
Submit(i) ==
    /\ Len(log) < MaxLog
    /\ LET v == Evaluate(i.diagnosis, LastOf(KeyIn(i)), now)
       IN /\ last_action' = Remember(last_action, KeyIn(i), v, now)
          /\ log' = Append(log, Entry(i, v))
    /\ UNCHANGED <<now, elapsed>>

\* Time passes.
Tick ==
    /\ elapsed < MaxTime
    /\ elapsed' = elapsed + 1
    /\ now' = now + 1
    /\ UNCHANGED <<last_action, log>>

\* The wall clock is corrected: no time passes.
Adjust(step) ==
    /\ now + step \in 0..MaxTime
    /\ now' = now + step
    /\ UNCHANGED <<last_action, elapsed, log>>

Next ==
    \/ \E i \in Incoming : Submit(i)
    \/ Tick
    \/ \E step \in ClockSteps : Adjust(step)

Spec == Init /\ [][Next]_vars

-----------------------------------------------------------------------------
(* Properties. *)

LogEntry ==
    [diagnosis : {i.diagnosis : i \in Incoming},
     key       : {KeyIn(i) : i \in Incoming},
     verdict   : PolicyVerdict,
     wall      : Int,
     at        : Nat]

\* The cooldown memory maps every (target, action) to a wall-clock time or to
\* nothing, and every evaluation ends in a verdict of the closed vocabulary.
TypeOK ==
    /\ last_action \in [Key -> Int \union {None}]
    /\ now \in Int
    /\ elapsed \in Nat
    /\ log \in Seq(LogEntry)

Approval(i) == Records(log[i].verdict)

\* Two approvals of the same target and action.
Repeats(i, j) == i < j /\ Approval(i) /\ Approval(j) /\ log[i].key = log[j].key

\* "minimum time between automated actions on the same target+action"
\* (gate.py:76), as the gate itself measures it: by the wall clock, two
\* approvals of one key are at least the cooldown apart, whatever happens to
\* other keys and however the clock is stepped in between.
CooldownSeparation ==
    \A i, j \in 1..Len(log) :
        Repeats(i, j) => log[j].wall - log[i].wall >= Cooldown

\* The same minimum in time that really passed, which is what prevents
\* flapping: the approvals of one key are at least the cooldown apart.
MinimumSpacing ==
    \A i, j \in 1..Len(log) :
        Repeats(i, j) => log[j].at - log[i].at >= Cooldown

\* A cooldown denial (gate.py:131-138) always has a cause: an earlier approval
\* of the very same target and action, less than the cooldown ago by the wall
\* clock. Denials, hand-offs and other keys never arm or prolong a cooldown.
DeniedForACause ==
    \A j \in 1..Len(log) :
        log[j].verdict.reason = "cooldown" =>
            \E i \in 1..(j - 1) :
                /\ Approval(i)
                /\ log[i].key = log[j].key
                /\ log[j].wall - log[i].wall < Cooldown

\* Nothing is approved to run on its own unless it is a remedy of the
\* allowlist, its confidence reaches the threshold and its risk is within the
\* ceiling (gate.py:116-163). An action the risk map leaves out is CRITICAL, so
\* only a ceiling that lets everything through lets it through.
ApprovedWithinPolicy ==
    \A i \in 1..Len(log) :
        Approval(i) =>
            LET d == log[i].diagnosis
            IN /\ d.proposed_action \in Remedy
               /\ d.confidence >= ConfidenceThreshold
               /\ \/ AutoApproveMaxRisk = CRITICAL
                  \/ /\ d.proposed_action \in DOMAIN Risk
                     /\ Risk[d.proposed_action] <= AutoApproveMaxRisk

=============================================================================
