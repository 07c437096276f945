--------------------------- MODULE PolicyGateProofs ---------------------------
(***************************************************************************)
(* What RiskBasedPolicyGate guarantees for every policy, every set of      *)
(* proposals and every history, proved from PolicyGate.                    *)
(***************************************************************************)
EXTENDS PolicyGate, TLAPS

-----------------------------------------------------------------------------
(* The decision ladder. *)

\* Whatever the gate is asked, evaluate answers with a decision and a reason of
\* the closed vocabularies (gate.py:106-163).
LEMMA EvaluateType ==
    ASSUME NEW d, NEW last, NEW t
    PROVE  Evaluate(d, last, t) \in PolicyVerdict
BY DEF Evaluate, Verdict, PolicyVerdict, Decision, Reason

\* The bottom rung of the ladder is reached only by a confident remedy within
\* the ceiling whose key is not cooling down (gate.py:106-163).
LEMMA ApprovalMeans ==
    ASSUME NEW d, NEW last, NEW t, Records(Evaluate(d, last, t))
    PROVE  /\ d # None
           /\ d.proposed_action \in Remedy
           /\ ~InCooldown(last, t)
           /\ ~(d.confidence < ConfidenceThreshold)
           /\ ~(RiskOf(d.proposed_action) > AutoApproveMaxRisk)
BY DEF Evaluate, Verdict, Records, Remedy

\* The key of an allowlisted proposal is one the memory has an entry for.
LEMMA KeyOfApproval ==
    ASSUME NEW i \in Incoming, Records(Evaluate(i.diagnosis, LastOf(KeyIn(i)), now))
    PROVE  KeyIn(i) \in Key
<1>1. i.diagnosis # None /\ i.diagnosis.proposed_action \in Remedy
  BY ApprovalMeans
<1>2. i.signal \in Signal /\ i.diagnosis.target \in Target
  BY <1>1, GateAssumption
<1>3. TargetOf(i.diagnosis, i.signal) \in Target
  BY <1>2 DEF TargetOf, Target, Signal
<1> QED
  BY <1>1, <1>3 DEF KeyIn, KeyOf, Key, Remedy

-----------------------------------------------------------------------------
(* Type correctness. *)

\* The gate's variables stay within their types (gate.py:101-163).
THEOREM TypeCorrect == Spec => []TypeOK
<1>1. Init => TypeOK
  BY DEF Init, TypeOK
<1>2. TypeOK /\ [Next]_vars => TypeOK'
  <2> SUFFICES ASSUME TypeOK, [Next]_vars
               PROVE  TypeOK'
    OBVIOUS
  <2> USE DEF TypeOK
  <2>1. ASSUME NEW i \in Incoming, Submit(i)
        PROVE  TypeOK'
    <3> DEFINE v == Evaluate(i.diagnosis, LastOf(KeyIn(i)), now)
    <3>1. v \in PolicyVerdict
      BY EvaluateType
    <3>2. Entry(i, v) \in LogEntry
      BY <3>1 DEF Entry, LogEntry
    <3>3. log' \in Seq(LogEntry)
      BY <2>1, <3>2 DEF Submit
    <3>4. last_action' \in [Key -> Int \union {None}]
      BY <2>1 DEF Submit, Remember
    <3> QED
      BY <2>1, <3>3, <3>4 DEF Submit
  <2>2. CASE Tick
    BY <2>2 DEF Tick
  <2>3. ASSUME NEW step \in ClockSteps, Adjust(step)
        PROVE  TypeOK'
    BY <2>3, GateAssumption DEF Adjust
  <2>4. CASE UNCHANGED vars
    BY <2>4 DEF vars
  <2> QED
    BY <2>1, <2>2, <2>3, <2>4 DEF Next
<1> QED
  BY <1>1, <1>2, PTL DEF Spec

-----------------------------------------------------------------------------
(* The cooldown, by the wall clock. *)

\* The memory is not behind the history: an approved key has an entry, and the
\* entry is at least as late as every approval of the key. Without it the
\* separation is not inductive: the gate compares with the memory only, never
\* with the approvals themselves.
Remembered ==
    \A i \in 1..Len(log) :
        Approval(i) =>
            /\ log[i].key \in Key
            /\ last_action[log[i].key] # None
            /\ log[i].wall <= last_action[log[i].key]

\* The times of the history are numbers (gate.py:39-40).
LEMMA TimesAreNumbers ==
    ASSUME TypeOK
    PROVE  \A j \in 1..Len(log) : log[j].wall \in Int /\ log[j].at \in Nat
<1> SUFFICES ASSUME NEW j \in 1..Len(log)
             PROVE  log[j].wall \in Int /\ log[j].at \in Nat
  OBVIOUS
<1>1. log[j] \in LogEntry
  BY DEF TypeOK
<1> QED
  BY <1>1 DEF LogEntry

CooldownInv == TypeOK /\ Remembered /\ CooldownSeparation

\* Any two approvals of one target and action are at least the cooldown apart
\* by the gate's clock, for every policy, every set of proposals and every way
\* of stepping the clock (gate.py:130-138, 157-158).
THEOREM CooldownHolds == Spec => []CooldownSeparation
<1>1. Init => CooldownInv
  BY DEF Init, CooldownInv, TypeOK, Remembered, CooldownSeparation
<1>2. CooldownInv /\ TypeOK' /\ [Next]_vars => CooldownInv'
  <2> SUFFICES ASSUME CooldownInv, TypeOK', [Next]_vars
               PROVE  Remembered' /\ CooldownSeparation'
    BY DEF CooldownInv
  <2> USE DEF CooldownInv, TypeOK
  <2>1. ASSUME NEW i \in Incoming, Submit(i)
        PROVE  Remembered' /\ CooldownSeparation'
    <3> DEFINE k == KeyIn(i)
               v == Evaluate(i.diagnosis, LastOf(k), now)
               n == Len(log) + 1
    <3>1. /\ last_action' = Remember(last_action, k, v, now)
          /\ log' = Append(log, Entry(i, v))
          /\ now' = now
      BY <2>1 DEF Submit
    <3>2. /\ Len(log') = n
          /\ log'[n] = Entry(i, v)
          /\ \A j \in 1..Len(log) : log'[j] = log[j]
      BY <3>1
    <3>3. log'[n].key = k /\ log'[n].verdict = v /\ log'[n].wall = now
      BY <3>2 DEF Entry
    <3> HIDE DEF k, v
    <3>4. CASE ~Records(v)
      <4>1. last_action' = last_action
        BY <3>1, <3>4 DEF Remember
      <4>2. ~Records(log'[n].verdict)
        BY <3>3, <3>4
      <4>3. Remembered'
        BY <3>2, <4>1, <4>2 DEF Remembered, Approval
      <4>4. CooldownSeparation'
        <5> SUFFICES ASSUME NEW a \in 1..n, NEW b \in 1..n, Repeats(a, b)'
                     PROVE  log'[b].wall - log'[a].wall >= Cooldown
          BY <3>2 DEF CooldownSeparation
        <5>1. a # n /\ b # n
          BY <4>2 DEF Repeats, Approval
        <5>2. /\ a \in 1..Len(log) /\ log'[a] = log[a]
              /\ b \in 1..Len(log) /\ log'[b] = log[b]
          BY <3>2, <5>1
        <5> QED
          BY <5>2 DEF Repeats, Approval, CooldownSeparation
      <4> QED
        BY <4>3, <4>4
    <3>5. CASE Records(v)
      <4>1. k \in Key
        BY <3>5, KeyOfApproval DEF k, v
      <4>2. ~InCooldown(last_action[k], now)
        BY <3>5, <4>1, ApprovalMeans DEF LastOf, v
      <4>3. last_action' = [last_action EXCEPT ![k] = now]
        BY <3>1, <3>5 DEF Remember
      \* The approvals of k so far are a cooldown old.
      <4>4. ASSUME NEW j \in 1..Len(log), Approval(j), log[j].key = k
            PROVE  now - log[j].wall >= Cooldown
        <5>1. last_action[k] # None /\ log[j].wall <= last_action[k]
          BY <4>4 DEF Remembered
        <5>2. now - last_action[k] >= Cooldown
          BY <4>1, <4>2, <5>1, PolicyAssumption DEF InCooldown
        <5>3. log[j].wall \in Int /\ last_action[k] \in Int
          BY <4>1, <5>1, TimesAreNumbers
        <5> QED
          BY <5>1, <5>2, <5>3, PolicyAssumption
      <4>5. Remembered'
        <5> SUFFICES ASSUME NEW j \in 1..n, Approval(j)'
                     PROVE  /\ log'[j].key \in Key
                            /\ last_action'[log'[j].key] # None
                            /\ log'[j].wall <= last_action'[log'[j].key]
          BY <3>2 DEF Remembered
        <5>1. CASE j = n
          BY <3>3, <4>1, <4>3, <5>1, NoneAssumption
        <5>2. CASE j # n
          <6>1. j \in 1..Len(log) /\ log'[j] = log[j] /\ Approval(j)
            BY <3>2, <5>2 DEF Approval
          <6>2. CASE log[j].key = k
            <7>1. now - log[j].wall >= Cooldown /\ log[j].wall \in Int
              BY <4>4, <6>1, <6>2, TimesAreNumbers
            <7>2. last_action'[k] = now /\ now # None
              BY <4>1, <4>3, NoneAssumption
            <7>3. log[j].wall <= now
              BY <7>1, PolicyAssumption
            <7> QED
              BY <4>1, <6>1, <6>2, <7>2, <7>3
          <6>3. CASE log[j].key # k
            BY <4>3, <6>1, <6>3 DEF Remembered
          <6> QED
            BY <6>2, <6>3
        <5> QED
          BY <5>1, <5>2
      <4>6. CooldownSeparation'
        <5> SUFFICES ASSUME NEW a \in 1..n, NEW b \in 1..n, Repeats(a, b)'
                     PROVE  log'[b].wall - log'[a].wall >= Cooldown
          BY <3>2 DEF CooldownSeparation
        <5>1. a \in 1..Len(log) /\ log'[a] = log[a] /\ Approval(a)
          BY <3>2 DEF Repeats, Approval
        <5>2. CASE b = n
          BY <3>3, <4>4, <5>1, <5>2 DEF Repeats
        <5>3. CASE b # n
          <6>1. b \in 1..Len(log) /\ log'[b] = log[b]
            BY <3>2, <5>3
          <6> QED
            BY <5>1, <6>1 DEF Repeats, Approval, CooldownSeparation
        <5> QED
          BY <5>2, <5>3
      <4> QED
        BY <4>5, <4>6
    <3> QED
      BY <3>4, <3>5
  <2>2. CASE last_action' = last_action /\ log' = log
    BY <2>2 DEF Remembered, CooldownSeparation, Repeats, Approval
  <2> QED
    BY <2>1, <2>2 DEF Next, Tick, Adjust, vars
<1>3. CooldownInv => CooldownSeparation
  BY DEF CooldownInv
<1> QED
  BY <1>1, <1>2, <1>3, TypeCorrect, PTL DEF Spec

-----------------------------------------------------------------------------
(* The cooldown, in true time. *)

\* A clock that is never stepped ahead only falls behind: it has not gained on
\* true time since any evaluation of the history.
NeverGains ==
    \A i \in 1..Len(log) : now - elapsed <= log[i].wall - log[i].at

\* If the wall clock is never stepped ahead, any two approvals of one target and
\* action are at least the cooldown apart in the time that really passed: the
\* promise of gate.py:76-77. The assumption is needed; a step ahead breaks it.
THEOREM SpacingHolds ==
    ASSUME \A step \in ClockSteps : step <= 0
    PROVE  Spec => []MinimumSpacing
<1>1. Init => NeverGains /\ MinimumSpacing
  BY DEF Init, NeverGains, MinimumSpacing
<1>2. /\ TypeOK /\ CooldownSeparation /\ NeverGains /\ MinimumSpacing
      /\ TypeOK' /\ CooldownSeparation' /\ [Next]_vars
      => NeverGains' /\ MinimumSpacing'
  <2> SUFFICES ASSUME TypeOK, NeverGains, MinimumSpacing,
                      TypeOK', CooldownSeparation', [Next]_vars
               PROVE  NeverGains' /\ MinimumSpacing'
    OBVIOUS
  <2>0. /\ now \in Int /\ elapsed \in Nat
        /\ \A j \in 1..Len(log) : log[j].wall \in Int /\ log[j].at \in Nat
    BY TimesAreNumbers DEF TypeOK
  <2>1. ASSUME NEW i \in Incoming, Submit(i)
        PROVE  NeverGains' /\ MinimumSpacing'
    <3> DEFINE n == Len(log) + 1
    <3>1. PICK e : e.wall = now /\ e.at = elapsed /\ log' = Append(log, e)
      BY <2>1 DEF Submit, Entry
    <3>2. /\ Len(log') = n
          /\ log'[n] = e
          /\ \A j \in 1..Len(log) : log'[j] = log[j]
          /\ Len(log) \in Nat
      BY <3>1 DEF TypeOK
    <3>3. now' = now /\ elapsed' = elapsed
      BY <2>1 DEF Submit
    <3>4. NeverGains'
      BY <2>0, <3>1, <3>2, <3>3 DEF NeverGains
    <3>5. MinimumSpacing'
      <4> SUFFICES ASSUME NEW a \in 1..n, NEW b \in 1..n, Repeats(a, b)'
                   PROVE  log'[b].at - log'[a].at >= Cooldown
        BY <3>2 DEF MinimumSpacing
      <4>1. a \in 1..Len(log) /\ log'[a] = log[a]
        BY <3>2 DEF Repeats
      <4>2. CASE b = n
        <5>1. log'[b].wall - log'[a].wall >= Cooldown
          BY <3>2 DEF CooldownSeparation
        <5>2. now - elapsed <= log[a].wall - log[a].at
          BY <4>1 DEF NeverGains
        <5> QED
          BY <2>0, <3>1, <3>2, <4>1, <4>2, <5>1, <5>2, PolicyAssumption
      <4>3. CASE b # n
        <5>1. b \in 1..Len(log) /\ log'[b] = log[b]
          BY <3>2, <4>3
        <5> QED
          BY <4>1, <5>1 DEF Repeats, Approval, MinimumSpacing
      <4> QED
        BY <4>2, <4>3
    <3> QED
      BY <3>4, <3>5
  <2>2. CASE Tick
    <3>1. now' - elapsed' = now - elapsed /\ log' = log
      BY <2>0, <2>2 DEF Tick
    <3> QED
      BY <3>1 DEF NeverGains, MinimumSpacing, Repeats, Approval
  <2>3. ASSUME NEW step \in ClockSteps, Adjust(step)
        PROVE  NeverGains' /\ MinimumSpacing'
    <3>1. step <= 0 /\ step \in Int /\ now' = now + step /\ elapsed' = elapsed
          /\ log' = log
      BY <2>3, GateAssumption DEF Adjust
    <3>2. NeverGains'
      <4> SUFFICES ASSUME NEW j \in 1..Len(log)
                   PROVE  now' - elapsed' <= log[j].wall - log[j].at
        BY <3>1 DEF NeverGains
      <4>1. now - elapsed <= log[j].wall - log[j].at
        BY DEF NeverGains
      <4> QED
        BY <2>0, <3>1, <4>1
    <3> QED
      BY <3>1, <3>2 DEF MinimumSpacing, Repeats, Approval
  <2>4. CASE UNCHANGED vars
    BY <2>4 DEF vars, NeverGains, MinimumSpacing, Repeats, Approval
  <2> QED
    BY <2>1, <2>2, <2>3, <2>4 DEF Next
<1> QED
  BY <1>1, <1>2, TypeCorrect, CooldownHolds, PTL DEF Spec

-----------------------------------------------------------------------------
(* What an approval and a denial rest on. *)

\* What Submit does to the history, for the proofs below (gate.py:106-163).
LEMMA SubmitAppends ==
    ASSUME TypeOK, NEW i \in Incoming, Submit(i)
    PROVE  LET v == Evaluate(i.diagnosis, LastOf(KeyIn(i)), now)
               n == Len(log) + 1
           IN /\ Len(log) \in Nat
              /\ Len(log') = n
              /\ log'[n].diagnosis = i.diagnosis
              /\ log'[n].key = KeyIn(i)
              /\ log'[n].verdict = v
              /\ log'[n].wall = now
              /\ \A j \in 1..Len(log) : log'[j] = log[j]
<1> DEFINE v == Evaluate(i.diagnosis, LastOf(KeyIn(i)), now)
<1>1. log' = Append(log, Entry(i, v))
  BY DEF Submit
<1>2. /\ Len(log) \in Nat
      /\ Len(log') = Len(log) + 1
      /\ log'[Len(log) + 1] = Entry(i, v)
      /\ \A j \in 1..Len(log) : log'[j] = log[j]
  BY <1>1 DEF TypeOK
<1> QED
  BY <1>2 DEF Entry

\* Every approval, under every policy, is of a confident remedy whose risk is
\* within the ceiling (gate.py:116-163).
THEOREM ApprovalsWithinPolicy == Spec => []ApprovedWithinPolicy
<1>1. Init => ApprovedWithinPolicy
  BY DEF Init, ApprovedWithinPolicy
<1>2. ApprovedWithinPolicy /\ TypeOK /\ [Next]_vars => ApprovedWithinPolicy'
  <2> SUFFICES ASSUME ApprovedWithinPolicy, TypeOK, [Next]_vars
               PROVE  ApprovedWithinPolicy'
    OBVIOUS
  <2>1. ASSUME NEW i \in Incoming, Submit(i)
        PROVE  ApprovedWithinPolicy'
    <3> DEFINE v == Evaluate(i.diagnosis, LastOf(KeyIn(i)), now)
               n == Len(log) + 1
               d == i.diagnosis
    <3>1. /\ Len(log) \in Nat
          /\ Len(log') = n
          /\ log'[n].diagnosis = d
          /\ log'[n].verdict = v
          /\ \A j \in 1..Len(log) : log'[j] = log[j]
      BY <2>1, SubmitAppends
    <3>2. ASSUME Records(v)
          PROVE  /\ d.proposed_action \in Remedy
                 /\ d.confidence >= ConfidenceThreshold
                 /\ \/ AutoApproveMaxRisk = CRITICAL
                    \/ /\ d.proposed_action \in DOMAIN Risk
                       /\ Risk[d.proposed_action] <= AutoApproveMaxRisk
      <4>1. /\ d # None
            /\ d.proposed_action \in Remedy
            /\ ~(d.confidence < ConfidenceThreshold)
            /\ ~(RiskOf(d.proposed_action) > AutoApproveMaxRisk)
        BY <3>2, ApprovalMeans
      <4>2. d.confidence \in 0..100 /\ ConfidenceThreshold \in 0..100
        BY <4>1, GateAssumption, PolicyAssumption
      <4>3. RiskOf(d.proposed_action) \in 0..4 /\ AutoApproveMaxRisk \in 0..4
        BY PolicyAssumption DEF RiskOf, RiskLevel, CRITICAL
      <4>4. RiskOf(d.proposed_action) <= AutoApproveMaxRisk
        BY <4>1, <4>3
      <4>5. CASE d.proposed_action \in DOMAIN Risk
        BY <4>1, <4>2, <4>4, <4>5 DEF RiskOf
      <4>6. CASE d.proposed_action \notin DOMAIN Risk
        BY <4>1, <4>2, <4>3, <4>4, <4>6 DEF RiskOf, CRITICAL
      <4> QED
        BY <4>5, <4>6
    <3> SUFFICES ASSUME NEW j \in 1..n, Records(log'[j].verdict)
                 PROVE  /\ log'[j].diagnosis.proposed_action \in Remedy
                        /\ log'[j].diagnosis.confidence >= ConfidenceThreshold
                        /\ \/ AutoApproveMaxRisk = CRITICAL
                           \/ /\ log'[j].diagnosis.proposed_action \in DOMAIN Risk
                              /\ Risk[log'[j].diagnosis.proposed_action]
                                    <= AutoApproveMaxRisk
      BY <3>1 DEF ApprovedWithinPolicy, Approval
    <3>3. CASE j = n
      BY <3>1, <3>2, <3>3
    <3>4. CASE j # n
      <4>1. j \in 1..Len(log) /\ log'[j] = log[j]
        BY <3>1, <3>4
      <4> QED
        BY <4>1 DEF ApprovedWithinPolicy, Approval
    <3> QED
      BY <3>3, <3>4
  <2>2. CASE log' = log
    BY <2>2 DEF ApprovedWithinPolicy, Approval
  <2> QED
    BY <2>1, <2>2 DEF Next, Tick, Adjust, vars
<1> QED
  BY <1>1, <1>2, TypeCorrect, PTL DEF Spec

\* The memory holds nothing but approvals: an entry is the time of an approval
\* of its own key that is in the history.
Sourced ==
    \A k \in Key :
        last_action[k] # None =>
            \E i \in 1..Len(log) :
                Approval(i) /\ log[i].key = k /\ log[i].wall = last_action[k]

\* Every cooldown denial goes back to an approval of the same target and action
\* less than the cooldown ago (gate.py:130-138).
THEOREM DenialsHaveACause == Spec => []DeniedForACause
<1>1. Init => Sourced /\ DeniedForACause
  BY DEF Init, Sourced, DeniedForACause
<1>2. Sourced /\ DeniedForACause /\ TypeOK /\ [Next]_vars => Sourced' /\ DeniedForACause'
  <2> SUFFICES ASSUME Sourced, DeniedForACause, TypeOK, [Next]_vars
               PROVE  Sourced' /\ DeniedForACause'
    OBVIOUS
  <2>1. ASSUME NEW i \in Incoming, Submit(i)
        PROVE  Sourced' /\ DeniedForACause'
    <3> DEFINE k == KeyIn(i)
               v == Evaluate(i.diagnosis, LastOf(k), now)
               n == Len(log) + 1
    <3>1. /\ Len(log) \in Nat
          /\ Len(log') = n
          /\ log'[n].key = k
          /\ log'[n].verdict = v
          /\ log'[n].wall = now
          /\ \A j \in 1..Len(log) : log'[j] = log[j]
      BY <2>1, SubmitAppends
    <3>2. last_action' = Remember(last_action, k, v, now)
      BY <2>1 DEF Submit
    <3>3. v.reason = "cooldown" => InCooldown(LastOf(k), now)
      BY DEF Evaluate, Verdict
    <3>4. Records(v) => k \in Key
      BY KeyOfApproval
    <3> HIDE DEF k, v
    <3>5. Sourced'
      <4> SUFFICES ASSUME NEW q \in Key, last_action'[q] # None
                   PROVE  \E j \in 1..n : /\ Records(log'[j].verdict)
                                          /\ log'[j].key = q
                                          /\ log'[j].wall = last_action'[q]
        BY <3>1 DEF Sourced, Approval
      <4>1. CASE Records(v) /\ q = k
        <5>1. last_action'[q] = now
          BY <3>2, <4>1 DEF Remember, TypeOK
        <5> QED
          BY <3>1, <4>1, <5>1
      <4>2. CASE ~(Records(v) /\ q = k)
        <5>1. last_action'[q] = last_action[q]
          BY <3>2, <4>2 DEF Remember, TypeOK
        <5>2. PICK j \in 1..Len(log) : /\ Records(log[j].verdict)
                                       /\ log[j].key = q
                                       /\ log[j].wall = last_action[q]
          BY <5>1 DEF Sourced, Approval
        <5> QED
          BY <3>1, <5>1, <5>2
      <4> QED
        BY <4>1, <4>2
    <3>6. DeniedForACause'
      <4> SUFFICES ASSUME NEW j \in 1..n, log'[j].verdict.reason = "cooldown"
                   PROVE  \E a \in 1..(j - 1) :
                              /\ Records(log'[a].verdict)
                              /\ log'[a].key = log'[j].key
                              /\ log'[j].wall - log'[a].wall < Cooldown
        BY <3>1 DEF DeniedForACause, Approval
      <4>1. CASE j = n
        <5>1. InCooldown(LastOf(k), now)
          BY <3>1, <3>3, <4>1
        <5>2. k \in Key /\ last_action[k] # None /\ now - last_action[k] < Cooldown
          BY <5>1 DEF InCooldown, LastOf
        <5>3. PICK a \in 1..Len(log) : /\ Records(log[a].verdict)
                                       /\ log[a].key = k
                                       /\ log[a].wall = last_action[k]
          BY <5>2 DEF Sourced, Approval
        <5> QED
          BY <3>1, <4>1, <5>2, <5>3
      <4>2. CASE j # n
        <5>1. j \in 1..Len(log) /\ log'[j] = log[j]
          BY <3>1, <4>2
        <5>2. PICK a \in 1..(j - 1) : /\ Records(log[a].verdict)
                                      /\ log[a].key = log[j].key
                                      /\ log[j].wall - log[a].wall < Cooldown
          BY <5>1 DEF DeniedForACause, Approval
        <5>3. a \in 1..Len(log) /\ log'[a] = log[a]
          BY <3>1, <5>1
        <5> QED
          BY <5>1, <5>2, <5>3
      <4> QED
        BY <4>1, <4>2
    <3> QED
      BY <3>5, <3>6
  <2>2. CASE last_action' = last_action /\ log' = log
    BY <2>2 DEF Sourced, DeniedForACause, Approval
  <2> QED
    BY <2>1, <2>2 DEF Next, Tick, Adjust, vars
<1> QED
  BY <1>1, <1>2, TypeCorrect, PTL DEF Spec

=============================================================================
