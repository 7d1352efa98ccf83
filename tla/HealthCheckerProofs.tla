------------------------ MODULE HealthCheckerProofs ------------------------
(***************************************************************************)
(* The circuit breaker's count, for any number of callers and threshold.   *)
(***************************************************************************)
EXTENDS HealthChecker, FiniteSetTheorems, TLAPS

Flags ==
  /\ isHealthy \in BOOLEAN /\ circuitOpen \in BOOLEAN
  /\ due \in BOOLEAN /\ cooled \in BOOLEAN /\ up \in BOOLEAN
Counts ==
  /\ failureCount \in Nat /\ forced \in Nat
  /\ pc \in [Callers -> {"out", "recover", "check", "work"}]

LEMMA TypeParts == TypeOK <=> Flags /\ Counts
BY Zenon DEF TypeOK, Flags, Counts

LEMMA InitType == Init => TypeOK
<1> SUFFICES ASSUME Init PROVE Flags /\ Counts
  BY TypeParts
<1>1. Flags
  BY Zenon DEF Init, Flags
<1>2. failureCount = 0 /\ forced = 0 /\ pc = [c \in Callers |-> "out"]
  BY Zenon DEF Init
<1> QED BY <1>1, <1>2 DEF Counts

(* Flags are set and cleared. *)
LEMMA FlagsType ==
  ASSUME Flags, [Next]_vars
  PROVE  Flags'
<1> USE DEF Flags, OpenCircuit
<1>1. ASSUME NEW c \in Callers, Ask(c) \/ ReportNothing(c) PROVE Flags'
  BY <1>1, Zenon DEF Ask, ReportNothing
<1>2. ASSUME NEW c \in Callers, PerformCheck(c) PROVE Flags'
  BY <1>2, Zenon DEF PerformCheck
<1>3. ASSUME NEW c \in Callers, TryRecovery(c) PROVE Flags'
  BY <1>3, Zenon DEF TryRecovery
<1>4. ASSUME NEW c \in Callers, RecordSuccess(c) \/ RecordFailure(c) PROVE Flags'
  BY <1>4, Zenon DEF RecordSuccess, RecordFailure
<1>5. CASE ForceClose \/ ForceOpen
  BY <1>5, Zenon DEF ForceClose, ForceOpen
<1>6. CASE IntervalPasses \/ CooldownPasses
  BY <1>6, Zenon DEF IntervalPasses, CooldownPasses
<1>7. CASE ServiceChanges \/ UNCHANGED vars
  BY <1>7, Zenon DEF ServiceChanges, vars
<1> HIDE DEF Flags, OpenCircuit
<1> QED BY <1>1, <1>2, <1>3, <1>4, <1>5, <1>6, <1>7, Zenon DEF Next, Step

LEMMA CountsType ==
  ASSUME Counts, [Next]_vars
  PROVE  Counts'
<1> USE DEF Counts, Goto
<1>1. ASSUME NEW c \in Callers, Ask(c) \/ ReportNothing(c) PROVE Counts'
  BY <1>1 DEF Ask, ReportNothing
<1>2. ASSUME NEW c \in Callers, PerformCheck(c) PROVE Counts'
  BY <1>2 DEF PerformCheck
<1>3. ASSUME NEW c \in Callers, TryRecovery(c) PROVE Counts'
  BY <1>3 DEF TryRecovery
<1>4. ASSUME NEW c \in Callers, RecordSuccess(c) \/ RecordFailure(c) PROVE Counts'
  BY <1>4 DEF RecordSuccess, RecordFailure
<1>5. CASE ForceClose \/ ForceOpen
  BY <1>5 DEF ForceClose, ForceOpen
<1>6. CASE IntervalPasses \/ CooldownPasses \/ ServiceChanges \/ UNCHANGED vars
  BY <1>6 DEF IntervalPasses, CooldownPasses, ServiceChanges, vars
<1> QED BY <1>1, <1>2, <1>3, <1>4, <1>5, <1>6, Zenon DEF Next, Step

LEMMA NextType == TypeOK /\ [Next]_vars => TypeOK'
<1>1. ASSUME TypeOK, [Next]_vars PROVE Flags' /\ Counts'
  BY <1>1, TypeParts, FlagsType, CountsType
<1>2. Flags' /\ Counts' => TypeOK'
  BY Zenon DEF TypeOK, Flags, Counts
<1> QED BY <1>1, <1>2

(* Every variable holds what the code can store in it; no report counts the  *)
(* failures below zero.                                                      *)
THEOREM TypeCorrect == Spec => []TypeOK
BY InitType, NextType, PTL DEF Spec

-----------------------------------------------------------------------------
(* A closed circuit *)

LEMMA InitClosed == Init => ClosedBelowThreshold
BY ConstantsOK DEF Init, ClosedBelowThreshold

LEMMA NextClosed == TypeOK /\ ClosedBelowThreshold /\ [Next]_vars => ClosedBelowThreshold'
<1> SUFFICES ASSUME TypeOK, ClosedBelowThreshold, [Next]_vars PROVE ClosedBelowThreshold'
  OBVIOUS
<1> USE ConstantsOK DEF TypeOK, ClosedBelowThreshold, OpenCircuit
<1>1. ASSUME NEW c \in Callers, Ask(c) \/ ReportNothing(c) PROVE ClosedBelowThreshold'
  BY <1>1 DEF Ask, ReportNothing
<1>2. ASSUME NEW c \in Callers, PerformCheck(c) PROVE ClosedBelowThreshold'
  BY <1>2 DEF PerformCheck
<1>3. ASSUME NEW c \in Callers, TryRecovery(c) PROVE ClosedBelowThreshold'
  BY <1>3 DEF TryRecovery
<1>4. ASSUME NEW c \in Callers, RecordSuccess(c) PROVE ClosedBelowThreshold'
  BY <1>4 DEF RecordSuccess
<1>5. ASSUME NEW c \in Callers, RecordFailure(c) PROVE ClosedBelowThreshold'
  BY <1>5 DEF RecordFailure
<1>6. CASE ForceClose \/ ForceOpen
  BY <1>6 DEF ForceClose, ForceOpen
<1>7. CASE IntervalPasses \/ CooldownPasses \/ ServiceChanges \/ UNCHANGED vars
  BY <1>7 DEF IntervalPasses, CooldownPasses, ServiceChanges, vars
<1> QED BY <1>1, <1>2, <1>3, <1>4, <1>5, <1>6, <1>7 DEF Next, Step

(* However probes and reports interleave, Threshold failures in a row open   *)
(* the circuit: it is never found closed at or above the threshold.          *)
THEOREM ClosedMeansFewFailures == Spec => []ClosedBelowThreshold
BY InitType, NextType, InitClosed, NextClosed, PTL DEF Spec

-----------------------------------------------------------------------------
(* The count of an open one *)

LEMMA InFlightSize ==
  ASSUME TypeOK
  PROVE  /\ IsFiniteSet(InFlight) /\ Cardinality(InFlight) \in Nat
         /\ Cardinality(Callers) \in Nat /\ Cardinality(InFlight) <= Cardinality(Callers)
BY ConstantsOK, FS_Subset, FS_CardinalityType DEF InFlight

(* A caller that leaves takes its one failure along. *)
LEMMA Leaves ==
  ASSUME TypeOK, TypeOK', NEW c \in InFlight, c \in Callers, Goto(c, "out")
  PROVE  Cardinality(InFlight') = Cardinality(InFlight) - 1
<1>1. InFlight' = InFlight \ {c}
  BY DEF InFlight, Goto, TypeOK
<1> QED BY <1>1, InFlightSize, FS_RemoveElement

LEMMA InitBounded == Init => FailuresBounded
<1> SUFFICES ASSUME Init PROVE FailuresBounded
  OBVIOUS
<1>1. Cardinality(InFlight) \in Nat /\ Cardinality(Callers) \in Nat
      /\ Cardinality(InFlight) <= Cardinality(Callers)
  BY InitType, InFlightSize
<1> QED BY <1>1, ConstantsOK DEF Init, FailuresBounded

LEMMA NextBounded ==
  TypeOK /\ ClosedBelowThreshold /\ FailuresBounded /\ [Next]_vars => FailuresBounded'
<1> SUFFICES ASSUME TypeOK, ClosedBelowThreshold, FailuresBounded, [Next]_vars
             PROVE  FailuresBounded'
  OBVIOUS
<1>0. TypeOK'
  BY NextType
<1>s. /\ Cardinality(InFlight) \in Nat /\ Cardinality(InFlight') \in Nat
      /\ Cardinality(Callers) \in Nat /\ Cardinality(InFlight') <= Cardinality(Callers)
      /\ failureCount \in Nat /\ failureCount' \in Nat /\ Threshold \in Nat \ {0}
  <2>1. /\ Cardinality(InFlight') \in Nat
        /\ Cardinality(InFlight') <= Cardinality(Callers)
    BY <1>0, ConstantsOK, FS_Subset, FS_CardinalityType DEF InFlight
  <2> QED BY <1>0, <2>1, ConstantsOK, InFlightSize DEF TypeOK
(* A count below the threshold leaves room for every caller. *)
<1>1. ASSUME failureCount' < Threshold PROVE FailuresBounded'
  BY <1>1, <1>s DEF FailuresBounded
<1>2. ASSUME NEW c \in Callers, Goto(c, "out"), failureCount' <= failureCount + 1,
             pc[c] \in {"check", "work"}
      PROVE  FailuresBounded'
  <2>1. c \in InFlight
    BY <1>2 DEF InFlight
  <2>2. Cardinality(InFlight') = Cardinality(InFlight) - 1
    BY <1>0, <1>2, <2>1, Leaves
  <2> QED BY <1>2, <1>s, <2>2 DEF FailuresBounded
<1>3. ASSUME failureCount' = failureCount, InFlight' \subseteq InFlight PROVE FailuresBounded'
  <2>1. Cardinality(InFlight') <= Cardinality(InFlight)
    BY <1>3, InFlightSize, FS_Subset
  <2> QED BY <1>3, <1>s, <2>1 DEF FailuresBounded
<1>4. ASSUME NEW c \in Callers, Ask(c) PROVE FailuresBounded'
  <2>1. CASE circuitOpen
    <3>1. failureCount' = failureCount /\ InFlight' \subseteq InFlight
      BY <1>4, <2>1 DEF Ask, Goto, InFlight, TypeOK
    <3> QED BY <1>3, <3>1
  <2>2. CASE ~circuitOpen
    BY <1>1, <1>4, <2>2 DEF Ask, ClosedBelowThreshold
  <2> QED BY <2>1, <2>2
<1>5. ASSUME NEW c \in Callers, PerformCheck(c) PROVE FailuresBounded'
  <2>1. CASE failureCount' = 0
    BY <1>1, <1>s, <2>1
  <2>2. CASE failureCount' = failureCount + 1 /\ Goto(c, "out") /\ pc[c] = "check"
    BY <1>2, <1>s, <2>2
  <2> QED BY <1>5, <2>1, <2>2 DEF PerformCheck
<1>6. ASSUME NEW c \in Callers, TryRecovery(c) PROVE FailuresBounded'
  <2>1. CASE failureCount' = 0
    BY <1>1, <1>s, <2>1
  <2>2. CASE failureCount' = failureCount /\ Goto(c, "out") /\ pc[c] = "recover"
    <3>1. InFlight' \subseteq InFlight
      BY <2>2 DEF Goto, InFlight, TypeOK
    <3> QED BY <1>3, <2>2, <3>1
  <2> QED BY <1>6, <2>1, <2>2 DEF TryRecovery
<1>7. ASSUME NEW c \in Callers, RecordSuccess(c) \/ RecordFailure(c) \/ ReportNothing(c)
      PROVE  FailuresBounded'
  <2>1. /\ Goto(c, "out") /\ pc[c] = "work"
        /\ failureCount' \in {0, failureCount, failureCount + 1}
    BY <1>7 DEF RecordSuccess, RecordFailure, ReportNothing
  <2> QED BY <1>2, <1>s, <2>1
<1>8. CASE ForceClose \/ ForceOpen \/ IntervalPasses \/ CooldownPasses \/ ServiceChanges
           \/ UNCHANGED vars
  <2>1. pc' = pc /\ (failureCount' = failureCount \/ failureCount' = 0)
    BY <1>8 DEF ForceClose, ForceOpen, IntervalPasses, CooldownPasses, ServiceChanges, vars
  <2>2. InFlight' = InFlight
    BY <2>1 DEF InFlight
  <2> QED BY <1>1, <1>3, <1>s, <2>1, <2>2
<1> QED BY <1>4, <1>5, <1>6, <1>7, <1>8 DEF Next, Step

(* Threshold failures in a row open the circuit, and past it the count goes  *)
(* by at most the callers in flight, whatever their number.                  *)
THEOREM FailuresAreCounted == Spec => []FailuresCounted
BY InitType, NextType, InitClosed, NextClosed, InitBounded, NextBounded, PTL DEF Spec, FailuresCounted
=============================================================================
