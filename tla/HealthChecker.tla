--------------------------- MODULE HealthChecker ---------------------------
(***************************************************************************)
(* The circuit breaker in front of RAGFlow (plugin/sync/health_checker.go) *)
(* with the goroutines that ask it: sync events, visibility events and     *)
(* batch cycles. IsHealthy reads the state under a read lock, lets go of   *)
(* it, and decides on the copy whether to probe RAGFlow under the write    *)
(* lock; the goroutines in between change what it decided on.              *)
(***************************************************************************)
EXTENDS Naturals, FiniteSets

CONSTANTS
  Callers,    \* bound: goroutines alive at a time
  Threshold,  \* failureThreshold
  MaxForced   \* bound: calls of ForceOpen and ForceClose

ASSUME ConstantsOK ==
  /\ IsFiniteSet(Callers) /\ Callers # {}
  /\ Threshold \in Nat \ {0} /\ MaxForced \in Nat

VARIABLES
  isHealthy, failureCount, circuitOpen,
  due,      \* checkInterval has passed since lastCheckTime
  cooled,   \* recoveryTimeout has passed since circuitOpenAt
  up,       \* RAGFlow answers
  pc,       \* where each caller is
  forced

vars == <<isHealthy, failureCount, circuitOpen, due, cooled, up, pc, forced>>

(* Both times start at zero, which is long ago. *)
Init ==
  /\ isHealthy = TRUE /\ failureCount = 0 /\ circuitOpen = FALSE
  /\ due = TRUE /\ cooled = TRUE
  /\ up \in BOOLEAN
  /\ pc = [c \in Callers |-> "out"]
  /\ forced = 0

Goto(c, at) == pc' = [pc EXCEPT ![c] = at]
OpenCircuit == circuitOpen' = TRUE /\ cooled' = FALSE

-----------------------------------------------------------------------------
(* IsHealthy under the read lock: what the caller saw decides what it does. *)
Ask(c) ==
  /\ pc[c] = "out"
  /\ \/ circuitOpen /\ Goto(c, "recover")
     \/ ~circuitOpen /\ due /\ Goto(c, "check")
     \/ ~circuitOpen /\ ~due /\ Goto(c, IF isHealthy THEN "work" ELSE "out")
  /\ UNCHANGED <<isHealthy, failureCount, circuitOpen, due, cooled, up, forced>>

(* The probe is made inside the write lock, so nobody sees it half done. A   *)
(* probe that succeeds leaves a circuit that was opened meanwhile open.      *)
PerformCheck(c) ==
  /\ pc[c] = "check"
  /\ due' = FALSE
  /\ \/ /\ up
        /\ failureCount' = 0 /\ isHealthy' = TRUE
        /\ Goto(c, "work")
        /\ UNCHANGED <<circuitOpen, cooled>>
     \/ /\ ~up
        /\ failureCount' = failureCount + 1 /\ isHealthy' = FALSE
        /\ Goto(c, "out")
        /\ IF failureCount' >= Threshold THEN OpenCircuit ELSE UNCHANGED <<circuitOpen, cooled>>
  /\ UNCHANGED <<up, forced>>

RecoverStaysOpen(c) ==
  /\ pc[c] = "recover" /\ Goto(c, "out")
  /\ cooled /\ cooled' = FALSE /\ due' = FALSE
  /\ UNCHANGED <<isHealthy, failureCount, circuitOpen, up, forced>>

RecoverCounts(c) ==
  /\ pc[c] = "recover" /\ cooled /\ ~up
  /\ failureCount' = failureCount + 1 /\ cooled' = FALSE /\ due' = FALSE
  /\ Goto(c, "out")
  /\ UNCHANGED <<isHealthy, circuitOpen, up, forced>>

(* Whether the circuit is still open is not looked at again. *)
TryRecovery(c) ==
  /\ pc[c] = "recover"
  /\ \/ /\ ~cooled
        /\ Goto(c, "out")
        /\ UNCHANGED <<isHealthy, failureCount, circuitOpen, due, cooled>>
     \/ /\ cooled /\ ~up
        /\ due' = FALSE /\ cooled' = FALSE
        /\ Goto(c, "out")
        /\ UNCHANGED <<isHealthy, failureCount, circuitOpen>>
     \/ /\ cooled /\ up
        /\ circuitOpen' = FALSE /\ failureCount' = 0 /\ isHealthy' = TRUE /\ due' = FALSE
        /\ Goto(c, "work")
        /\ UNCHANGED cooled
  /\ UNCHANGED <<up, forced>>

(* What a caller that was let through reports. A sync that found nothing to  *)
(* do succeeds, and one that fails may have failed on the database: neither  *)
(* says anything of RAGFlow. Cycles and visibility events report nothing.    *)
RecordSuccess(c) ==
  /\ pc[c] = "work" /\ Goto(c, "out")
  /\ failureCount' = 0 /\ isHealthy' = TRUE /\ circuitOpen' = FALSE
  /\ UNCHANGED <<due, cooled, up, forced>>

RecordFailure(c) ==
  /\ pc[c] = "work" /\ Goto(c, "out")
  /\ failureCount' = failureCount + 1
  /\ IF failureCount' >= Threshold /\ ~circuitOpen THEN OpenCircuit
     ELSE UNCHANGED <<circuitOpen, cooled>>
  /\ UNCHANGED <<isHealthy, due, up, forced>>

ReportNothing(c) ==
  /\ pc[c] = "work" /\ Goto(c, "out")
  /\ UNCHANGED <<isHealthy, failureCount, circuitOpen, due, cooled, up, forced>>

(* The runner closes the circuit as it starts; opening it is the operator's. *)
ForceClose ==
  /\ forced < MaxForced /\ forced' = forced + 1
  /\ circuitOpen' = FALSE /\ failureCount' = 0 /\ isHealthy' = TRUE
  /\ UNCHANGED <<due, cooled, up, pc>>

ForceOpen ==
  /\ forced < MaxForced /\ forced' = forced + 1
  /\ OpenCircuit /\ isHealthy' = FALSE
  /\ UNCHANGED <<failureCount, due, up, pc>>

-----------------------------------------------------------------------------
(* Time and RAGFlow *)

IntervalPasses ==
  /\ ~due /\ due' = TRUE
  /\ UNCHANGED <<isHealthy, failureCount, circuitOpen, cooled, up, pc, forced>>

CooldownPasses ==
  /\ ~cooled /\ cooled' = TRUE
  /\ UNCHANGED <<isHealthy, failureCount, circuitOpen, due, up, pc, forced>>

ServiceChanges ==
  /\ up' = ~up
  /\ UNCHANGED <<isHealthy, failureCount, circuitOpen, due, cooled, pc, forced>>

Step(c) ==
  PerformCheck(c) \/ TryRecovery(c) \/ RecordSuccess(c) \/ RecordFailure(c) \/ ReportNothing(c)

Next ==
  \/ \E c \in Callers : Ask(c) \/ Step(c)
  \/ ForceClose \/ ForceOpen \/ IntervalPasses \/ CooldownPasses \/ ServiceChanges

Spec == Init /\ [][Next]_vars

(* Lock and HTTP time-outs let a caller go on, the ticker has somebody ask   *)
(* again and again, and time passes.                                         *)
Fairness ==
  /\ \A c \in Callers : WF_vars(Step(c))
  /\ WF_vars(\E c \in Callers : Ask(c))
  /\ WF_vars(IntervalPasses) /\ WF_vars(CooldownPasses)

FairSpec == Spec /\ Fairness

-----------------------------------------------------------------------------
(* Properties *)

(* Every variable holds what the code can store in it. *)
TypeOK ==
  /\ isHealthy \in BOOLEAN /\ circuitOpen \in BOOLEAN /\ failureCount \in Nat
  /\ due \in BOOLEAN /\ cooled \in BOOLEAN /\ up \in BOOLEAN
  /\ pc \in [Callers -> {"out", "recover", "check", "work"}]
  /\ forced \in Nat

(* However the callers' probes and reports interleave, a circuit that let    *)
(* Threshold failures in a row pass is open (performCheck, RecordFailure and *)
(* everything that closes it).                                               *)
ClosedBelowThreshold == ~circuitOpen => failureCount < Threshold

(* Callers let through or about to probe: each may add one failure yet. *)
InFlight == {c \in Callers : pc[c] \in {"check", "work"}}

(* Once it is open nobody new adds to the count: it never passes the         *)
(* threshold by more than the callers that were already let through.         *)
FailuresBounded == failureCount + Cardinality(InFlight) < Threshold + Cardinality(Callers)

(* What the breaker promises of the failures it counted, together. *)
FailuresCounted == ClosedBelowThreshold /\ FailuresBounded

(* When RAGFlow answers from some time on, the circuit never stays shut off  *)
(* for good, and neither does the cached health (tryRecovery).               *)
Recovers == <>[]up => []<>(~circuitOpen /\ isHealthy)

(* A failed probe keeps the next callers out, through the circuit or through *)
(* the cached health (IsHealthy, tryRecovery).                               *)
FailedProbeCounts ==
  [][\A c \in Callers : pc[c] = "recover" /\ pc'[c] = "out" /\ cooled /\ ~up
       => circuitOpen' \/ ~isHealthy']_vars
=============================================================================
