--------------------------- MODULE MigratorProofs ---------------------------
(***************************************************************************)
(* Proofs about Migrator: its types, that the recorded version is never    *)
(* ahead of the tables, and that it implements SchemaUpgrade, for any      *)
(* releases, files, and number of failures and installations.              *)
(***************************************************************************)
EXTENDS Migrator, TLAPS

\* The schema is that of a whole release, or there is none to speak of.
Whole == tables = {} \/ \E r \in Releases : tables = Latest(r)

\* A database without tables has no version either.
Fresh == (~initialized \/ pc = "latest") => tables = {} /\ recorded = 0 /\ ~initialized

\* What the open transaction has run and will run is what is missing.
Running ==
    IF pc = "apply"
    THEN recorded < Target /\ todo \cup ran = Pending(recorded, Target)
    ELSE todo = {} /\ ran = {}

\* When the version is recorded, and when the server comes up, the tables
\* have all that the release needs.
Provided == pc \in {"recordNew", "recordUp", "serving"} => Latest(release) \subseteq tables

\* Past the first installation there are tables.
Started == pc \notin {"down", "check", "latest"} => initialized

IInv == TypeOK /\ Whole /\ RecordedIsApplied /\ Fresh /\ Running /\ Provided /\ Started

-----------------------------------------------------------------------------
\* The version of a release is a positive number.
LEMMA VersionIsPositive ==
    ASSUME NEW r \in Releases
    PROVE  SchemaVersion(r) \in Nat \ {0}
<1>1. CASE FilesOf(r) = {}
  BY <1>1, ReleasesAssumption DEF SchemaVersion
<1>2. CASE FilesOf(r) # {}
  <2>1. PICK l \in FilesOf(r) : \A f \in FilesOf(r) : f <= l
    BY <1>2, LastFileAssumption
  <2>2. SchemaVersion(r) \in FilesOf(r)
    BY <1>2, <2>1 DEF SchemaVersion
  <2>3. FilesOf(r) \subseteq Nat \ {0}
    BY ReleasesAssumption DEF FilesOf
  <2> QED BY <2>2, <2>3
<1> QED BY <1>1, <1>2

\* What one version has a later one has too.
LEMMA UpToGrows ==
    ASSUME NEW a \in Nat, NEW b \in Nat, a <= b
    PROVE  UpTo(a) \subseteq UpTo(b)
<1> SUFFICES ASSUME NEW f \in UpTo(a) PROVE f \in UpTo(b)
  OBVIOUS
<1>1. f \in Files /\ f <= a
  BY DEF UpTo
<1>2. f \in Nat
  BY <1>1, ReleasesAssumption
<1>3. f <= b
  BY <1>1, <1>2
<1> QED BY <1>1, <1>3 DEF UpTo

\* The pending files lead from one version to the other.
LEMMA PendingFills ==
    ASSUME NEW a \in Nat, NEW b \in Nat, a <= b
    PROVE  UpTo(a) \cup Pending(a, b) = UpTo(b)
<1>1. Pending(a, b) \subseteq UpTo(b)
  BY DEF Pending, UpTo
<1>2. ASSUME NEW f \in UpTo(b) PROVE f \in UpTo(a) \/ f \in Pending(a, b)
  <2>1. f \in Files /\ f <= b
    BY DEF UpTo
  <2>2. f \in Nat
    BY <2>1, ReleasesAssumption
  <2>3. f <= a \/ f > a
    BY <2>2
  <2> QED BY <2>1, <2>3 DEF UpTo, Pending
<1> QED BY <1>1, <1>2, UpToGrows

\* Version 0 has no files.
LEMMA NothingUpToZero == UpTo(0) = {}
<1> SUFFICES ASSUME NEW f \in UpTo(0) PROVE FALSE
  OBVIOUS
<1>1. f \in Files /\ f <= 0
  BY DEF UpTo
<1>2. f \in Nat \ {0}
  BY <1>1, ReleasesAssumption
<1> QED BY <1>1, <1>2

\* Every recorded version is a number.
LEMMA RecordedIsNat == TypeOK => recorded \in Nat /\ Target \in Nat /\ Target > 0
BY VersionIsPositive DEF TypeOK, Target

\* A commit leaves the schema as it is or makes it that of the release.
LEMMA CommitIsWhole ==
    ASSUME IInv, pc = "apply", todo = {}
    PROVE  /\ Latest(release) \subseteq tables \cup ran
           /\ tables \cup ran = tables \/ (tables \subseteq Latest(release) /\ tables \cup ran = Latest(release))
<1> USE DEF IInv
<1>1. recorded \in Nat /\ Target \in Nat /\ recorded < Target
  BY RecordedIsNat DEF Running
<1>2. ran = Pending(recorded, Target)
  BY DEF Running
<1>3. UpTo(recorded) \subseteq tables
  BY DEF RecordedIsApplied
<1>4. Latest(release) = UpTo(recorded) \cup ran
  BY <1>1, <1>2, PendingFills DEF Latest, Target
<1>5. CASE tables = {}
  BY <1>3, <1>4, <1>5
<1>6. ASSUME NEW r \in Releases, tables = Latest(r)
      PROVE  tables \subseteq Latest(release) \/ Latest(release) \subseteq tables
  <2>1. SchemaVersion(r) \in Nat
    BY VersionIsPositive
  <2>2. CASE SchemaVersion(r) <= Target
    BY <1>1, <1>6, <2>1, <2>2, UpToGrows DEF Latest, Target
  <2>3. CASE Target <= SchemaVersion(r)
    BY <1>1, <1>6, <2>1, <2>3, UpToGrows DEF Latest, Target
  <2> QED BY <1>1, <2>1, <2>2, <2>3
<1>7. Latest(release) \subseteq tables \cup ran
  BY <1>3, <1>4
<1> QED BY <1>3, <1>4, <1>5, <1>6, <1>7 DEF Whole

-----------------------------------------------------------------------------
LEMMA InitInv == Init => IInv
<1> SUFFICES ASSUME Init PROVE IInv
  OBVIOUS
<1>1. recorded \in {0} \cup {SchemaVersion(r) : r \in Releases} /\ UpTo(recorded) \subseteq tables
  BY NothingUpToZero DEF Init, Latest
<1>2. tables \subseteq Files /\ initialized \in BOOLEAN
  BY DEF Init, Latest, UpTo
<1>3. TypeOK
  BY <1>1, <1>2, ReleasesAssumption DEF Init, TypeOK
<1> QED BY <1>1, <1>3 DEF Init, IInv, Whole, RecordedIsApplied, Fresh, Running, Provided, Started

\* The process ends: the transaction is gone and the database as it was.
LEMMA ExitInv ==
    ASSUME IInv, Exit, UNCHANGED release, faults' \in 0..MaxFaults
    PROVE  IInv'
<1>1. TypeOK' /\ Whole' /\ RecordedIsApplied' /\ Fresh' /\ Running' /\ Provided' /\ Started'
  BY DEF IInv, Exit, Goto, Database, TypeOK, Whole, RecordedIsApplied, Fresh, Running, Provided, Started,
         Latest
<1> QED BY <1>1 DEF IInv

LEMMA StepInv == IInv /\ [Next]_vars => IInv'
<1> SUFFICES ASSUME IInv, [Next]_vars PROVE IInv'
  OBVIOUS
<1> USE DEF Goto, Database, Transaction, Outside
<1>0. recorded \in Nat /\ Target \in Nat /\ Target > 0 /\ faults \in 0..MaxFaults
  BY RecordedIsNat DEF IInv, TypeOK
<1>1. CASE Start
  BY <1>1 DEF Start, IInv, TypeOK, Whole, RecordedIsApplied, Fresh, Running, Provided, Started, Latest
<1>2. CASE CheckInitialized
  BY <1>2 DEF CheckInitialized, IInv, TypeOK, Whole, RecordedIsApplied, Fresh, Running, Provided, Started, Latest
<1>3. CASE ApplyLatest
  <2>1. tables' \subseteq Files
    BY <1>3 DEF ApplyLatest, Latest, UpTo
  <2>2. recorded = 0
    BY <1>3 DEF ApplyLatest, IInv, Fresh
  <2>3. UpTo(recorded') \subseteq tables'
    BY <1>3, <2>2, NothingUpToZero DEF ApplyLatest
  <2>4. TypeOK'
    BY <1>3, <2>1 DEF ApplyLatest, IInv, TypeOK
  <2>5. Whole' /\ Fresh' /\ Running' /\ Provided' /\ Started'
    BY <1>3 DEF ApplyLatest, IInv, TypeOK, Whole, Fresh, Running, Provided, Started, Latest
  <2> QED BY <2>3, <2>4, <2>5 DEF IInv, RecordedIsApplied
<1>4. CASE UpdateCurrentSchemaVersion
  <2>1. recorded' = SchemaVersion(release) /\ release' = release /\ release \in Releases
    BY <1>4 DEF UpdateCurrentSchemaVersion, Target, IInv, TypeOK
  <2>2. UpTo(recorded') \subseteq tables'
    BY <1>4, <2>1 DEF UpdateCurrentSchemaVersion, IInv, Provided, Latest
  <2>3. TypeOK'
    BY <1>4, <2>1 DEF UpdateCurrentSchemaVersion, IInv, TypeOK
  <2>4. initialized
    BY <1>4 DEF UpdateCurrentSchemaVersion, IInv, Started
  <2>5. Whole' /\ Fresh' /\ Running' /\ Provided' /\ Started'
    BY <1>4, <2>4 DEF UpdateCurrentSchemaVersion, IInv, Whole, Fresh, Running, Provided, Started, Latest
  <2> QED BY <2>2, <2>3, <2>5 DEF IInv, RecordedIsApplied
<1>5. CASE CheckMinimum
  <2>1. CASE Minimum(recorded)
    BY <1>5, <2>1 DEF CheckMinimum, IInv, TypeOK, Whole, RecordedIsApplied, Fresh, Running, Provided, Started, Latest
  <2>2. CASE ~Minimum(recorded)
    BY <1>0, <1>5, <2>2, ExitInv DEF CheckMinimum
  <2> QED BY <2>1, <2>2
<1>6. CASE Compare
  <2>1. CASE recorded > Target /\ Exit
    BY <1>0, <1>6, <2>1, ExitInv DEF Compare
  <2>2. CASE recorded < Target /\ pc' = "apply" /\ todo' = Pending(recorded, Target) /\ UNCHANGED <<Database, ran>>
    <3>1. todo' \subseteq Files
      BY <2>2 DEF Pending
    <3>2. release' = release /\ Target' = Target
      BY <1>6 DEF Compare, Target
    <3>3. Running'
      BY <1>6, <2>2, <3>2 DEF Compare, IInv, Running, Pending
    <3> QED BY <1>6, <2>2, <3>1, <3>2, <3>3
            DEF Compare, IInv, TypeOK, Whole, RecordedIsApplied, Fresh, Provided, Started, Latest
  <2>3. CASE recorded = Target /\ pc' = "serving" /\ UNCHANGED <<Database, Transaction>>
    <3>1. Latest(release) \subseteq tables
      BY <2>3 DEF IInv, RecordedIsApplied, Latest, Target
    <3> QED BY <1>6, <2>3, <3>1
            DEF Compare, IInv, TypeOK, Whole, RecordedIsApplied, Fresh, Running, Provided, Started, Latest
  <2> QED BY <1>6, <2>1, <2>2, <2>3 DEF Compare
<1>7. CASE ApplyMigration
  <2>1. PICK f \in todo : IF f \in tables \ Repeatable THEN Exit
                          ELSE /\ todo' = todo \ {f} /\ ran' = ran \cup {f}
                               /\ UNCHANGED <<pc, Database>>
    BY <1>7 DEF ApplyMigration
  <2>2. CASE f \in tables \ Repeatable
    BY <1>0, <1>7, <2>1, <2>2, ExitInv DEF ApplyMigration
  <2>3. CASE f \notin tables \ Repeatable
    <3>1. todo' \cup ran' = todo \cup ran /\ todo' \subseteq Files /\ ran' \subseteq Files
      BY <2>1, <2>3 DEF IInv, TypeOK
    <3>2. pc = "apply" /\ Target' = Target /\ release' = release
      BY <1>7 DEF ApplyMigration, Target
    <3>3. Running'
      BY <2>1, <2>3, <3>1, <3>2 DEF IInv, Running, Pending
    <3> QED BY <1>7, <2>1, <2>3, <3>1, <3>2, <3>3
            DEF ApplyMigration, IInv, TypeOK, Whole, RecordedIsApplied, Fresh, Provided, Started, Latest
  <2> QED BY <2>2, <2>3
<1>8. CASE Commit
  <2>1. pc = "apply" /\ todo = {} /\ tables' = tables \cup ran /\ release \in Releases
    BY <1>8 DEF Commit, IInv, TypeOK
  <2>2. Whole'
    BY <1>8, <2>1, CommitIsWhole DEF Commit, IInv, Whole, Latest
  <2>3. Provided'
    BY <1>8, <2>1, CommitIsWhole DEF Commit, Provided, Latest
  <2>4. initialized
    BY <2>1 DEF IInv, Started
  <2> QED BY <1>8, <2>1, <2>2, <2>3, <2>4
          DEF Commit, IInv, TypeOK, RecordedIsApplied, Fresh, Running, Started
<1>9. CASE Shutdown
  BY <1>0, <1>9, ExitInv DEF Shutdown
<1>10. CASE Fail
  <2>1. faults' \in 0..MaxFaults
    BY <1>0, <1>10, ReleasesAssumption DEF Fail, Disturb
  <2> QED BY <1>10, <2>1, ExitInv DEF Fail
<1>11. ASSUME NEW r \in Releases, Install(r) PROVE IInv'
  <2>1. faults' \in 0..MaxFaults
    BY <1>0, <1>11, ReleasesAssumption DEF Install, Disturb
  <2> QED BY <1>11, <2>1 DEF Install, IInv, TypeOK, Whole, RecordedIsApplied, Fresh, Running, Provided, Started, Latest
<1>12. CASE UNCHANGED vars
  BY <1>12 DEF vars, IInv, TypeOK, Whole, RecordedIsApplied, Fresh, Running, Provided, Started, Latest, Target, Pending
<1> QED BY <1>1, <1>2, <1>3, <1>4, <1>5, <1>6, <1>7, <1>8, <1>9, <1>10, <1>11, <1>12
        DEF Next, Migrate

LEMMA AlwaysInv == Spec => []IInv
BY InitInv, StepInv, PTL DEF Spec

-----------------------------------------------------------------------------
\* The variables of the migrator keep their types.
THEOREM TypeCorrect == Spec => []TypeOK
<1>1. IInv => TypeOK
  BY DEF IInv
<1> QED BY <1>1, AlwaysInv, PTL

\* The version the database records is never ahead of its tables, whatever
\* fails, and whichever release is installed when.
THEOREM VersionNeverAhead == Spec => []RecordedIsApplied
<1>1. IInv => RecordedIsApplied
  BY DEF IInv
<1> QED BY <1>1, AlwaysInv, PTL

-----------------------------------------------------------------------------
\* The mapped initial state.
LEMMA InitRefines == Init => Upgrade!Init
BY DEF Init, Upgrade!Init

\* Every step is an upgrade, a start or a stop of the abstract schema, or
\* none of its business.
LEMMA StepRefines == IInv /\ [Next]_vars => [Upgrade!Next]_(Upgrade!upgradeVars)
<1> SUFFICES ASSUME IInv, [Next]_vars PROVE [Upgrade!Next]_(Upgrade!upgradeVars)
  OBVIOUS
<1> USE DEF Goto, Database, Transaction, Outside
<1>0. release \in Releases
  BY DEF IInv, TypeOK
<1>a. ASSUME tables' = tables, pc' # "serving"
      PROVE  [Upgrade!Next]_(Upgrade!upgradeVars)
  BY <1>a DEF Upgrade!Next, Upgrade!Stop, Upgrade!upgradeVars
<1>b. ASSUME tables' = tables, pc # "serving", pc' = "serving", release' = release,
             Latest(release) \subseteq tables
      PROVE  Upgrade!Next
  BY <1>0, <1>b DEF Upgrade!Next, Upgrade!Serve
<1>c. ASSUME tables \subseteq Latest(release), tables' = Latest(release),
             pc # "serving", pc' # "serving"
      PROVE  Upgrade!Next
  BY <1>0, <1>c DEF Upgrade!Next, Upgrade!Upgrade
<1>1. CASE Start \/ CheckInitialized \/ Shutdown \/ Fail \/ CheckMinimum \/ ApplyMigration
  BY <1>1, <1>a DEF Start, CheckInitialized, Shutdown, Fail, CheckMinimum, ApplyMigration, Exit
<1>2. CASE ApplyLatest
  BY <1>2, <1>c DEF ApplyLatest, IInv, Fresh
<1>3. CASE UpdateCurrentSchemaVersion
  BY <1>3, <1>a, <1>b DEF UpdateCurrentSchemaVersion, IInv, Provided
<1>4. CASE Compare
  <2>1. recorded = Target => Latest(release) \subseteq tables
    BY DEF IInv, RecordedIsApplied, Latest, Target
  <2> QED BY <1>4, <2>1, <1>a, <1>b DEF Compare, Exit
<1>5. CASE Commit
  <2>1. tables' = tables \/ (tables \subseteq Latest(release) /\ tables' = Latest(release))
    BY <1>5, CommitIsWhole DEF Commit
  <2> QED BY <1>5, <2>1, <1>a, <1>c DEF Commit
<1>6. ASSUME NEW r \in Releases, Install(r) PROVE [Upgrade!Next]_(Upgrade!upgradeVars)
  BY <1>6, <1>a DEF Install
<1>7. CASE UNCHANGED vars
  BY <1>7 DEF vars, Upgrade!upgradeVars
<1> QED BY <1>1, <1>2, <1>3, <1>4, <1>5, <1>6, <1>7 DEF Next, Migrate

\* The migrator implements what SchemaUpgrade promises: the schema only
\* moves from one whole release to a later one, never under a server, and
\* no server runs on a schema that lacks something its release needs.
THEOREM MigratorRefines == Spec => ImplementsUpgrade
BY InitRefines, StepRefines, AlwaysInv, PTL DEF Spec, ImplementsUpgrade, Upgrade!Spec

=============================================================================
