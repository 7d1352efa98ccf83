------------------------------ MODULE Migrator ------------------------------
(***************************************************************************)
(* The schema migrator (store/migrator.go), run by the server each time it *)
(* starts.  An operator installs releases, newer or older; the process may *)
(* die between any two steps, and any statement may fail, which ends it.   *)
(*                                                                         *)
(* A version is a number: ten times the minor release plus the patch.  A   *)
(* migration file is known by the version it leads to.                     *)
(***************************************************************************)
EXTENDS Integers, FiniteSets

CONSTANTS
    None,           \* nobody serving
    Releases,       \* the minor releases, as numbers
    Files,          \* the versions of the migration files
    Repeatable,     \* files that may be run twice (IF NOT EXISTS, DROP ... IF EXISTS)
    MinVersion,     \* the oldest version that can be upgraded, 0.22.0
    MaxFaults       \* bound on failures, crashes and releases installed

\* The files of a release, and the last of them.
FilesOf(r) == {f \in Files : f \div 10 = r}

ASSUME ReleasesAssumption ==
    /\ Releases \subseteq Nat \ {0}
    /\ Files \subseteq Nat \ {0}
    /\ Repeatable \subseteq Files
    /\ MinVersion \in Nat \ {0}
    /\ MaxFaults \in Nat
    /\ None \notin Releases

ASSUME LastFileAssumption ==
    \A r \in Releases : FilesOf(r) # {} => \E l \in FilesOf(r) : \A f \in FilesOf(r) : f <= l

VARIABLES
    release,    \* the release installed
    initialized,    \* there are tables
    tables,     \* the migrations they have
    recorded,   \* the schema version in system_setting, 0 when there is none
    pc,         \* where the process is
    todo,       \* the files still to run in the open transaction
    ran,        \* the files run in it
    faults      \* failures, crashes and installations so far

vars == <<release, initialized, tables, recorded, pc, todo, ran, faults>>

-----------------------------------------------------------------------------
\* GetCurrentSchemaVersion: the last file of the release, or its patch 0.
SchemaVersion(r) ==
    IF FilesOf(r) = {} THEN 10 * r
    ELSE CHOOSE l \in FilesOf(r) : \A f \in FilesOf(r) : f <= l

Target == SchemaVersion(release)

UpTo(v) == {f \in Files : f <= v}

\* LATEST.sql of a release holds all that its files add up to.
Latest(r) == UpTo(SchemaVersion(r))

\* Mutant of Pending: the files of the version that is installed are left out.
PendingBelow(from, to) == {f \in Files : f > from /\ f < to}

\* shouldApplyMigration
Pending(from, to) == {f \in Files : f > from /\ f <= to}

\* A database is new, of some release, or older than version tracking.
Init ==
    /\ release \in Releases
    /\ \/ initialized \in BOOLEAN /\ tables = {} /\ recorded = 0
       \/ \E r \in Releases : initialized = TRUE /\ tables = Latest(r) /\ recorded = SchemaVersion(r)
    /\ pc = "down"
    /\ todo = {} /\ ran = {}
    /\ faults = 0

Goto(label) == pc' = label
Database == <<initialized, tables, recorded>>
Transaction == <<todo, ran>>
Outside == <<release, faults>>

\* An error is returned to main, which ends the process; an open
\* transaction is rolled back.
Exit == Goto("down") /\ todo' = {} /\ ran' = {} /\ UNCHANGED Database

Start ==
    /\ pc = "down"
    /\ Goto("check")
    /\ UNCHANGED <<Database, Transaction, Outside>>

\* preMigrate
CheckInitialized ==
    /\ pc = "check"
    /\ Goto(IF initialized THEN "minimum" ELSE "latest")
    /\ UNCHANGED <<Database, Transaction, Outside>>

ApplyLatest ==
    /\ pc = "latest"
    /\ initialized' = TRUE /\ tables' = Latest(release)
    /\ Goto("recordNew")
    /\ UNCHANGED <<recorded, Transaction, Outside>>

\* updateCurrentSchemaVersion, after the first installation and after the
\* migrations.
UpdateCurrentSchemaVersion ==
    /\ \/ pc = "recordNew" /\ Goto("minimum")
       \/ pc = "recordUp" /\ Goto("serving")
    /\ recorded' = Target
    /\ UNCHANGED <<initialized, tables, Transaction, Outside>>

\* Mutant of Minimum: the oldest version that can be upgraded is refused.
MinimumAlone(v) == v > MinVersion

\* checkMinimumUpgradeVersion
Minimum(v) == v >= MinVersion

CheckMinimum ==
    /\ pc = "minimum"
    /\ IF Minimum(recorded)
       THEN Goto("compare") /\ UNCHANGED <<Database, Transaction>>
       ELSE Exit
    /\ UNCHANGED Outside

\* Migrate: refuse a downgrade, apply what is missing, or go on.
Compare ==
    /\ pc = "compare"
    /\ \/ recorded > Target /\ Exit
       \/ /\ recorded < Target
          /\ Goto("apply")
          /\ todo' = Pending(recorded, Target)
          /\ UNCHANGED <<Database, ran>>
       \/ recorded = Target /\ Goto("serving") /\ UNCHANGED <<Database, Transaction>>
    /\ UNCHANGED Outside

\* Mutant of ApplyMigration: every file is committed by itself.
ApplyWithoutTransaction ==
    /\ pc = "apply"
    /\ \E f \in todo :
         /\ \A g \in todo : f <= g
         /\ IF f \in tables \ Repeatable
            THEN Exit
            ELSE /\ todo' = todo \ {f} /\ tables' = tables \cup {f}
                 /\ UNCHANGED <<pc, initialized, recorded, ran>>
    /\ UNCHANGED Outside

\* applyMigrations: the next file runs in the transaction.  A file that is
\* not repeatable fails on tables that have it already.
ApplyMigration ==
    /\ pc = "apply"
    /\ \E f \in todo :
         /\ \A g \in todo : f <= g
         /\ IF f \in tables \ Repeatable
            THEN Exit
            ELSE /\ todo' = todo \ {f} /\ ran' = ran \cup {f}
                 /\ UNCHANGED <<pc, Database>>
    /\ UNCHANGED Outside

Commit ==
    /\ pc = "apply" /\ todo = {}
    /\ tables' = tables \cup ran
    /\ ran' = {}
    /\ Goto("recordUp")
    /\ UNCHANGED <<initialized, recorded, todo, Outside>>

Shutdown ==
    /\ pc = "serving"
    /\ Exit
    /\ UNCHANGED Outside

-----------------------------------------------------------------------------
Disturb == faults < MaxFaults /\ faults' = faults + 1

\* A statement fails or the process dies.
Fail ==
    /\ pc \notin {"down", "serving"}
    /\ Disturb
    /\ Exit
    /\ UNCHANGED release

\* The operator installs another release.
Install(r) ==
    /\ pc = "down"
    /\ Disturb
    /\ release' = r
    /\ UNCHANGED <<pc, Database, Transaction>>

Migrate ==
    \/ Start \/ CheckInitialized \/ ApplyLatest \/ UpdateCurrentSchemaVersion
    \/ CheckMinimum \/ Compare \/ ApplyMigration \/ Commit

Next == Migrate \/ Shutdown \/ Fail \/ \E r \in Releases : Install(r)

Spec == Init /\ [][Next]_vars

\* A process that was started runs on; a server that is down is started again.
FairSpec == Spec /\ WF_vars(Migrate)

-----------------------------------------------------------------------------
\* Every variable holds what the code can store in it.
TypeOK ==
    /\ release \in Releases
    /\ initialized \in BOOLEAN /\ tables \subseteq Files
    /\ recorded \in {0} \cup {SchemaVersion(r) : r \in Releases}
    /\ pc \in {"down", "check", "latest", "recordNew", "minimum", "compare", "apply",
               "recordUp", "serving"}
    /\ todo \subseteq Files /\ ran \subseteq Files
    /\ faults \in 0..MaxFaults

\* The version in the database is never ahead of its tables: no migration is
\* ever skipped because an earlier run recorded it too soon or was rolled
\* back after it did (applyMigrations, updateCurrentSchemaVersion).
RecordedIsApplied == UpTo(recorded) \subseteq tables

\* The migrator implements SchemaUpgrade under every order of failures,
\* crashes, upgrades and rollbacks.
Upgrade == INSTANCE SchemaUpgrade
    WITH Needs <- [r \in Releases |-> Latest(r)], Nobody <- None,
         schema <- tables,
         serving <- IF pc = "serving" THEN release ELSE None

ImplementsUpgrade == Upgrade!Spec

\* The one state a start cannot always get out of: the transaction is
\* committed and its version is not recorded.
Torn == initialized /\ UpTo(recorded) # tables

\* An installation that is not too old, not newer than the release and was
\* not left between commit and record comes up whatever failed before it.
ComesUp == []<>(pc = "serving" \/ Torn \/ recorded > Target
                \/ (initialized /\ recorded < MinVersion))

=============================================================================
