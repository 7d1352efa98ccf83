------------------------- MODULE ProvisioningProofs -------------------------
(***************************************************************************)
(* What the row of a user's mapping says, for any number of requests,      *)
(* models, faults and changes of preference.                               *)
(***************************************************************************)
EXTENDS Provisioning, TLAPS

(* Where EnsureLLMConfig is called from; the model is known before an        *)
(* assistant is made; the steps of a preference have one to set.             *)
Shape(j) ==
  /\ j.back \in {"idle", "cache", "create", "prefRemote"}
  /\ j.pc = "create" \/ j.back = "create" => j.llm \in Models
  /\ j.pc \in {"prefer", "prefReread", "prefRemote"} \/ j.back = "prefRemote"
       => j.goal = "prefer"
  /\ j.goal = "prefer" => j.want \in Models

GoodJob == {j \in Job : Shape(j)}

Flags ==
  /\ user \in BOOLEAN /\ account \in BOOLEAN /\ provider \in BOOLEAN
  /\ defaults \in BOOLEAN /\ calm \in BOOLEAN
Counts == rows \in Nat /\ keys \in Nat /\ made \in Nat /\ faults \in Nat /\ changes \in Nat
Records ==
  /\ mapping \in Mapping \cup {None} /\ cache \in Nat
  /\ assistant \in Assistant \cup {None}
Jobs == job \in [Procs -> GoodJob]

TypeInv == Flags /\ Counts /\ Records /\ Jobs

(* What a goroutine relies on: the provider was configured before the row is *)
(* marked, the assistant is there before its id is stored, only a deleted    *)
(* user is purged, and a row is only given a key.                            *)
Grounds(j) ==
  /\ j.pc \in {"defaults", "flag"} => provider
  /\ user /\ j.pc = "saveId" => assistant # None /\ assistant.id = j.id
  /\ j.pc \in {"purge", "purgeRemote", "purgeRow"} => ~user
  /\ j.pc = "save" /\ j.snap # None => j.client # 0

AllGrounds == \A p \in Procs : Grounds(job[p])

IInv == TypeInv /\ AllGrounds /\ RowIsTrue

-----------------------------------------------------------------------------
(* Types *)

LEMMA TypeParts == TypeInv => TypeOK
<1> SUFFICES ASSUME TypeInv PROVE TypeOK
  OBVIOUS
<1>1. job \in [Procs -> Job]
  BY DEF TypeInv, Jobs, GoodJob
<1> QED BY <1>1, Zenon DEF TypeOK, TypeInv, Flags, Counts, Records

(* One goroutine at a time goes on, to a job of the right shape. *)
Moves(p) == \E j \in GoodJob : Become(p, j)

LEMMA MovesKeepJobs ==
  ASSUME Jobs, NEW p \in Procs, Moves(p)
  PROVE  Jobs'
BY DEF Jobs, Moves, Become

LEMMA IdleIsGood == Idle \in GoodJob
BY ConstantsOK DEF Idle, GoodJob, Shape, Job, PC

LEMMA EndMoves ==
  ASSUME NEW p \in Procs, End(p)
  PROVE  Moves(p)
BY IdleIsGood DEF End, Moves

LEMMA GotoIsGood ==
  ASSUME NEW j \in GoodJob, NEW pc \in PC,
         pc = "create" => j.llm \in Models,
         pc \in {"prefer", "prefReread", "prefRemote"} => j.goal = "prefer"
  PROVE  [j EXCEPT !.pc = pc] \in GoodJob
BY DEF GoodJob, Shape, Job

LEMMA GotoMoves ==
  ASSUME Jobs, NEW p \in Procs, NEW pc \in PC, Goto(p, pc),
         pc = "create" => job[p].llm \in Models,
         pc \in {"prefer", "prefReread", "prefRemote"} => job[p].goal = "prefer"
  PROVE  Moves(p)
<1>1. job[p] \in GoodJob
  BY DEF Jobs
<1> QED BY <1>1, GotoIsGood DEF Goto, Moves

LEMMA BackMoves ==
  ASSUME Jobs, NEW p \in Procs, Back(p)
  PROVE  Moves(p)
<1>1. job[p] \in Job /\ Shape(job[p])
  BY DEF Jobs, GoodJob
<1>2. job[p].back \in PC
  BY <1>1 DEF Job
<1> QED BY <1>1, <1>2, GotoMoves DEF Back, Shape

LEMMA FinishMoves ==
  ASSUME Jobs, NEW p \in Procs, Finish(p)
  PROVE  Moves(p)
<1>1. CASE job[p].goal = "prefer"
  BY <1>1, GotoMoves DEF Finish, PC
<1>2. CASE job[p].goal # "prefer"
  BY <1>2, EndMoves DEF Finish
<1> QED BY <1>1, <1>2

LEMMA WithClientIsGood ==
  ASSUME NEW j \in GoodJob, NEW c \in Nat
  PROVE  [j EXCEPT !.pc = "assist", !.client = c, !.snap = None] \in GoodJob
<1>1. [j EXCEPT !.pc = "assist", !.client = c, !.snap = None] \in Job
  BY DEF GoodJob, Job, PC
<1>2. Shape([j EXCEPT !.pc = "assist", !.client = c, !.snap = None])
  BY DEF GoodJob, Shape, Job
<1> QED BY <1>1, <1>2 DEF GoodJob

LEMMA GotMoves ==
  ASSUME Jobs, NEW p \in Procs, NEW c \in Nat, Got(p, c)
  PROVE  Moves(p)
<1>1. CASE job[p].goal = "client"
  BY <1>1, EndMoves DEF Got
<1>2. CASE job[p].goal # "client"
  <2>1. job[p] \in GoodJob
    BY DEF Jobs
  <2>2. [job[p] EXCEPT !.pc = "assist", !.client = c, !.snap = None] \in GoodJob
    BY <2>1, WithClientIsGood
  <2> QED BY <1>2, <2>2 DEF Got, Moves
<1> QED BY <1>1, <1>2

LEMMA EnsureLLMMoves ==
  ASSUME NEW p \in Procs, NEW j \in GoodJob, NEW back \in {"cache", "create", "prefRemote"},
         back = "create" => j.llm \in Models,
         back = "prefRemote" => j.goal = "prefer",
         EnsureLLM(p, j, back)
  PROVE  Moves(p)
<1>1. [j EXCEPT !.pc = "llm", !.back = back] \in GoodJob
  BY ZenonT(60) DEF GoodJob, Shape, Job, PC
<1> QED BY <1>1 DEF EnsureLLM, Moves

(* The jobs of each kind of step. *)
LEMMA StartsMove ==
  ASSUME NEW p \in Procs, Request(p)
  PROVE  Moves(p)
<1>1. ASSUME NEW pc \in {"lookup", "purge"}
      PROVE  [Idle EXCEPT !.pc = pc] \in GoodJob
  BY IdleIsGood DEF GoodJob, Shape, Job, PC
<1>2. [Idle EXCEPT !.pc = "lookup", !.goal = "resources"] \in GoodJob
  BY ConstantsOK DEF Idle, GoodJob, Shape, Job, PC
<1>3. ASSUME NEW m \in Models
      PROVE  [Idle EXCEPT !.pc = "prefer", !.goal = "prefer", !.want = m] \in GoodJob
  BY ConstantsOK DEF Idle, GoodJob, Shape, Job, PC
<1>4. CASE GetClientForUser(p)
  BY <1>4, <1>1 DEF GetClientForUser, Start, Moves
<1>5. CASE EnsureUserResources(p)
  BY <1>5, <1>2 DEF EnsureUserResources, Start, Moves
<1>6. CASE SetPreference(p)
  BY <1>6, <1>3 DEF SetPreference, Start, Moves
<1>7. CASE DeleteUser(p)
  BY <1>7, <1>1 DEF DeleteUser, Start, Moves
<1> QED BY <1>4, <1>5, <1>6, <1>7 DEF Request

(* The row a goroutine takes along. *)
LEMMA WithSnapIsGood ==
  ASSUME NEW j \in GoodJob, NEW pc \in {"login", "purgeRemote"}, NEW m \in Mapping
  PROVE  [j EXCEPT !.pc = pc, !.snap = m] \in GoodJob
<1>1. [j EXCEPT !.pc = pc, !.snap = m] \in Job
  BY DEF GoodJob, Job, PC
<1>2. Shape([j EXCEPT !.pc = pc, !.snap = m])
  BY DEF GoodJob, Shape, Job
<1> QED BY <1>1, <1>2 DEF GoodJob

LEMMA WithIdIsGood ==
  ASSUME NEW j \in GoodJob, NEW pc \in {"llmLogin", "saveId"}, NEW id \in Nat
  PROVE  [j EXCEPT !.pc = pc, !.id = id] \in GoodJob
<1>1. [j EXCEPT !.pc = pc, !.id = id] \in Job
  BY DEF GoodJob, Job, PC
<1>2. Shape([j EXCEPT !.pc = pc, !.id = id])
  BY DEF GoodJob, Shape, Job
<1> QED BY <1>1, <1>2 DEF GoodJob

LEMMA WithKeyIsGood ==
  ASSUME NEW j \in GoodJob, NEW key \in Nat
  PROVE  [j EXCEPT !.pc = "save", !.client = key] \in GoodJob
<1>1. [j EXCEPT !.pc = "save", !.client = key] \in Job
  BY DEF GoodJob, Job, PC
<1>2. Shape([j EXCEPT !.pc = "save", !.client = key])
  BY DEF GoodJob, Shape, Job
<1> QED BY <1>1, <1>2 DEF GoodJob

LEMMA RegistrationMoves ==
  ASSUME TypeInv, NEW p \in Procs,
         Lookup(p) \/ ProvisionUser(p) \/ Register(p) \/ Login(p) \/ GenerateAPIKey(p)
           \/ SaveMapping(p) \/ CacheClient(p)
  PROVE  Moves(p)
<1> USE DEF TypeInv
<1>0. job[p] \in GoodJob /\ job[p].client \in Nat
  BY DEF Jobs, GoodJob, Job
<1>1. CASE Lookup(p)
  BY <1>1, GotMoves, GotoMoves DEF Lookup, Records, PC
<1>2. CASE ProvisionUser(p)
  <2>1. CASE mapping # None /\ EnsureLLM(p, [job[p] EXCEPT !.client = mapping.key], "cache")
    <3>1. mapping.key \in Nat
      BY <2>1 DEF Records, Mapping
    <3>2. [job[p] EXCEPT !.client = mapping.key] \in GoodJob
      BY <1>0, <3>1 DEF GoodJob, Shape, Job
    <3> QED BY <2>1, <3>2, EnsureLLMMoves
  <2>2. CASE mapping # None /\ Become(p, [job[p] EXCEPT !.pc = "login", !.snap = mapping])
    BY <2>2, <1>0, WithSnapIsGood DEF Records, Moves
  <2>3. CASE Goto(p, "register")
    BY <2>3, GotoMoves DEF PC
  <2>4. CASE End(p)
    BY <2>4, EndMoves
  <2> QED BY <1>2, <2>1, <2>2, <2>3, <2>4 DEF ProvisionUser
<1>3. CASE Register(p) \/ Login(p)
  BY <1>3, GotoMoves, EndMoves DEF Register, Login, PC
<1>4. CASE GenerateAPIKey(p)
  <2>0. keys + 1 \in Nat
    BY DEF Counts
  <2>1. [job[p] EXCEPT !.pc = "save", !.client = keys + 1] \in GoodJob
    BY <1>0, <2>0, WithKeyIsGood
  <2>2. CASE Become(p, [job[p] EXCEPT !.pc = "save", !.client = keys + 1])
    BY <2>1, <2>2 DEF Moves
  <2> QED BY <1>4, <2>2, GotoMoves, EndMoves DEF GenerateAPIKey, PC
<1>5. CASE SaveMapping(p)
  BY <1>0, <1>5, EndMoves, EnsureLLMMoves DEF SaveMapping
<1>6. CASE CacheClient(p)
  BY <1>0, <1>6, GotMoves DEF CacheClient
<1> QED BY <1>1, <1>2, <1>3, <1>4, <1>5, <1>6

LEMMA ConfigurationMoves ==
  ASSUME TypeInv, NEW p \in Procs,
         LLMRead(p) \/ LLMLogin(p) \/ SetLLMAPIKey(p) \/ SetTenantInfo(p) \/ MarkConfigured(p)
  PROVE  Moves(p)
<1> USE DEF TypeInv
<1>0. job[p] \in GoodJob
  BY DEF Jobs
<1>1. CASE LLMRead(p)
  <2>1. CASE mapping # None /\ Become(p, [job[p] EXCEPT !.pc = "llmLogin", !.id = mapping.id])
    <3>1. mapping.id \in Nat
      BY <2>1 DEF Records, Mapping
    <3>2. [job[p] EXCEPT !.pc = "llmLogin", !.id = mapping.id] \in GoodJob
      BY <1>0, <3>1, WithIdIsGood
    <3> QED BY <2>1, <3>2 DEF Moves
  <2>2. CASE Back(p)
    BY <2>2, BackMoves
  <2> QED BY <1>1, <2>1, <2>2 DEF LLMRead
<1>2. CASE LLMLogin(p) \/ SetLLMAPIKey(p)
  BY <1>2, GotoMoves, BackMoves DEF LLMLogin, SetLLMAPIKey, PC
<1>3. CASE SetTenantInfo(p)
  BY <1>3, GotoMoves DEF SetTenantInfo, PC
<1>4. CASE MarkConfigured(p)
  BY <1>4, BackMoves DEF MarkConfigured
<1> QED BY <1>1, <1>2, <1>3, <1>4

(* The assistant is made with the preferred model or the default. *)
LEMMA ChosenIsModel ==
  ASSUME NEW m \in Mapping
  PROVE  ChosenLLM(m) \in Models
BY ConstantsOK DEF ChosenLLM, Mapping

LEMMA AssistantMoves ==
  ASSUME TypeInv, NEW p \in Procs,
         EnsureAssistant(p) \/ CreateAssistant(p) \/ RecoverAssistant(p) \/ SaveAssistantID(p)
  PROVE  Moves(p)
<1> USE DEF TypeInv
<1>0. job[p] \in GoodJob
  BY DEF Jobs
<1>1. CASE EnsureAssistant(p)
  <2> DEFINE j == [job[p] EXCEPT !.snap = mapping, !.llm = ChosenLLM(mapping)]
  <2>1. CASE mapping # None /\ EnsureLLM(p, j, "create")
    <3>1. mapping \in Mapping /\ ChosenLLM(mapping) \in Models
      BY <2>1, ChosenIsModel DEF Records
    <3>2. j \in Job
      BY <1>0, <3>1 DEF GoodJob, Job
    <3>3. Shape(j) /\ j.llm \in Models
      BY <1>0, <3>1 DEF GoodJob, Job, Shape
    <3>4. j \in GoodJob
      BY <3>2, <3>3 DEF GoodJob
    <3> HIDE DEF j
    <3> QED BY <2>1, <3>3, <3>4, EnsureLLMMoves
  <2>2. CASE Finish(p)
    BY <2>2, FinishMoves
  <2> QED BY <1>1, <2>1, <2>2 DEF EnsureAssistant
<1>2. ASSUME NEW id \in Nat, Become(p, [job[p] EXCEPT !.pc = "saveId", !.id = id])
      PROVE  Moves(p)
  <2>1. [job[p] EXCEPT !.pc = "saveId", !.id = id] \in GoodJob
    BY <1>0, WithIdIsGood
  <2> QED BY <1>2, <2>1 DEF Moves
<1>3. CASE CreateAssistant(p)
  <2>0. made + 1 \in Nat
    BY DEF Counts
  <2>1. CASE Become(p, [job[p] EXCEPT !.pc = "saveId", !.id = made + 1])
    BY <1>2, <2>0, <2>1
  <2>2. CASE Goto(p, "recover") \/ Finish(p)
    BY <2>2, GotoMoves, FinishMoves DEF PC
  <2> QED BY <1>3, <2>1, <2>2 DEF CreateAssistant
<1>4. CASE RecoverAssistant(p)
  BY <1>2, <1>4, FinishMoves DEF RecoverAssistant, Records, Assistant
<1>5. CASE SaveAssistantID(p)
  BY <1>5, FinishMoves DEF SaveAssistantID
<1> QED BY <1>1, <1>3, <1>4, <1>5

LEMMA PreferenceMoves ==
  ASSUME TypeInv, NEW p \in Procs,
         PreferRead(p) \/ PreferReread(p) \/ PreferRemote(p) \/ PreferSave(p)
  PROVE  Moves(p)
<1> USE DEF TypeInv
<1>0. job[p] \in GoodJob
  BY DEF Jobs
<1>1. ASSUME mapping # None, At(p, "prefer") \/ At(p, "prefReread"), Prefer(p) PROVE Moves(p)
  <2>1. mapping \in Mapping /\ job[p].goal = "prefer"
    BY <1>0, <1>1 DEF Records, GoodJob, Shape, At
  <2> DEFINE j == [job[p] EXCEPT !.snap = mapping]
  <2>2. j \in GoodJob /\ j.goal = "prefer"
    BY <1>0, <2>1 DEF GoodJob, Shape, Job
  <2>3. [j EXCEPT !.pc = "prefRemote"] \in GoodJob
    BY <2>2, GotoIsGood DEF PC
  <2> HIDE DEF j
  <2>4. Become(p, [j EXCEPT !.pc = "prefRemote"]) \/ EnsureLLM(p, j, "prefRemote")
    BY <1>1 DEF Prefer, j
  <2> QED BY <2>2, <2>3, <2>4, EnsureLLMMoves DEF Moves
<1>2. CASE PreferRead(p) \/ PreferReread(p)
  BY <1>1, <1>2, GotoMoves, EndMoves DEF PreferRead, PreferReread, PC
<1>3. CASE PreferRemote(p)
  BY <1>3, GotoMoves, EndMoves DEF PreferRemote, PC
<1>4. CASE PreferSave(p)
  <2>1. [Idle EXCEPT !.pc = "lookup", !.goal = "resources"] \in GoodJob
    BY ConstantsOK DEF Idle, GoodJob, Shape, Job, PC
  <2> QED BY <1>4, <2>1, EndMoves DEF PreferSave, Moves
<1> QED BY <1>2, <1>3, <1>4

LEMMA PurgeMoves ==
  ASSUME TypeInv, NEW p \in Procs, PurgeRead(p) \/ PurgeRemote(p) \/ PurgeRow(p)
  PROVE  Moves(p)
<1>0. job[p] \in GoodJob
  BY DEF TypeInv, Jobs
<1> QED BY <1>0, WithSnapIsGood, GotoMoves, EndMoves
     DEF PurgeRead, PurgeRemote, PurgeRow, TypeInv, Records, Moves, PC

LEMMA StepsMove ==
  ASSUME TypeInv, NEW p \in Procs, Step(p)
  PROVE  Moves(p)
BY RegistrationMoves, ConfigurationMoves, AssistantMoves, PreferenceMoves, PurgeMoves, Zenon
   DEF Step

LEMMA FlagsType ==
  ASSUME Flags, [Next]_vars
  PROVE  Flags'
<1> USE DEF Flags, NoFault, Fault, Start
<1>1. ASSUME NEW p \in Procs, Request(p) PROVE Flags'
  BY <1>1, Zenon DEF Request, GetClientForUser, EnsureUserResources, SetPreference, DeleteUser,
     local, remote
<1>2. ASSUME NEW p \in Procs, Lookup(p) \/ ProvisionUser(p) \/ Register(p) \/ Login(p)
      PROVE Flags'
  BY <1>2 DEF Lookup, ProvisionUser, Register, Login, local, remote
<1>3. ASSUME NEW p \in Procs, GenerateAPIKey(p) \/ SaveMapping(p) \/ CacheClient(p) PROVE Flags'
  BY <1>3 DEF GenerateAPIKey, SaveMapping, CacheClient, local, remote
<1>4. ASSUME NEW p \in Procs, LLMRead(p) \/ LLMLogin(p) PROVE Flags'
  BY <1>4 DEF LLMRead, LLMLogin, local, remote
<1>5. ASSUME NEW p \in Procs, SetLLMAPIKey(p) \/ SetTenantInfo(p) \/ MarkConfigured(p)
      PROVE Flags'
  BY <1>5 DEF SetLLMAPIKey, SetTenantInfo, MarkConfigured, local, remote
<1>6. ASSUME NEW p \in Procs, EnsureAssistant(p) \/ CreateAssistant(p) PROVE Flags'
  BY <1>6 DEF EnsureAssistant, CreateAssistant, local, remote
<1>7. ASSUME NEW p \in Procs, RecoverAssistant(p) \/ SaveAssistantID(p) PROVE Flags'
  BY <1>7 DEF RecoverAssistant, SaveAssistantID, local, remote
<1>8. ASSUME NEW p \in Procs, PreferRead(p) \/ PreferReread(p) PROVE Flags'
  BY <1>8 DEF PreferRead, PreferReread, local, remote
<1>9. ASSUME NEW p \in Procs, PreferRemote(p) \/ PreferSave(p) PROVE Flags'
  BY <1>9 DEF PreferRemote, PreferSave, local, remote
<1>10. ASSUME NEW p \in Procs, PurgeRead(p) \/ PurgeRemote(p) \/ PurgeRow(p) PROVE Flags'
  BY <1>10 DEF PurgeRead, PurgeRemote, PurgeRow, local, remote
<1>11. CASE Crash \/ UNCHANGED vars
  BY <1>11, Zenon DEF Crash, vars, local, remote
<1> HIDE DEF Flags, NoFault, Fault, Start
<1> QED BY <1>1, <1>2, <1>3, <1>4, <1>5, <1>6, <1>7, <1>8, <1>9, <1>10, <1>11, Zenon
     DEF Next, Step

LEMMA CountsType ==
  ASSUME Counts, [Next]_vars
  PROVE  Counts'
<1> USE DEF Counts, NoFault, Fault, Start
<1>0. ASSUME NEW kind, NoFault \/ Fault(kind) PROVE faults' \in Nat
  BY <1>0
<1>1. ASSUME NEW p \in Procs, Request(p) PROVE Counts'
  <2>1. CASE SetPreference(p)
    <3>1. changes' \in Nat
      BY <2>1 DEF SetPreference
    <3> QED BY <2>1, <3>1, Zenon DEF SetPreference, local, remote
  <2>2. CASE GetClientForUser(p) \/ EnsureUserResources(p) \/ DeleteUser(p)
    BY <2>2, Zenon DEF GetClientForUser, EnsureUserResources, DeleteUser, local, remote
  <2> QED BY <1>1, <2>1, <2>2 DEF Request
<1>2. ASSUME NEW p \in Procs, Lookup(p) \/ ProvisionUser(p) \/ Register(p) \/ Login(p)
      PROVE Counts'
  <2>1. CASE Lookup(p) \/ ProvisionUser(p)
    BY <2>1 DEF Lookup, ProvisionUser, local, remote
  <2>2. CASE Register(p) \/ Login(p)
    BY <1>0, <2>2, Zenon DEF Register, Login, local, remote
  <2> QED BY <1>2, <2>1, <2>2
<1>3. ASSUME NEW p \in Procs, GenerateAPIKey(p) \/ SaveMapping(p) \/ CacheClient(p)
      PROVE Counts'
  BY <1>3 DEF GenerateAPIKey, SaveMapping, CacheClient, Insert, local, remote
<1>4. ASSUME NEW p \in Procs, LLMRead(p) \/ LLMLogin(p) PROVE Counts'
  BY <1>4 DEF LLMRead, LLMLogin, local, remote
<1>5. ASSUME NEW p \in Procs, SetLLMAPIKey(p) \/ SetTenantInfo(p) \/ MarkConfigured(p)
      PROVE Counts'
  <2>1. CASE SetLLMAPIKey(p)
    BY <1>0, <2>1, Zenon DEF SetLLMAPIKey, local, remote
  <2>2. CASE SetTenantInfo(p) \/ MarkConfigured(p)
    BY <1>0, <2>2, Zenon DEF SetTenantInfo, MarkConfigured, local, remote
  <2> QED BY <1>5, <2>1, <2>2
<1>6. ASSUME NEW p \in Procs, EnsureAssistant(p) \/ CreateAssistant(p) PROVE Counts'
  BY <1>6 DEF EnsureAssistant, CreateAssistant, NewAssistant, local, remote
<1>7. ASSUME NEW p \in Procs, RecoverAssistant(p) \/ SaveAssistantID(p) PROVE Counts'
  BY <1>7 DEF RecoverAssistant, SaveAssistantID, local, remote
<1>8. ASSUME NEW p \in Procs, PreferRead(p) \/ PreferReread(p) PROVE Counts'
  BY <1>8 DEF PreferRead, PreferReread, local, remote
<1>9. ASSUME NEW p \in Procs, PreferRemote(p) \/ PreferSave(p) PROVE Counts'
  BY <1>9 DEF PreferRemote, PreferSave, local, remote
<1>10. ASSUME NEW p \in Procs, PurgeRead(p) \/ PurgeRemote(p) \/ PurgeRow(p) PROVE Counts'
  BY <1>10 DEF PurgeRead, PurgeRemote, PurgeRow, local, remote
<1>11. CASE Crash \/ UNCHANGED vars
  BY <1>11 DEF Crash, vars, local, remote
<1> HIDE DEF Counts, NoFault, Fault, Start
<1> QED BY <1>1, <1>2, <1>3, <1>4, <1>5, <1>6, <1>7, <1>8, <1>9, <1>10, <1>11, Zenon
     DEF Next, Step

(* Each UPDATE leaves a row, or none. *)
LEMMA UpdateType ==
  ASSUME Records, NEW id, NEW new, UpdateMapping(id, new), mapping # None => new \in Mapping
  PROVE  mapping' \in Mapping \cup {None}
BY DEF Records, UpdateMapping, Holds

LEMMA RecordsType ==
  ASSUME TypeInv, [Next]_vars
  PROVE  Records'
<1> USE DEF TypeInv
<1>0. ASSUME NEW p \in Procs
      PROVE /\ job[p] \in Job /\ Shape(job[p])
            /\ job[p].client \in Nat /\ job[p].id \in Nat /\ job[p].want \in Models \cup {None}
  BY DEF Jobs, GoodJob, Job
<1>1. CASE UNCHANGED <<mapping, cache, assistant>>
  BY <1>1 DEF Records
<1>2. ASSUME NEW p \in Procs, SaveMapping(p) PROVE Records'
  <2>1. NewMapping(job[p].client) \in Mapping
    BY <1>0 DEF NewMapping, Mapping, Counts
  <2>2. mapping # None => [mapping EXCEPT !.key = job[p].client] \in Mapping
    BY <1>0 DEF Records, Mapping
  <2>3. mapping' \in Mapping \cup {None}
    BY <1>2, <2>1, <2>2, UpdateType DEF SaveMapping, Insert, Records
  <2> QED BY <1>2, <2>3 DEF SaveMapping, Records, remote
<1>3. ASSUME NEW p \in Procs, CacheClient(p) PROVE Records'
  BY <1>0, <1>3 DEF CacheClient, Records, remote
<1>4. ASSUME NEW p \in Procs, MarkConfigured(p) PROVE Records'
  <2>1. mapping # None => [mapping EXCEPT !.llm = TRUE] \in Mapping
    BY DEF Records, Mapping
  <2>2. mapping' \in Mapping \cup {None}
    BY <1>4, <2>1, UpdateType DEF MarkConfigured, Records
  <2> QED BY <1>4, <2>2 DEF MarkConfigured, Records, remote
<1>5. ASSUME NEW p \in Procs, CreateAssistant(p) PROVE Records'
  <2>1. job[p].llm \in Models
    BY <1>0, <1>5 DEF CreateAssistant, At, Shape
  <2>2. NewAssistant(p) => assistant' \in Assistant
    BY <2>1 DEF NewAssistant, Assistant, Counts
  <2> QED BY <1>5, <2>2 DEF CreateAssistant, Records, local
<1>6. ASSUME NEW p \in Procs, SaveAssistantID(p) PROVE Records'
  <2>1. mapping # None => [mapping EXCEPT !.assistant = job[p].id] \in Mapping
    BY <1>0 DEF Records, Mapping
  <2>2. mapping' \in Mapping \cup {None}
    BY <1>6, <2>1, UpdateType DEF SaveAssistantID, Records
  <2> QED BY <1>6, <2>2 DEF SaveAssistantID, Records, remote
<1>7. ASSUME NEW p \in Procs, PreferRemote(p) PROVE Records'
  <2>1. job[p].want \in Models
    BY <1>0, <1>7 DEF PreferRemote, At, Shape
  <2>2. assistant # None => [assistant EXCEPT !.llm = job[p].want] \in Assistant
    BY <2>1 DEF Records, Assistant
  <2> QED BY <1>7, <2>2 DEF PreferRemote, Updatable, Records, local
<1>8. ASSUME NEW p \in Procs, PreferSave(p) PROVE Records'
  <2>1. mapping # None => [mapping EXCEPT !.pref = job[p].want] \in Mapping
    BY <1>0 DEF Records, Mapping
  <2>2. mapping' \in Mapping \cup {None}
    BY <1>8, <2>1, UpdateType DEF PreferSave, Records
  <2> QED BY <1>8, <2>2 DEF PreferSave, Records, remote
<1>9. ASSUME NEW p \in Procs, PurgeRemote(p) \/ PurgeRow(p) PROVE Records'
  BY <1>9 DEF PurgeRemote, PurgeRow, Records, local, remote
<1>10. CASE Crash
  BY <1>10 DEF Crash, Records, remote
<1>11. ASSUME NEW p \in Procs,
              Request(p) \/ Lookup(p) \/ ProvisionUser(p) \/ Register(p) \/ Login(p)
                \/ GenerateAPIKey(p) \/ LLMRead(p) \/ LLMLogin(p) \/ SetLLMAPIKey(p)
                \/ SetTenantInfo(p) \/ EnsureAssistant(p) \/ RecoverAssistant(p)
                \/ PreferRead(p) \/ PreferReread(p) \/ PurgeRead(p)
       PROVE Records'
  BY <1>1, <1>11, Zenon DEF Request, GetClientForUser, EnsureUserResources, SetPreference,
     DeleteUser, Lookup, ProvisionUser, Register, Login, GenerateAPIKey, LLMRead, LLMLogin,
     SetLLMAPIKey, SetTenantInfo, EnsureAssistant, RecoverAssistant, PreferRead, PreferReread,
     PurgeRead, local, remote
<1>12. CASE UNCHANGED vars
  BY <1>1, <1>12 DEF vars, local, remote
<1> QED BY <1>2, <1>3, <1>4, <1>5, <1>6, <1>7, <1>8, <1>9, <1>10, <1>11, <1>12, Zenon
     DEF Next, Step

LEMMA JobsType ==
  ASSUME TypeInv, [Next]_vars
  PROVE  Jobs'
<1>1. CASE Crash
  BY <1>1, IdleIsGood DEF Crash, Jobs
<1>2. ASSUME NEW p \in Procs, Request(p) \/ Step(p) PROVE Jobs'
  BY <1>2, StartsMove, StepsMove, MovesKeepJobs, Zenon DEF TypeInv
<1>3. CASE UNCHANGED vars
  BY <1>3 DEF vars, Jobs, TypeInv
<1> QED BY <1>1, <1>2, <1>3 DEF Next

LEMMA InitType == Init => TypeInv
<1> SUFFICES ASSUME Init PROVE TypeInv
  OBVIOUS
<1>1. Jobs
  BY IdleIsGood DEF Init, Jobs
<1>2. Counts /\ Records
  BY DEF Init, Counts, Records
<1>3. Flags
  BY ConstantsOK DEF Init, Flags
<1> QED BY <1>1, <1>2, <1>3 DEF TypeInv

LEMMA NextType == TypeInv /\ [Next]_vars => TypeInv'
<1> SUFFICES ASSUME TypeInv, [Next]_vars PROVE Flags' /\ Counts' /\ Records' /\ Jobs'
  BY DEF TypeInv
<1> QED BY FlagsType, CountsType, RecordsType, JobsType DEF TypeInv

(* Every variable holds what the code can store in it; a goroutine that goes *)
(* on finds what it took along.                                              *)
THEOREM TypeCorrect == Spec => []TypeOK
BY InitType, NextType, TypeParts, PTL DEF Spec

-----------------------------------------------------------------------------
(* What goroutines rely on *)

(* A provider once configured stays, a deleted user stays deleted, and while *)
(* the user is there the assistant stays the same one.                       *)
Kept ==
  /\ provider => provider'
  /\ user' => user
  /\ user' /\ assistant # None => assistant' # None /\ assistant'.id = assistant.id

LEMMA ThingsStay ==
  ASSUME TypeInv, AllGrounds, [Next]_vars
  PROVE  Kept
<1>1. CASE UNCHANGED <<user, provider, assistant>>
  BY <1>1, Zenon DEF Kept
<1>2. ASSUME NEW p \in Procs, Request(p) PROVE Kept
  <2>1. CASE DeleteUser(p)
    BY <2>1 DEF Kept, DeleteUser, remote
  <2>2. CASE GetClientForUser(p) \/ EnsureUserResources(p) \/ SetPreference(p)
    BY <1>1, <2>2, Zenon DEF GetClientForUser, EnsureUserResources, SetPreference, local, remote
  <2> QED BY <1>2, <2>1, <2>2 DEF Request
<1>3. ASSUME NEW p \in Procs, SetLLMAPIKey(p) PROVE Kept
  <2>1. provider' = TRUE \/ provider' = provider
    BY <1>3, Zenon DEF SetLLMAPIKey
  <2>3. provider => provider'
    BY <2>1, Zenon
  <2>2. user' = user /\ assistant' = assistant
    BY <1>3 DEF SetLLMAPIKey, local
  <2> QED BY <2>2, <2>3 DEF Kept
<1>4. ASSUME NEW p \in Procs, CreateAssistant(p) PROVE Kept
  BY <1>4 DEF Kept, CreateAssistant, NewAssistant, local
<1>5. ASSUME NEW p \in Procs, PreferRemote(p) PROVE Kept
  <2>1. assistant # None => assistant \in Assistant
    BY DEF TypeInv, Records
  <2>2. \/ assistant' = assistant
        \/ assistant # None /\ assistant' = [assistant EXCEPT !.llm = job[p].want]
    BY <1>5 DEF PreferRemote, Updatable
  <2>3. assistant # None /\ assistant' = [assistant EXCEPT !.llm = job[p].want]
          => assistant'.id = assistant.id
    BY <2>1 DEF Assistant
  <2>4. assistant' \in Assistant \cup {None}
    BY RecordsType DEF Records
  <2>5. assistant # None => assistant' # None
    <3>1. CASE assistant # None /\ assistant' = [assistant EXCEPT !.llm = job[p].want]
      <4>1. job[p].want \in Models
        BY <1>5 DEF TypeInv, Jobs, GoodJob, Shape, PreferRemote, At
      <4>2. assistant' \in Assistant
        BY <2>1, <3>1, <4>1 DEF Assistant
      <4> QED BY <4>2, NoneIsNoRow
    <3> QED BY <2>2, <3>1
  <2> QED BY <1>5, <2>2, <2>3, <2>5 DEF Kept, PreferRemote, local
<1>6. ASSUME NEW p \in Procs, PurgeRemote(p) PROVE Kept
  <2>1. ~user
    BY <1>6 DEF PurgeRemote, At, AllGrounds, Grounds
  <2> QED BY <1>6, <2>1 DEF Kept, PurgeRemote, local
<1>7. ASSUME NEW p \in Procs,
             Lookup(p) \/ ProvisionUser(p) \/ Register(p) \/ Login(p) \/ GenerateAPIKey(p)
               \/ SaveMapping(p) \/ CacheClient(p) \/ LLMRead(p) \/ LLMLogin(p)
               \/ SetTenantInfo(p) \/ MarkConfigured(p) \/ EnsureAssistant(p)
               \/ RecoverAssistant(p) \/ SaveAssistantID(p) \/ PreferRead(p)
               \/ PreferReread(p) \/ PreferSave(p) \/ PurgeRead(p) \/ PurgeRow(p)
      PROVE Kept
  BY <1>1, <1>7, Zenon DEF Lookup, ProvisionUser, Register, Login, GenerateAPIKey, SaveMapping,
     CacheClient, LLMRead, LLMLogin, SetTenantInfo, MarkConfigured, EnsureAssistant,
     RecoverAssistant, SaveAssistantID, PreferRead, PreferReread, PreferSave, PurgeRead, PurgeRow,
     local, remote
<1>8. CASE Crash \/ UNCHANGED vars
  BY <1>1, <1>8, Zenon DEF Crash, vars, local, remote
<1> QED BY <1>2, <1>3, <1>4, <1>5, <1>6, <1>7, <1>8, Zenon DEF Next, Step

LEMMA OthersKeepGrounds ==
  ASSUME Jobs, Kept, AllGrounds, NEW p \in Procs, Moves(p), Grounds(job[p])'
  PROVE  AllGrounds'
<1> SUFFICES ASSUME NEW q \in Procs, q # p PROVE Grounds(job[q])'
  BY DEF AllGrounds
<1>1. job'[q] = job[q]
  BY DEF Jobs, Moves, Become
<1>2. Grounds(job[q])
  BY DEF AllGrounds
<1> QED BY <1>1, <1>2 DEF Grounds, Kept

(* Where a goroutine relies on nothing. *)
Plain == PC \ {"defaults", "flag", "saveId", "save", "purge", "purgeRemote", "purgeRow"}

LEMMA PlainIsGrounded ==
  ASSUME NEW p \in Procs, job'[p].pc \in Plain
  PROVE  Grounds(job[p])'
BY DEF Grounds, Plain

LEMMA PlainMoves ==
  ASSUME Jobs, NEW p \in Procs,
         \/ End(p) \/ Back(p) \/ Finish(p) \/ \E c : Got(p, c)
         \/ \E pc \in Plain : Goto(p, pc)
         \/ \E j \in Job : \E back : EnsureLLM(p, j, back)
         \/ \E j \in Job, pc \in Plain : Become(p, [j EXCEPT !.pc = pc])
  PROVE  job'[p].pc \in Plain
<1> USE DEF Become
<1>0. job[p] \in Job /\ Shape(job[p])
  BY DEF Jobs, GoodJob
<1>1. CASE End(p)
  BY <1>1 DEF End, Jobs, Idle, Plain, PC
<1>2. ASSUME NEW pc \in Plain, NEW j \in Job, Become(p, [j EXCEPT !.pc = pc])
      PROVE  job'[p].pc \in Plain
  BY <1>2 DEF Jobs, Job
<1>3. ASSUME NEW pc \in Plain, Goto(p, pc) PROVE job'[p].pc \in Plain
  BY <1>0, <1>2, <1>3 DEF Goto
<1>4. CASE Back(p)
  BY <1>0, <1>3, <1>4 DEF Back, Shape, Plain, PC
<1>5. CASE Finish(p)
  BY <1>1, <1>3, <1>5 DEF Finish, Plain, PC
<1>6. ASSUME NEW c, Got(p, c) PROVE job'[p].pc \in Plain
  <2>1. CASE job[p].goal # "client"
    <3>1. job'[p] = [job[p] EXCEPT !.pc = "assist", !.client = c, !.snap = None]
      BY <1>6, <2>1 DEF Got, Jobs
    <3>2. job'[p].pc = "assist"
      BY <1>0, <3>1 DEF Job
    <3> QED BY <3>2 DEF Plain, PC
  <2> QED BY <1>1, <1>6, <2>1 DEF Got
<1>7. ASSUME NEW j \in Job, NEW back, EnsureLLM(p, j, back) PROVE job'[p].pc \in Plain
  <2>1. job'[p] = [j EXCEPT !.pc = "llm", !.back = back]
    BY <1>7 DEF EnsureLLM, Jobs
  <2>2. job'[p].pc = "llm"
    BY <2>1 DEF Job
  <2> QED BY <2>2 DEF Plain, PC
<1> QED BY <1>1, <1>2, <1>3, <1>4, <1>5, <1>6, <1>7

LEMMA RequestsKeepGrounds ==
  ASSUME Jobs, NEW p \in Procs, Request(p)
  PROVE  Grounds(job[p])'
<1>1. CASE DeleteUser(p)
  <2>1. job'[p].pc = "purge" /\ ~user'
    BY <1>1 DEF DeleteUser, Start, Become, Jobs, Idle
  <2> QED BY <2>1 DEF Grounds
<1>2. CASE GetClientForUser(p) \/ EnsureUserResources(p)
  <2>1. job'[p].pc = "lookup"
    BY <1>2 DEF GetClientForUser, EnsureUserResources, Start, Become, Jobs, Idle
  <2> QED BY <2>1, PlainIsGrounded DEF Plain, PC
<1>3. CASE SetPreference(p)
  <2>1. job'[p].pc = "prefer"
    BY <1>3 DEF SetPreference, Start, Become, Jobs, Idle
  <2> QED BY <2>1, PlainIsGrounded DEF Plain, PC
<1> QED BY <1>1, <1>2, <1>3 DEF Request

LEMMA StepsKeepGrounds ==
  ASSUME TypeInv, AllGrounds, NEW p \in Procs, Step(p)
  PROVE  Grounds(job[p])'
<1> USE DEF TypeInv
<1>0. job[p] \in Job /\ Shape(job[p]) /\ Grounds(job[p])
  BY DEF Jobs, GoodJob, AllGrounds
<1>1. ASSUME job'[p].pc \in Plain PROVE Grounds(job[p])'
  BY <1>1, PlainIsGrounded
<1>2. CASE GenerateAPIKey(p)
  <2>1. CASE Become(p, [job[p] EXCEPT !.pc = "save", !.client = keys + 1])
    <3>1. job'[p].pc = "save" /\ job'[p].client = keys + 1
      BY <1>0, <2>1 DEF Become, Jobs, Job
    <3>2. keys + 1 # 0
      BY DEF Counts
    <3> QED BY <3>1, <3>2 DEF Grounds
  <2>2. CASE job[p].snap = None /\ Goto(p, "save")
    <3>1. job'[p].pc = "save" /\ job'[p].snap = None
      BY <1>0, <2>2 DEF Goto, Become, Jobs, Job
    <3> QED BY <3>1 DEF Grounds
  <2>3. CASE End(p)
    BY <1>1, <2>3, PlainMoves
  <2> QED BY <1>2, <2>1, <2>2, <2>3 DEF GenerateAPIKey
<1>3. CASE SetLLMAPIKey(p)
  <2>1. CASE provider' = TRUE /\ Goto(p, "defaults")
    <3>1. job'[p].pc = "defaults"
      BY <1>0, <2>1 DEF Goto, Become, Jobs, Job
    <3> QED BY <2>1, <3>1 DEF Grounds
  <2>2. CASE Back(p)
    BY <1>1, <2>2, PlainMoves
  <2> QED BY <1>3, <2>1, <2>2 DEF SetLLMAPIKey
<1>4. CASE SetTenantInfo(p)
  <2>1. job'[p].pc = "flag" /\ (provider' <=> provider)
    BY <1>0, <1>4 DEF SetTenantInfo, Goto, Become, Jobs, Job
  <2>2. provider
    BY <1>0, <1>4 DEF SetTenantInfo, At, Grounds
  <2> QED BY <2>1, <2>2 DEF Grounds
<1>5. CASE CreateAssistant(p)
  <2>1. CASE NewAssistant(p) /\ Become(p, [job[p] EXCEPT !.pc = "saveId", !.id = made + 1])
    <3>1. job'[p].pc = "saveId" /\ job'[p].id = made + 1
      BY <1>0, <2>1 DEF Become, Jobs, Job
    <3>2. job[p].llm \in Models
      BY <1>0, <1>5 DEF CreateAssistant, At, Shape
    <3>3. assistant' \in Assistant /\ assistant'.id = made + 1
      BY <2>1, <3>2 DEF NewAssistant, Assistant, Counts
    <3> QED BY <3>1, <3>3, NoneIsNoRow DEF Grounds
  <2>2. CASE Goto(p, "recover") \/ Finish(p)
    BY <1>1, <2>2, PlainMoves DEF Plain, PC
  <2> QED BY <1>5, <2>1, <2>2 DEF CreateAssistant
<1>6. CASE RecoverAssistant(p)
  <2>1. CASE assistant # None /\ Become(p, [job[p] EXCEPT !.pc = "saveId", !.id = assistant.id])
    <3>1. job'[p].pc = "saveId" /\ job'[p].id = assistant.id
      BY <1>0, <2>1 DEF Become, Jobs, Job
    <3>2. assistant' = assistant
      BY <1>6 DEF RecoverAssistant, remote
    <3> QED BY <2>1, <3>1, <3>2 DEF Grounds
  <2>2. CASE Finish(p)
    BY <1>1, <2>2, PlainMoves
  <2> QED BY <1>6, <2>1, <2>2 DEF RecoverAssistant
<1>7. CASE PurgeRead(p)
  <2>1. ~user /\ user' = user
    BY <1>0, <1>7 DEF PurgeRead, At, Grounds, local
  <2>2. CASE mapping # None /\ Become(p, [job[p] EXCEPT !.pc = "purgeRemote", !.snap = mapping])
    <3>1. job'[p].pc = "purgeRemote"
      BY <1>0, <2>2 DEF Become, Jobs, Job
    <3> QED BY <2>1, <3>1 DEF Grounds
  <2>3. CASE End(p)
    BY <1>1, <2>3, PlainMoves
  <2> QED BY <1>7, <2>2, <2>3 DEF PurgeRead
<1>8. CASE PurgeRemote(p)
  <2>1. ~user /\ user' = user
    BY <1>0, <1>8 DEF PurgeRemote, At, Grounds, local
  <2>2. job'[p].pc = "purgeRow"
    BY <1>0, <1>8 DEF PurgeRemote, Goto, Become, Jobs, Job
  <2> QED BY <2>1, <2>2 DEF Grounds
<1>9. CASE PurgeRow(p) \/ MarkConfigured(p) \/ SaveAssistantID(p) \/ LLMLogin(p)
  BY <1>1, <1>9, PlainMoves
     DEF PurgeRow, MarkConfigured, SaveAssistantID, LLMLogin, Plain, PC
<1>10. CASE Lookup(p) \/ Register(p) \/ Login(p) \/ CacheClient(p)
  BY <1>1, <1>10, PlainMoves DEF Lookup, Register, Login, CacheClient, Plain, PC
<1>11. CASE ProvisionUser(p)
  <2>1. CASE mapping # None /\ EnsureLLM(p, [job[p] EXCEPT !.client = mapping.key], "cache")
    <3>1. [job[p] EXCEPT !.client = mapping.key] \in Job
      BY <1>0, <2>1 DEF Records, Mapping, Job
    <3> QED BY <1>1, <2>1, <3>1, PlainMoves
  <2>2. CASE mapping # None /\ Become(p, [job[p] EXCEPT !.pc = "login", !.snap = mapping])
    <3>1. job'[p].pc = "login"
      BY <1>0, <2>2 DEF Become, Jobs, Job
    <3> QED BY <1>1, <3>1 DEF Plain, PC
  <2>3. CASE Goto(p, "register") \/ End(p)
    BY <1>1, <2>3, PlainMoves DEF Plain, PC
  <2> QED BY <1>11, <2>1, <2>2, <2>3 DEF ProvisionUser
<1>12. CASE SaveMapping(p)
  BY <1>0, <1>1, <1>12, PlainMoves DEF SaveMapping
<1>13. CASE LLMRead(p)
  <2>1. CASE Become(p, [job[p] EXCEPT !.pc = "llmLogin", !.id = mapping.id])
    <3>1. job'[p].pc = "llmLogin"
      BY <1>0, <2>1 DEF Become, Jobs, Job
    <3> QED BY <1>1, <3>1 DEF Plain, PC
  <2>2. CASE Back(p)
    BY <1>1, <2>2, PlainMoves
  <2> QED BY <1>13, <2>1, <2>2 DEF LLMRead
<1>14. CASE EnsureAssistant(p)
  <2> DEFINE j == [job[p] EXCEPT !.snap = mapping, !.llm = ChosenLLM(mapping)]
  <2>1. CASE mapping # None /\ EnsureLLM(p, j, "create")
    <3>1. mapping \in Mapping /\ ChosenLLM(mapping) \in Models
      BY <2>1, ChosenIsModel DEF Records
    <3>2. j \in Job
      BY <1>0, <3>1 DEF Job
    <3> HIDE DEF j
    <3> QED BY <1>1, <2>1, <3>2, PlainMoves
  <2>2. CASE Finish(p)
    BY <1>1, <2>2, PlainMoves
  <2> QED BY <1>14, <2>1, <2>2 DEF EnsureAssistant
<1>15. CASE PreferRead(p) \/ PreferReread(p)
  <2> DEFINE j == [job[p] EXCEPT !.snap = mapping]
  <2>1. CASE mapping # None /\ Prefer(p)
    <3>1. j \in Job
      BY <1>0, <2>1 DEF Records, Job
    <3>2. Become(p, [j EXCEPT !.pc = "prefRemote"]) \/ EnsureLLM(p, j, "prefRemote")
      BY <2>1 DEF Prefer
    <3> HIDE DEF j
    <3> QED BY <1>1, <3>1, <3>2, PlainMoves DEF Plain, PC
  <2>2. CASE Goto(p, "lookup") \/ End(p)
    BY <1>1, <2>2, PlainMoves DEF Plain, PC
  <2> QED BY <1>15, <2>1, <2>2 DEF PreferRead, PreferReread
<1>16. CASE PreferRemote(p)
  BY <1>1, <1>16, PlainMoves DEF PreferRemote, Plain, PC
<1>17. CASE PreferSave(p)
  <2>1. CASE Become(p, [Idle EXCEPT !.pc = "lookup", !.goal = "resources"])
    <3>1. job'[p].pc = "lookup"
      BY <2>1 DEF Become, Jobs, Idle
    <3> QED BY <1>1, <3>1 DEF Plain, PC
  <2>2. CASE End(p)
    BY <1>1, <2>2, PlainMoves
  <2> QED BY <1>17, <2>1, <2>2 DEF PreferSave
<1> QED BY <1>2, <1>3, <1>4, <1>5, <1>6, <1>7, <1>8, <1>9, <1>10, <1>11, <1>12, <1>13, <1>14,
       <1>15, <1>16, <1>17, Zenon DEF Step

LEMMA InitGrounds == Init => AllGrounds
<1> SUFFICES ASSUME Init, NEW p \in Procs PROVE Grounds(job[p])
  BY DEF AllGrounds
<1>1. job[p].pc = "idle"
  BY DEF Init, Idle
<1> QED BY <1>1 DEF Grounds

LEMMA NextGrounds == TypeInv /\ AllGrounds /\ [Next]_vars => AllGrounds'
<1> SUFFICES ASSUME TypeInv, AllGrounds, [Next]_vars PROVE AllGrounds'
  OBVIOUS
<1>1. CASE Crash
  <2>1. ASSUME NEW p \in Procs PROVE job'[p].pc = "idle"
    BY <1>1 DEF Crash, Idle
  <2> QED BY <2>1, PlainIsGrounded DEF AllGrounds, Plain, PC
<1>2. ASSUME NEW p \in Procs, Request(p) \/ Step(p) PROVE AllGrounds'
  BY <1>2, ThingsStay, StartsMove, StepsMove, RequestsKeepGrounds, StepsKeepGrounds,
     OthersKeepGrounds, Zenon DEF TypeInv
<1>3. CASE UNCHANGED vars
  BY <1>3 DEF vars, local, remote, AllGrounds, Grounds
<1> QED BY <1>1, <1>2, <1>3 DEF Next

-----------------------------------------------------------------------------
(* What the row says *)

(* A row that is written is a new one, which claims nothing, or the one that *)
(* was there with one claim more, which its writer has grounds for.          *)
LEMMA ClaimsOfRow ==
  ASSUME TypeInv, AllGrounds, [Next]_vars, mapping' # None, user'
  PROVE  \/ ~mapping'.llm /\ mapping'.assistant = 0
         \/ /\ mapping # None
            /\ mapping'.llm => mapping.llm \/ provider
            /\ \/ mapping'.assistant = mapping.assistant
               \/ assistant # None /\ assistant.id = mapping'.assistant
<1> DEFINE Goal == \/ ~mapping'.llm /\ mapping'.assistant = 0
                   \/ /\ mapping # None
                      /\ mapping'.llm => mapping.llm \/ provider
                      /\ \/ mapping'.assistant = mapping.assistant
                         \/ assistant # None /\ assistant.id = mapping'.assistant
<1>0. mapping # None => mapping \in Mapping
  BY DEF TypeInv, Records
<1>1. CASE mapping' = mapping
  BY <1>1
<1>2. ASSUME NEW p \in Procs, SaveMapping(p) PROVE Goal
  <2>1. CASE mapping' = NewMapping(job[p].client)
    BY <2>1 DEF NewMapping
  <2>2. CASE mapping # None /\ mapping' = [mapping EXCEPT !.key = job[p].client]
    BY <1>0, <2>2 DEF Mapping
  <2> QED BY <1>1, <1>2, <2>1, <2>2 DEF SaveMapping, Insert, UpdateMapping, Holds
<1>3. ASSUME NEW p \in Procs, MarkConfigured(p) PROVE Goal
  <2>1. provider
    BY <1>3 DEF MarkConfigured, At, AllGrounds, Grounds
  <2>2. CASE mapping # None /\ mapping' = [mapping EXCEPT !.llm = TRUE]
    BY <1>0, <2>1, <2>2 DEF Mapping
  <2> QED BY <1>1, <1>3, <2>2 DEF MarkConfigured, UpdateMapping, Holds
<1>4. ASSUME NEW p \in Procs, SaveAssistantID(p) PROVE Goal
  <2>1. assistant # None /\ assistant.id = job[p].id
    BY <1>4, ThingsStay DEF Kept, SaveAssistantID, At, AllGrounds, Grounds
  <2>2. CASE mapping # None /\ mapping' = [mapping EXCEPT !.assistant = job[p].id]
    BY <1>0, <2>1, <2>2 DEF Mapping
  <2> QED BY <1>1, <1>4, <2>2 DEF SaveAssistantID, UpdateMapping, Holds
<1>5. ASSUME NEW p \in Procs, PreferSave(p) PROVE Goal
  <2>1. CASE mapping # None /\ mapping' = [mapping EXCEPT !.pref = job[p].want]
    BY <1>0, <2>1 DEF Mapping
  <2> QED BY <1>1, <1>5, <2>1 DEF PreferSave, UpdateMapping, Holds
<1>6. ASSUME NEW p \in Procs, PurgeRow(p) PROVE Goal
  BY <1>1, <1>6 DEF PurgeRow
<1>7. ASSUME NEW p \in Procs,
             Request(p) \/ Lookup(p) \/ ProvisionUser(p) \/ Register(p) \/ Login(p)
               \/ GenerateAPIKey(p) \/ CacheClient(p) \/ LLMRead(p) \/ LLMLogin(p)
               \/ SetLLMAPIKey(p) \/ SetTenantInfo(p) \/ EnsureAssistant(p)
               \/ CreateAssistant(p) \/ RecoverAssistant(p) \/ PreferRead(p)
               \/ PreferReread(p) \/ PreferRemote(p) \/ PurgeRead(p) \/ PurgeRemote(p)
      PROVE mapping' = mapping
  BY <1>7, Zenon DEF Request, GetClientForUser, EnsureUserResources, SetPreference, DeleteUser,
     Lookup, ProvisionUser, Register, Login, GenerateAPIKey, CacheClient, LLMRead, LLMLogin,
     SetLLMAPIKey, SetTenantInfo, EnsureAssistant, CreateAssistant, RecoverAssistant, PreferRead,
     PreferReread, PreferRemote, PurgeRead, PurgeRemote, local, remote
<1>8. CASE Crash \/ UNCHANGED vars
  BY <1>1, <1>8, Zenon DEF Crash, vars, local
<1> HIDE DEF Goal
<1>9. Goal
  BY <1>1, <1>2, <1>3, <1>4, <1>5, <1>6, <1>7, <1>8, Zenon DEF Next, Step, Goal
<1> QED BY <1>9 DEF Goal

LEMMA InitTrue == Init => RowIsTrue
BY DEF Init, RowIsTrue

LEMMA NextTrue == TypeInv /\ AllGrounds /\ RowIsTrue /\ [Next]_vars => RowIsTrue'
<1> SUFFICES ASSUME TypeInv, AllGrounds, RowIsTrue, [Next]_vars, user', mapping' # None
             PROVE  /\ mapping'.llm => provider'
                    /\ mapping'.assistant # 0
                         => assistant' # None /\ assistant'.id = mapping'.assistant
  BY DEF RowIsTrue
<1>1. Kept
  BY ThingsStay
<1> QED BY <1>1, ClaimsOfRow DEF Kept, RowIsTrue

LEMMA InitInv == Init => IInv
BY InitType, InitGrounds, InitTrue DEF IInv

LEMMA NextInv == IInv /\ [Next]_vars => IInv'
<1> SUFFICES ASSUME IInv, [Next]_vars PROVE TypeInv' /\ AllGrounds' /\ RowIsTrue'
  BY DEF IInv
<1> QED BY NextType, NextGrounds, NextTrue DEF IInv

(* However requests, faults and restarts interleave, what the row says of    *)
(* RAGFlow is so: a user marked as configured has the provider, and the      *)
(* assistant the row names is there (EnsureLLMConfig, ensureAssistant).      *)
THEOREM RowsAreTrue == Spec => []RowIsTrue
<1>1. IInv => RowIsTrue
  BY DEF IInv
<1> QED BY <1>1, InitInv, NextInv, PTL DEF Spec

-----------------------------------------------------------------------------
(* The API key *)

LEMMA StepKeepsKey ==
  ASSUME TypeInv, AllGrounds, [Next]_vars, mapping # None, mapping.key # 0, user
  PROVE  mapping' # None /\ mapping'.key # 0
<1> DEFINE Goal == mapping' # None /\ mapping'.key # 0
<1>0. mapping \in Mapping /\ mapping' \in Mapping \cup {None}
  BY RecordsType DEF TypeInv, Records
<1>1. CASE mapping' = mapping
  BY <1>1
<1>2. ASSUME NEW key \in Nat, key # 0, mapping' = [mapping EXCEPT !.key = key] PROVE Goal
  <2>1. mapping' \in Mapping /\ mapping'.key = key
    BY <1>0, <1>2 DEF Mapping
  <2> QED BY <1>2, <2>1, NoneIsNoRow
<1>3. ASSUME NEW p \in Procs, SaveMapping(p) PROVE Goal
  <2>1. CASE job[p].snap # None /\ mapping' = [mapping EXCEPT !.key = job[p].client]
    <3>1. job[p].client \in Nat /\ job[p].client # 0
      BY <1>3, <2>1 DEF TypeInv, Jobs, GoodJob, Job, SaveMapping, At, AllGrounds, Grounds
    <3> QED BY <1>2, <2>1, <3>1
  <2> QED BY <1>1, <1>3, <2>1 DEF SaveMapping, Insert, UpdateMapping, Holds
<1>4. ASSUME NEW p \in Procs, MarkConfigured(p) PROVE Goal
  <2>1. CASE mapping' = [mapping EXCEPT !.llm = TRUE]
    <3>1. mapping' \in Mapping /\ mapping'.key = mapping.key
      BY <1>0, <2>1 DEF Mapping
    <3> QED BY <3>1, NoneIsNoRow
  <2> QED BY <1>1, <1>4, <2>1 DEF MarkConfigured, UpdateMapping, Holds
<1>5. ASSUME NEW p \in Procs, SaveAssistantID(p) PROVE Goal
  <2>1. CASE mapping' = [mapping EXCEPT !.assistant = job[p].id]
    <3>1. job[p].id \in Nat
      BY DEF TypeInv, Jobs, GoodJob, Job
    <3>2. mapping' \in Mapping /\ mapping'.key = mapping.key
      BY <1>0, <2>1, <3>1 DEF Mapping
    <3> QED BY <3>2, NoneIsNoRow
  <2> QED BY <1>1, <1>5, <2>1 DEF SaveAssistantID, UpdateMapping, Holds
<1>6. ASSUME NEW p \in Procs, PreferSave(p) PROVE Goal
  <2>1. CASE mapping' = [mapping EXCEPT !.pref = job[p].want]
    <3>1. job[p].want \in Models \cup {None}
      BY DEF TypeInv, Jobs, GoodJob, Job
    <3>2. mapping' \in Mapping /\ mapping'.key = mapping.key
      BY <1>0, <2>1, <3>1 DEF Mapping
    <3> QED BY <3>2, NoneIsNoRow
  <2> QED BY <1>1, <1>6, <2>1 DEF PreferSave, UpdateMapping, Holds
<1>7. ASSUME NEW p \in Procs, PurgeRow(p) PROVE FALSE
  BY <1>7 DEF PurgeRow, At, AllGrounds, Grounds
<1>8. ASSUME NEW p \in Procs,
             Request(p) \/ Lookup(p) \/ ProvisionUser(p) \/ Register(p) \/ Login(p)
               \/ GenerateAPIKey(p) \/ CacheClient(p) \/ LLMRead(p) \/ LLMLogin(p)
               \/ SetLLMAPIKey(p) \/ SetTenantInfo(p) \/ EnsureAssistant(p)
               \/ CreateAssistant(p) \/ RecoverAssistant(p) \/ PreferRead(p)
               \/ PreferReread(p) \/ PreferRemote(p) \/ PurgeRead(p) \/ PurgeRemote(p)
      PROVE mapping' = mapping
  BY <1>8, Zenon DEF Request, GetClientForUser, EnsureUserResources, SetPreference, DeleteUser,
     Lookup, ProvisionUser, Register, Login, GenerateAPIKey, CacheClient, LLMRead, LLMLogin,
     SetLLMAPIKey, SetTenantInfo, EnsureAssistant, CreateAssistant, RecoverAssistant, PreferRead,
     PreferReread, PreferRemote, PurgeRead, PurgeRemote, local, remote
<1>9. CASE Crash \/ UNCHANGED vars
  BY <1>1, <1>9, Zenon DEF Crash, vars, local
<1> HIDE DEF Goal
<1>10. Goal
  BY <1>1, <1>3, <1>4, <1>5, <1>6, <1>7, <1>8, <1>9, Zenon DEF Next, Step, Goal
<1> QED BY <1>10 DEF Goal

(* However registrations race, fail and are taken up again, a stored API key *)
(* is never lost or emptied while its user is there (saveMapping).           *)
THEOREM KeysAreKept == Spec => KeyKept
<1>1. IInv /\ [Next]_vars
        => [mapping # None /\ mapping.key # 0 /\ user => mapping' # None /\ mapping'.key # 0]_vars
  BY StepKeepsKey DEF IInv
<1> QED BY <1>1, InitInv, NextInv, PTL DEF Spec, KeyKept

-----------------------------------------------------------------------------
(* One request at a time and no fault *)

Busy(p) == ~At(p, "idle")
Only(p) == \A q \in Procs \ {p} : ~Busy(q)

InLLM == {"llm", "llmLogin", "provider", "defaults", "flag"}
Purging == {"purge", "purgeRemote", "purgeRow"}
Toward(j, pc) == j.pc = pc \/ (j.pc \in InLLM /\ j.back = pc)

(* Between two steps of the only request, and when there is none: where each *)
(* key and each assistant is.                                                *)
SetUp(j) ==
  /\ keys <= 1 /\ made <= 1
  /\ mapping # None => mapping.key # 0
  /\ user /\ keys # 0 => mapping # None \/ j.pc = "save"
  /\ user /\ made # 0 => assistant # None
  /\ user /\ assistant # None => j.pc = "saveId" \/ (mapping # None /\ mapping.assistant # 0)

(* Whether it deletes the user, and that it registers one only once. *)
Registering(j) ==
  /\ ~user => j.pc \in Purging \/ (j.pc = "idle" /\ mapping = None)
  /\ j.pc \in {"prefer", "lookup", "read", "register", "login", "key", "save"} => j.snap = None
  /\ j.pc \in {"register", "login", "key"} => mapping = None /\ keys = 0
  /\ j.pc = "save" => mapping = None /\ j.client # 0

(* What it knows of the row is still so, and the preference is on its way.   *)
Preferring(j) ==
  /\ j.pc # "recover"
  /\ Toward(j, "create") =>
       mapping # None /\ j.snap.id = mapping.id /\ mapping.assistant = 0
         /\ j.llm = ChosenLLM(mapping)
  /\ j.pc = "saveId" =>
       mapping # None /\ j.snap.id = mapping.id /\ mapping.assistant = 0
         /\ assistant # None /\ assistant.llm = ChosenLLM(mapping)
  /\ Toward(j, "prefRemote") \/ j.pc = "prefSave" =>
       mapping # None /\ j.snap.id = mapping.id /\ j.snap.assistant = mapping.assistant
  /\ user /\ mapping # None /\ mapping.assistant # 0 =>
       IF j.pc = "prefSave" THEN assistant.llm = j.want
       ELSE mapping.pref # None => assistant.llm = mapping.pref

Settled(j) == SetUp(j) /\ Registering(j) /\ Preferring(j)

CalmInv ==
  calm => /\ \A p, q \in Procs : Busy(p) /\ Busy(q) => p = q
          /\ \A p \in Procs : Only(p) => Settled(job[p])

(* What the goroutine takes along to its next step. *)
LEMMA GotoKeeps ==
  ASSUME Jobs, NEW p \in Procs, NEW pc, Goto(p, pc)
  PROVE  /\ job'[p].pc = pc /\ job'[p].back = job[p].back /\ job'[p].snap = job[p].snap
         /\ job'[p].client = job[p].client /\ job'[p].id = job[p].id
         /\ job'[p].llm = job[p].llm /\ job'[p].want = job[p].want
BY DEF Goto, Become, Jobs, GoodJob, Job

LEMMA EnsureLLMKeeps ==
  ASSUME Jobs, NEW p \in Procs, NEW j \in Job, NEW back, EnsureLLM(p, j, back)
  PROVE  /\ job'[p].pc = "llm" /\ job'[p].back = back /\ job'[p].snap = j.snap
         /\ job'[p].client = j.client /\ job'[p].llm = j.llm /\ job'[p].want = j.want
<1>1. job'[p] = [j EXCEPT !.pc = "llm", !.back = back]
  BY DEF EnsureLLM, Become, Jobs
<1> QED BY <1>1 DEF Job

LEMMA EndKeeps ==
  ASSUME Jobs, NEW p \in Procs, End(p)
  PROVE  job'[p].pc = "idle"
BY DEF End, Become, Jobs, Idle

(* Where nothing is taken along. *)
Resting == {"idle", "assist", "cache", "prefReread"}

LEMMA FinishRests ==
  ASSUME Jobs, NEW p \in Procs, Finish(p)
  PROVE  job'[p].pc \in Resting
BY EndKeeps, GotoKeeps DEF Finish, Resting

LEMMA GotRests ==
  ASSUME Jobs, NEW p \in Procs, NEW c, Got(p, c)
  PROVE  job'[p].pc \in Resting
<1>1. CASE job[p].goal # "client"
  <2>1. job'[p] = [job[p] EXCEPT !.pc = "assist", !.client = c, !.snap = None]
    BY <1>1 DEF Got, Become, Jobs
  <2>2. job[p] \in Job
    BY DEF Jobs, GoodJob
  <2> QED BY <2>1, <2>2 DEF Job, Resting
<1> QED BY <1>1, EndKeeps DEF Got, Resting

(* A step that changes nothing a settled state is about. *)
Elsewhere == UNCHANGED <<user, mapping, keys, assistant, made>>

LEMMA RestSettles ==
  ASSUME NEW p \in Procs, Settled(job[p]), Elsewhere, user,
         job[p].pc \notin {"save", "saveId", "prefSave"}, job'[p].pc \in Resting
  PROVE  Settled(job[p])'
<1> USE DEF Elsewhere, Settled, Resting, InLLM, Purging, Toward
<1>1. SetUp(job[p])'
  BY DEF SetUp
<1>2. Registering(job[p])'
  BY DEF Registering
<1>3. Preferring(job[p])'
  BY DEF Preferring
<1> QED BY <1>1, <1>2, <1>3

(* EnsureLLMConfig comes back to what its caller left. *)
LEMMA ConfigurationSettles ==
  ASSUME Jobs, NEW p \in Procs, Settled(job[p]), Elsewhere, user, job[p].pc \in InLLM,
         job'[p].pc \in InLLM \cup {job[p].back}, job'[p].back = job[p].back,
         job'[p].snap = job[p].snap, job'[p].llm = job[p].llm, job'[p].want = job[p].want
  PROVE  Settled(job[p])'
<1> USE DEF Elsewhere, Settled, InLLM, Purging, Toward
<1>0. job[p].back \in {"idle", "cache", "create", "prefRemote"}
  BY DEF Jobs, GoodJob, Shape
<1>1. SetUp(job[p])'
  BY <1>0 DEF SetUp
<1>2. Registering(job[p])'
  BY <1>0 DEF Registering
<1>3. Preferring(job[p])'
  BY <1>0 DEF Preferring, ChosenLLM
<1> QED BY <1>1, <1>2, <1>3

(* Only a deleted user's goroutine works for nobody. *)
LEMMA UserIsThere ==
  ASSUME NEW p \in Procs, Settled(job[p]), job[p].pc \notin Purging \cup {"idle"}
  PROVE  user
BY DEF Settled, Registering

LEMMA RequestSettles ==
  ASSUME TypeInv, NEW p \in Procs, Settled(job[p]), Request(p)
  PROVE  Settled(job[p])'
<1> USE DEF TypeInv
<1>0. user /\ job[p].pc = "idle"
  BY DEF Request, GetClientForUser, EnsureUserResources, SetPreference, DeleteUser, Start, At
<1>1. CASE DeleteUser(p)
  <2>1. job'[p].pc = "purge" /\ ~user'
    BY <1>1 DEF DeleteUser, Start, Become, Jobs, Idle
  <2>2. UNCHANGED <<mapping, keys, assistant, made>>
    BY <1>1 DEF DeleteUser, remote
  <2> QED BY <1>0, <2>1, <2>2
       DEF Settled, SetUp, Registering, Preferring, Purging, Toward, InLLM
<1>2. CASE GetClientForUser(p) \/ EnsureUserResources(p)
  <2>1. job'[p].pc = "lookup" /\ job'[p].snap = None
    BY <1>2 DEF GetClientForUser, EnsureUserResources, Start, Become, Jobs, Idle
  <2>2. Elsewhere
    BY <1>2 DEF GetClientForUser, EnsureUserResources, Elsewhere, local, remote
  <2> QED BY <1>0, <2>1, <2>2
       DEF Elsewhere, Settled, SetUp, Registering, Preferring, Purging, Toward, InLLM
<1>3. CASE SetPreference(p)
  <2>1. job'[p].pc = "prefer" /\ job'[p].snap = None
    BY <1>3 DEF SetPreference, Start, Become, Jobs, Idle
  <2>2. Elsewhere
    BY <1>3 DEF SetPreference, Elsewhere, local, remote
  <2> QED BY <1>0, <2>1, <2>2
       DEF Elsewhere, Settled, SetUp, Registering, Preferring, Purging, Toward, InLLM
<1> QED BY <1>1, <1>2, <1>3 DEF Request

(* No step with a fault leaves calm. *)
LEMMA FaultEndsCalm ==
  ASSUME calm'
  PROVE  \A kind : ~Fault(kind)
BY DEF Fault

LEMMA RegistrationSettles ==
  ASSUME TypeInv, NEW p \in Procs, Settled(job[p]), calm',
         Lookup(p) \/ ProvisionUser(p) \/ Register(p) \/ Login(p) \/ GenerateAPIKey(p)
           \/ SaveMapping(p) \/ CacheClient(p)
  PROVE  Settled(job[p])'
<1> USE DEF TypeInv, Settled
<1>0. /\ user /\ job[p] \in Job
      /\ job[p].pc \in {"lookup", "read", "register", "login", "key", "save", "cache"}
  BY UserIsThere DEF Lookup, ProvisionUser, Register, Login, GenerateAPIKey, SaveMapping,
     CacheClient, At, Purging, Jobs, GoodJob
<1>1. ASSUME Elsewhere, job[p].pc # "save", job'[p].pc \in Resting PROVE Settled(job[p])'
  BY <1>0, <1>1, RestSettles
<1>2. CASE Lookup(p)
  <2>1. Elsewhere /\ job[p].pc = "lookup"
    BY <1>2 DEF Lookup, Elsewhere, At, local, remote
  <2>2. CASE Got(p, cache)
    BY <1>1, <2>1, <2>2, GotRests
  <2>3. CASE Goto(p, "read")
    <3>1. job'[p].pc = "read" /\ job'[p].snap = job[p].snap
      BY <2>3, GotoKeeps
    <3> QED BY <1>0, <2>1, <3>1
         DEF Elsewhere, SetUp, Registering, Preferring, Purging, Toward, InLLM
  <2> QED BY <1>2, <2>2, <2>3 DEF Lookup
<1>3. CASE ProvisionUser(p)
  <2>1. Elsewhere /\ job[p].pc = "read"
    BY <1>3 DEF ProvisionUser, Elsewhere, At, local, remote
  <2>2. CASE mapping # None /\ EnsureLLM(p, [job[p] EXCEPT !.client = mapping.key], "cache")
    <3>1. [job[p] EXCEPT !.client = mapping.key] \in Job
      BY <1>0, <2>2 DEF Records, Mapping, Job
    <3>2. job'[p].pc = "llm" /\ job'[p].back = "cache"
      BY <2>2, <3>1, EnsureLLMKeeps
    <3> QED BY <1>0, <2>1, <3>2
         DEF Elsewhere, SetUp, Registering, Preferring, Purging, Toward, InLLM
  <2>3. CASE mapping = None /\ Goto(p, "register")
    <3>1. job'[p].pc = "register" /\ job'[p].snap = job[p].snap
      BY <2>3, GotoKeeps
    <3>2. keys = 0
      BY <1>0, <2>1, <2>3 DEF SetUp, Counts
    <3> QED BY <1>0, <2>1, <2>3, <3>1, <3>2
         DEF Elsewhere, SetUp, Registering, Preferring, Purging, Toward, InLLM
  <2> QED BY <1>3, <2>2, <2>3, FaultEndsCalm DEF ProvisionUser, SetUp
<1>4. CASE Register(p) \/ Login(p)
  <2>1. Elsewhere /\ job[p].pc \in {"register", "login"}
    BY <1>4 DEF Register, Login, Elsewhere, At, local, remote
  <2>2. job'[p].pc \in {"login", "key"} /\ job'[p].snap = job[p].snap
    BY <1>4, FaultEndsCalm, GotoKeeps DEF Register, Login
  <2> QED BY <1>0, <2>1, <2>2
       DEF Elsewhere, SetUp, Registering, Preferring, Purging, Toward, InLLM
<1>5. CASE GenerateAPIKey(p)
  <2>1. job[p].pc = "key" /\ keys' = keys + 1
        /\ Become(p, [job[p] EXCEPT !.pc = "save", !.client = keys + 1])
    BY <1>5, FaultEndsCalm DEF GenerateAPIKey, At
  <2>2. UNCHANGED <<user, mapping, assistant, made>>
    BY <1>5 DEF GenerateAPIKey, local
  <2>3. job'[p].pc = "save" /\ job'[p].client = keys + 1 /\ job'[p].snap = job[p].snap
    BY <1>0, <2>1 DEF Become, Jobs, Job
  <2>4. keys = 0 /\ keys' = 1 /\ job'[p].client # 0
    BY <2>1, <2>3 DEF Registering
  <2> QED BY <1>0, <2>1, <2>2, <2>3, <2>4
       DEF SetUp, Registering, Preferring, Purging, Toward, InLLM
<1>6. CASE SaveMapping(p)
  <2>1. job[p].pc = "save" /\ mapping = None /\ job[p].snap = None /\ job[p].client # 0
    BY <1>6 DEF SaveMapping, At, Registering
  <2>2. mapping' = NewMapping(job[p].client) /\ EnsureLLM(p, job[p], "cache")
    BY <1>6, <2>1, FaultEndsCalm DEF SaveMapping, Insert
  <2>3. job[p].client \in Nat /\ rows \in Nat
    BY <1>0 DEF Job, Counts
  <2>4. mapping'.key # 0 /\ mapping'.assistant = 0
    BY <2>1, <2>2 DEF NewMapping
  <2>5. NewMapping(job[p].client) \in Mapping
    BY <2>3 DEF NewMapping, Mapping
  <2>6. mapping' # None
    BY <2>2, <2>5, NoneIsNoRow
  <2>7. UNCHANGED <<user, keys, assistant, made>>
    BY <1>6 DEF SaveMapping, remote
  <2>8. job'[p].pc = "llm" /\ job'[p].back = "cache"
    BY <1>0, <2>2, EnsureLLMKeeps
  <2> QED BY <1>0, <2>1, <2>4, <2>6, <2>7, <2>8
       DEF SetUp, Registering, Preferring, Purging, Toward, InLLM
<1>7. CASE CacheClient(p)
  BY <1>1, <1>7, GotRests DEF CacheClient, Elsewhere, At, remote
<1> QED BY <1>2, <1>3, <1>4, <1>5, <1>6, <1>7

LEMMA LLMSettles ==
  ASSUME TypeInv, NEW p \in Procs, Settled(job[p]), calm',
         LLMRead(p) \/ LLMLogin(p) \/ SetLLMAPIKey(p) \/ SetTenantInfo(p) \/ MarkConfigured(p)
  PROVE  Settled(job[p])'
<1> USE DEF TypeInv
<1>0. user /\ job[p] \in Job /\ job[p].pc \in InLLM
  BY UserIsThere DEF LLMRead, LLMLogin, SetLLMAPIKey, SetTenantInfo, MarkConfigured, At, Purging,
     InLLM, Jobs, GoodJob
<1>1. ASSUME Elsewhere, NEW pc \in InLLM \cup {job[p].back}, Goto(p, pc)
      PROVE  Settled(job[p])'
  BY <1>0, <1>1, GotoKeeps, ConfigurationSettles
<1>2. CASE LLMRead(p)
  <2>1. Elsewhere
    BY <1>2 DEF LLMRead, Elsewhere, local, remote
  <2>2. CASE Become(p, [job[p] EXCEPT !.pc = "llmLogin", !.id = mapping.id])
    <3>1. /\ job'[p].pc = "llmLogin" /\ job'[p].back = job[p].back
          /\ job'[p].snap = job[p].snap /\ job'[p].llm = job[p].llm /\ job'[p].want = job[p].want
      BY <1>0, <2>2 DEF Become, Jobs, Job
    <3> QED BY <1>0, <2>1, <3>1, ConfigurationSettles DEF InLLM
  <2>3. CASE Back(p)
    BY <1>1, <2>1, <2>3 DEF Back
  <2> QED BY <1>2, <2>2, <2>3 DEF LLMRead
<1>3. CASE LLMLogin(p)
  BY <1>1, <1>3 DEF LLMLogin, Elsewhere, Back, InLLM, local, remote
<1>4. CASE SetLLMAPIKey(p)
  BY <1>1, <1>4 DEF SetLLMAPIKey, Elsewhere, Back, InLLM, local
<1>5. CASE SetTenantInfo(p)
  BY <1>1, <1>5 DEF SetTenantInfo, Elsewhere, InLLM, local
<1>6. CASE MarkConfigured(p)
  <2>1. Goto(p, job[p].back) /\ UNCHANGED <<user, keys, assistant, made>>
    BY <1>6 DEF MarkConfigured, Back, remote
  <2>2. CASE mapping' = mapping
    BY <1>1, <2>1, <2>2 DEF Elsewhere
  <2>3. CASE mapping # None /\ mapping' = [mapping EXCEPT !.llm = TRUE]
    <3>1. /\ mapping' \in Mapping /\ mapping'.id = mapping.id /\ mapping'.key = mapping.key
          /\ mapping'.assistant = mapping.assistant /\ mapping'.pref = mapping.pref
      BY <2>3 DEF Records, Mapping
    <3>2. mapping' # None
      BY <3>1, NoneIsNoRow
    <3>3. job[p].back \in {"idle", "cache", "create", "prefRemote"}
      BY DEF Jobs, GoodJob, Shape
    <3>4. /\ job'[p].pc = job[p].back /\ job'[p].snap = job[p].snap
          /\ job'[p].llm = job[p].llm /\ job'[p].want = job[p].want
      BY <2>1, GotoKeeps
    <3> USE <1>0, <2>1, <2>3, <3>1, <3>2, <3>3, <3>4 DEF Settled, InLLM, Purging, Toward
    <3>5. SetUp(job[p])'
      BY DEF SetUp
    <3>6. Registering(job[p])'
      BY DEF Registering
    <3>7. Preferring(job[p])'
      BY DEF Preferring, ChosenLLM
    <3> QED BY <3>5, <3>6, <3>7
  <2> QED BY <1>6, <2>2, <2>3, FaultEndsCalm DEF MarkConfigured, UpdateMapping, Holds
<1> QED BY <1>2, <1>3, <1>4, <1>5, <1>6

LEMMA AssistantSettles ==
  ASSUME TypeInv, AllGrounds, NEW p \in Procs, Settled(job[p]), calm',
         EnsureAssistant(p) \/ CreateAssistant(p) \/ RecoverAssistant(p) \/ SaveAssistantID(p)
  PROVE  Settled(job[p])'
<1> USE DEF TypeInv, Settled
<1>0. /\ user /\ job[p] \in Job /\ Grounds(job[p])
      /\ job[p].pc \in {"assist", "create", "saveId"}
  BY UserIsThere DEF EnsureAssistant, CreateAssistant, RecoverAssistant, SaveAssistantID, At,
     Purging, Preferring, Jobs, GoodJob, AllGrounds
<1>1. ASSUME Elsewhere, job[p].pc # "saveId", Finish(p) PROVE Settled(job[p])'
  BY <1>0, <1>1, FinishRests, RestSettles
<1>2. CASE EnsureAssistant(p)
  <2> DEFINE j == [job[p] EXCEPT !.snap = mapping, !.llm = ChosenLLM(mapping)]
  <2>1. Elsewhere /\ job[p].pc = "assist"
    BY <1>2 DEF EnsureAssistant, Elsewhere, At, local, remote
  <2>2. CASE mapping # None /\ mapping.assistant = 0 /\ EnsureLLM(p, j, "create")
    <3>1. mapping \in Mapping /\ ChosenLLM(mapping) \in Models
      BY <2>2, ChosenIsModel DEF Records
    <3>2. j \in Job /\ j.snap = mapping /\ j.llm = ChosenLLM(mapping)
      BY <1>0, <3>1 DEF Job
    <3> HIDE DEF j
    <3>3. /\ job'[p].pc = "llm" /\ job'[p].back = "create"
          /\ job'[p].snap = mapping /\ job'[p].llm = ChosenLLM(mapping)
      BY <2>2, <3>2, EnsureLLMKeeps
    <3> USE <1>0, <2>1, <2>2, <3>3 DEF Elsewhere, InLLM, Purging, Toward
    <3>4. SetUp(job[p])'
      BY DEF SetUp
    <3>5. Registering(job[p])'
      BY DEF Registering
    <3>6. Preferring(job[p])'
      BY DEF Preferring, ChosenLLM
    <3> QED BY <3>4, <3>5, <3>6
  <2>3. CASE Finish(p)
    BY <1>1, <2>1, <2>3
  <2> QED BY <1>2, <2>2, <2>3, FaultEndsCalm DEF EnsureAssistant
<1>3. CASE CreateAssistant(p)
  <2>1. job[p].pc = "create" /\ UNCHANGED <<user, mapping, keys>>
    BY <1>3 DEF CreateAssistant, At, local
  <2>2. /\ mapping # None /\ mapping.assistant = 0 /\ assistant = None /\ made = 0
        /\ job[p].snap.id = mapping.id /\ job[p].llm = ChosenLLM(mapping)
    BY <1>0, <2>1 DEF Preferring, SetUp, Toward, Counts
  <2>3. CASE NewAssistant(p) /\ Become(p, [job[p] EXCEPT !.pc = "saveId", !.id = made + 1])
    <3>1. job'[p].pc = "saveId" /\ job'[p].snap = job[p].snap
      BY <1>0, <2>3 DEF Become, Jobs, Job
    <3>2. job[p].llm \in Models
      BY <2>1 DEF Jobs, GoodJob, Shape
    <3>3. assistant' \in Assistant /\ assistant'.llm = job[p].llm /\ made' = 1
      BY <2>2, <2>3, <3>2 DEF NewAssistant, Assistant
    <3>4. assistant' # None
      BY <3>3, NoneIsNoRow
    <3> USE <1>0, <2>1, <2>2, <3>1, <3>3, <3>4 DEF InLLM, Purging, Toward
    <3>5. SetUp(job[p])'
      BY DEF SetUp
    <3>6. Registering(job[p])'
      BY DEF Registering
    <3>7. Preferring(job[p])'
      BY DEF Preferring, ChosenLLM
    <3> QED BY <3>5, <3>6, <3>7
  <2>4. CASE Finish(p) /\ UNCHANGED <<assistant, made>>
    BY <1>1, <2>1, <2>4 DEF Elsewhere
  <2> QED BY <1>3, <2>2, <2>3, <2>4, FaultEndsCalm DEF CreateAssistant
<1>4. CASE RecoverAssistant(p)
  BY <1>4 DEF RecoverAssistant, At, Preferring
<1>5. CASE SaveAssistantID(p)
  <2>1. /\ job[p].pc = "saveId" /\ Finish(p) /\ UNCHANGED <<user, keys, assistant, made>>
    BY <1>5 DEF SaveAssistantID, At, remote
  <2>2. /\ mapping # None /\ job[p].snap.id = mapping.id
        /\ assistant # None /\ assistant.llm = ChosenLLM(mapping) /\ assistant.id = job[p].id
    BY <1>0, <2>1 DEF Preferring, Grounds
  <2>3. mapping' = [mapping EXCEPT !.assistant = job[p].id]
    BY <1>5, <2>2, FaultEndsCalm DEF SaveAssistantID, UpdateMapping, Holds
  <2>4. assistant \in Assistant /\ assistant.id # 0
    BY <2>2 DEF Records, Assistant
  <2>5. /\ mapping' \in Mapping /\ mapping'.key = mapping.key /\ mapping'.pref = mapping.pref
        /\ mapping'.assistant # 0
    BY <1>0, <2>2, <2>3, <2>4 DEF Records, Mapping, Job
  <2>6. mapping' # None
    BY <2>5, NoneIsNoRow
  <2>7. job'[p].pc \in Resting
    BY <2>1, FinishRests
  <2> USE <1>0, <2>1, <2>2, <2>5, <2>6, <2>7 DEF InLLM, Purging, Toward, Resting
  <2>8. SetUp(job[p])'
    BY DEF SetUp
  <2>9. Registering(job[p])'
    BY DEF Registering
  <2>10. Preferring(job[p])'
    BY DEF Preferring, ChosenLLM
  <2> QED BY <2>8, <2>9, <2>10
<1> QED BY <1>2, <1>3, <1>4, <1>5

LEMMA PreferenceSettles ==
  ASSUME TypeInv, NEW p \in Procs, Settled(job[p]), calm',
         PreferRead(p) \/ PreferReread(p) \/ PreferRemote(p) \/ PreferSave(p)
  PROVE  Settled(job[p])'
<1> USE DEF TypeInv, Settled
<1>0. /\ user /\ job[p] \in Job
      /\ job[p].pc \in {"prefer", "prefReread", "prefRemote", "prefSave"}
  BY UserIsThere DEF PreferRead, PreferReread, PreferRemote, PreferSave, At, Purging, Jobs, GoodJob
<1>1. ASSUME Elsewhere, job[p].pc # "prefSave", End(p) PROVE Settled(job[p])'
  BY <1>0, <1>1, EndKeeps, RestSettles DEF Resting
<1>2. CASE PreferRead(p) \/ PreferReread(p)
  <2> DEFINE j == [job[p] EXCEPT !.snap = mapping]
  <2>1. Elsewhere /\ job[p].pc \in {"prefer", "prefReread"}
    BY <1>2 DEF PreferRead, PreferReread, Elsewhere, At, local, remote
  <2>2. CASE mapping # None /\ Prefer(p)
    <3>1. j \in Job /\ j.snap = mapping
      BY <1>0, <2>2 DEF Records, Job
    <3>2. Become(p, [j EXCEPT !.pc = "prefRemote"]) \/ EnsureLLM(p, j, "prefRemote")
      BY <2>2 DEF Prefer
    <3> HIDE DEF j
    <3>3. ASSUME Become(p, [j EXCEPT !.pc = "prefRemote"])
          PROVE  job'[p].pc = "prefRemote" /\ job'[p].snap = mapping
      BY <3>1, <3>3 DEF Become, Jobs, Job
    <3>4. /\ job'[p].snap = mapping
          /\ job'[p].pc = "prefRemote" \/ (job'[p].pc = "llm" /\ job'[p].back = "prefRemote")
      BY <3>1, <3>2, <3>3, EnsureLLMKeeps
    <3> USE <1>0, <2>1, <2>2, <3>4 DEF Elsewhere, InLLM, Purging, Toward
    <3>5. SetUp(job[p])'
      BY DEF SetUp
    <3>6. Registering(job[p])'
      BY DEF Registering
    <3>7. Preferring(job[p])'
      BY DEF Preferring
    <3> QED BY <3>5, <3>6, <3>7
  <2>3. CASE End(p)
    BY <1>1, <2>1, <2>3
  <2>4. CASE PreferRead(p) /\ mapping = None /\ Goto(p, "lookup")
    <3>1. job'[p].pc = "lookup" /\ job'[p].snap = job[p].snap
      BY <2>4, GotoKeeps
    <3>2. job'[p].snap = None
      BY <2>4, <3>1 DEF PreferRead, At, Registering
    <3> QED BY <1>0, <2>1, <2>4, <3>1, <3>2
         DEF Elsewhere, SetUp, Registering, Preferring, Purging, Toward, InLLM
  <2> QED BY <1>2, <2>2, <2>3, <2>4, FaultEndsCalm DEF PreferRead, PreferReread
<1>3. CASE PreferRemote(p)
  <2>1. /\ job[p].pc = "prefRemote" /\ mapping # None /\ job[p].snap.id = mapping.id
        /\ job[p].snap.assistant = mapping.assistant
    BY <1>3 DEF PreferRemote, At, Preferring, Toward
  <2>2. UNCHANGED <<user, mapping, keys, made>>
    BY <1>3 DEF PreferRemote, local
  <2>3. CASE Goto(p, "prefSave") /\ mapping.assistant = 0 /\ UNCHANGED assistant
    <3>1. job'[p].pc = "prefSave" /\ job'[p].snap = job[p].snap
      BY <2>3, GotoKeeps
    <3> QED BY <1>0, <2>1, <2>2, <2>3, <3>1
         DEF SetUp, Registering, Preferring, Purging, Toward, InLLM
  <2>4. CASE /\ mapping.assistant # 0 /\ assistant # None
             /\ assistant' = [assistant EXCEPT !.llm = job[p].want] /\ Goto(p, "prefSave")
    <3>1. /\ job'[p].pc = "prefSave" /\ job'[p].snap = job[p].snap
          /\ job'[p].want = job[p].want
      BY <2>4, GotoKeeps
    <3>2. job[p].want \in Models
      BY <2>1 DEF Jobs, GoodJob, Shape
    <3>3. assistant' \in Assistant /\ assistant'.llm = job[p].want
      BY <2>4, <3>2 DEF Records, Assistant
    <3>4. assistant' # None
      BY <3>3, NoneIsNoRow
    <3> QED BY <1>0, <2>1, <2>2, <2>4, <3>1, <3>3, <3>4
         DEF SetUp, Registering, Preferring, Purging, Toward, InLLM
  <2>5. CASE UNCHANGED assistant /\ End(p)
    BY <1>1, <2>1, <2>2, <2>5 DEF Elsewhere
  <2> QED BY <1>3, <2>1, <2>3, <2>4, <2>5, FaultEndsCalm DEF PreferRemote, Updatable
<1>4. CASE PreferSave(p)
  <2>1. /\ job[p].pc = "prefSave" /\ mapping # None /\ job[p].snap.id = mapping.id
        /\ job[p].snap.assistant = mapping.assistant
    BY <1>4 DEF PreferSave, At, Preferring
  <2>2. UNCHANGED <<user, keys, assistant, made>>
    BY <1>4 DEF PreferSave, remote
  <2>3. mapping' = [mapping EXCEPT !.pref = job[p].want]
    BY <1>4, <2>1, FaultEndsCalm DEF PreferSave, UpdateMapping, Holds
  <2>4. /\ mapping' \in Mapping /\ mapping'.key = mapping.key /\ mapping'.pref = job[p].want
        /\ mapping'.assistant = mapping.assistant
    BY <1>0, <2>1, <2>3 DEF Records, Mapping, Job
  <2>5. mapping' # None
    BY <2>4, NoneIsNoRow
  <2>6. job'[p].pc = "idle" \/ (job'[p].pc = "lookup" /\ job'[p].snap = None)
    <3>1. CASE Become(p, [Idle EXCEPT !.pc = "lookup", !.goal = "resources"])
      BY <3>1 DEF Become, Jobs, Idle
    <3> QED BY <1>4, <3>1, FaultEndsCalm, EndKeeps DEF PreferSave
  <2> QED BY <1>0, <2>1, <2>2, <2>4, <2>5, <2>6
       DEF SetUp, Registering, Preferring, Purging, Toward, InLLM
<1> QED BY <1>2, <1>3, <1>4

LEMMA PurgeSettles ==
  ASSUME TypeInv, AllGrounds, NEW p \in Procs, Settled(job[p]), calm',
         PurgeRead(p) \/ PurgeRemote(p) \/ PurgeRow(p)
  PROVE  Settled(job[p])'
<1> USE DEF TypeInv, Settled
<1>0. /\ ~user /\ job[p] \in Job /\ job[p].pc \in Purging
      /\ user' = user /\ keys' = keys /\ made' = made
  BY DEF PurgeRead, PurgeRemote, PurgeRow, At, AllGrounds, Grounds, Purging, Jobs, GoodJob,
     local, remote
<1>1. ASSUME mapping' = mapping \/ mapping' = None,
             job'[p].pc \in Purging \/ (job'[p].pc = "idle" /\ mapping' = None)
      PROVE  Settled(job[p])'
  BY <1>0, <1>1 DEF SetUp, Registering, Preferring, Purging, Toward, InLLM
<1>2. CASE PurgeRead(p)
  <2>1. mapping' = mapping
    BY <1>2 DEF PurgeRead, local
  <2>2. CASE Become(p, [job[p] EXCEPT !.pc = "purgeRemote", !.snap = mapping])
    <3>1. job'[p].pc = "purgeRemote"
      BY <1>0, <2>2 DEF Become, Jobs, Job
    <3> QED BY <1>1, <2>1, <3>1 DEF Purging
  <2>3. CASE End(p) /\ mapping = None
    BY <1>1, <2>1, <2>3, EndKeeps
  <2> QED BY <1>2, <2>2, <2>3, FaultEndsCalm DEF PurgeRead
<1>3. CASE PurgeRemote(p)
  BY <1>1, <1>3, GotoKeeps DEF PurgeRemote, Purging, local
<1>4. CASE PurgeRow(p)
  BY <1>1, <1>4, FaultEndsCalm, EndKeeps DEF PurgeRow
<1> QED BY <1>2, <1>3, <1>4

LEMMA StepSettles ==
  ASSUME TypeInv, AllGrounds, NEW p \in Procs, Settled(job[p]), calm', Step(p)
  PROVE  Settled(job[p])'
BY RegistrationSettles, LLMSettles, AssistantSettles, PreferenceSettles, PurgeSettles, Zenon
   DEF Step

(* A goroutine that goes on calmly is the only one, without a fault.        *)
LEMMA CalmStaysAlone ==
  ASSUME TypeInv, CalmInv, NEW p \in Procs, Request(p) \/ Step(p), calm'
  PROVE  calm /\ Only(p)
<1>1. CASE Request(p)
  BY <1>1 DEF Request, GetClientForUser, EnsureUserResources, SetPreference, DeleteUser, Start,
     AllIdle, Only, Busy
<1>2. CASE Step(p)
  <2>1. NoFault
    BY <1>2, FaultEndsCalm DEF Step, Lookup, ProvisionUser, Register, Login, GenerateAPIKey,
       SaveMapping, CacheClient, LLMRead, LLMLogin, SetLLMAPIKey, SetTenantInfo, MarkConfigured,
       EnsureAssistant, CreateAssistant, RecoverAssistant, SaveAssistantID, PreferRead,
       PreferReread, PreferRemote, PreferSave, PurgeRead, PurgeRemote, PurgeRow
  <2>2. Busy(p)
    BY <1>2 DEF Busy, At, Step, Lookup, ProvisionUser, Register, Login, GenerateAPIKey,
       SaveMapping, CacheClient, LLMRead, LLMLogin, SetLLMAPIKey, SetTenantInfo, MarkConfigured,
       EnsureAssistant, CreateAssistant, RecoverAssistant, SaveAssistantID, PreferRead,
       PreferReread, PreferRemote, PreferSave, PurgeRead, PurgeRemote, PurgeRow
  <2> QED BY <2>1, <2>2 DEF NoFault, CalmInv, Only
<1> QED BY <1>1, <1>2

LEMMA InitCalm == Init => CalmInv
<1> SUFFICES ASSUME Init PROVE CalmInv
  OBVIOUS
<1>1. ASSUME NEW p \in Procs PROVE job[p].pc = "idle"
  BY DEF Init, Idle
<1>2. user /\ mapping = None /\ keys = 0 /\ assistant = None /\ made = 0
  BY DEF Init
<1>3. ASSUME NEW p \in Procs PROVE Settled(job[p])
  BY <1>1, <1>2 DEF Settled, SetUp, Registering, Preferring, Purging, Toward, InLLM
<1> QED BY <1>1, <1>3 DEF CalmInv, Busy, At

LEMMA NextCalm == TypeInv /\ AllGrounds /\ CalmInv /\ [Next]_vars => CalmInv'
<1> SUFFICES ASSUME TypeInv, AllGrounds, CalmInv, [Next]_vars, calm'
             PROVE  /\ \A p, q \in Procs : Busy(p)' /\ Busy(q)' => p = q
                    /\ \A p \in Procs : Only(p)' => Settled(job[p])'
  BY DEF CalmInv
<1>1. ASSUME NEW p \in Procs, Request(p) \/ Step(p)
      PROVE  /\ \A r, q \in Procs : Busy(r)' /\ Busy(q)' => r = q
             /\ \A q \in Procs : Only(q)' => Settled(job[q])'
  <2>1. calm /\ Only(p) /\ Settled(job[p])
    BY <1>1, CalmStaysAlone DEF CalmInv
  <2>2. Settled(job[p])'
    BY <1>1, <2>1, RequestSettles, StepSettles
  <2>3. Moves(p)
    BY <1>1, StartsMove, StepsMove
  <2>4. ASSUME NEW q \in Procs \ {p} PROVE job'[q] = job[q] /\ ~Busy(q) /\ ~Busy(q)'
    BY <2>1, <2>3 DEF Moves, Become, TypeInv, Jobs, Only, Busy, At
  <2>5. ASSUME NEW q \in Procs \ {p}, Only(q)' PROVE Settled(job[q])'
    <3>1. job'[p].pc = "idle" /\ job'[q].pc = "idle"
      BY <2>4, <2>5 DEF Only, Busy, At
    <3> QED BY <2>2, <3>1 DEF Settled, SetUp, Registering, Preferring, Purging, Toward, InLLM
  <2> QED BY <2>2, <2>4, <2>5
<1>2. CASE Crash
  <2>1. calm /\ AllIdle /\ UNCHANGED <<user, mapping, keys, assistant, made>>
    BY <1>2 DEF Crash, remote
  <2>2. ASSUME NEW p \in Procs PROVE job[p].pc = "idle" /\ job'[p].pc = "idle" /\ Settled(job[p])
    BY <1>2, <2>1 DEF Crash, Idle, AllIdle, At, CalmInv, Only, Busy
  <2>3. ASSUME NEW p \in Procs PROVE Settled(job[p])'
    BY <2>1, <2>2 DEF Settled, SetUp, Registering, Preferring, Purging, Toward, InLLM
  <2> QED BY <2>2, <2>3 DEF Busy, At
<1>3. CASE UNCHANGED vars
  <2>1. UNCHANGED <<user, mapping, keys, assistant, made, job, calm>>
    BY <1>3 DEF vars, local, remote
  <2> QED BY <2>1 DEF CalmInv, Busy, At, Only, Settled, SetUp, Registering, Preferring, Toward,
          ChosenLLM
<1> QED BY <1>1, <1>2, <1>3 DEF Next

LEMMA InitCalmly == Init => IInv /\ CalmInv
BY InitInv, InitCalm

LEMMA NextCalmly == IInv /\ CalmInv /\ [Next]_vars => (IInv /\ CalmInv)'
BY NextInv, NextCalm DEF IInv

(* There is a request that is alone, or none. *)
LEMMA SomeoneSettled ==
  ASSUME CalmInv, calm
  PROVE  \E p \in Procs : Only(p) /\ Settled(job[p])
<1>1. CASE \E p \in Procs : Busy(p)
  <2>1. PICK p \in Procs : Busy(p)
    BY <1>1
  <2> QED BY <2>1 DEF CalmInv, Only
<1>2. CASE \A p \in Procs : ~Busy(p)
  BY <1>2, ConstantsOK DEF CalmInv, Only
<1> QED BY <1>1, <1>2

(* Without faults and overlap, restarts between requests included, an        *)
(* account gets one key and one assistant (provisionUser).                   *)
THEOREM AccountIsSetUpOnce == Spec => []SetUpOnce
<1>1. CalmInv => SetUpOnce
  BY SomeoneSettled DEF SetUpOnce, Settled, SetUp
<1> QED BY <1>1, InitCalmly, NextCalmly, PTL DEF Spec

(* Without faults and overlap the assistant answers with the preferred model *)
(* (SetUserLLMPreference, ensureAssistant).                                  *)
THEOREM PreferenceIsApplied == Spec => []PreferenceApplied
<1>1. CalmInv => PreferenceApplied
  BY SomeoneSettled DEF PreferenceApplied, Settled, Preferring, AllIdle, At
<1> QED BY <1>1, InitCalmly, NextCalmly, PTL DEF Spec

(* Without faults and overlap the row of a deleted user goes with the user   *)
(* (HandleUserDeletion).                                                     *)
THEOREM DeletedUserIsForgotten == Spec => []DeletedUserForgotten
<1>1. CalmInv => DeletedUserForgotten
  BY SomeoneSettled DEF DeletedUserForgotten, Settled, Registering, AllIdle, At, Purging
<1> QED BY <1>1, InitCalmly, NextCalmly, PTL DEF Spec
=============================================================================
