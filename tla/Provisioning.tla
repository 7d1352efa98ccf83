---------------------------- MODULE Provisioning ----------------------------
(***************************************************************************)
(* The RAGFlow account of one user (plugin/ragflow/provisioner.go, the     *)
(* preference of server/router/api/v1/llm_service.go and the deletion of a *)
(* user in plugin/sync/orchestrator.go).                                   *)
(*                                                                         *)
(* Registration, the API key, the LLM provider and the chat assistant are  *)
(* made one after another by HTTP, the row of ragflow_user_mapping records *)
(* how far they got, and a cache of clients shortens the way. No lock is   *)
(* held over the slow path: every request that misses the cache walks it,  *)
(* beside the others. A step below is one remote call or one write, with   *)
(* the reads that decide on it.                                            *)
(***************************************************************************)
EXTENDS Naturals

CONSTANTS
  Procs,       \* bound: requests and sync goroutines of this user at a time
  Models,      \* model ids a user can prefer
  Default,     \* config.DefaultLLMID
  DashScope,   \* is config.DashScopeAPIKey set
  FaultKinds,  \* what may go wrong: "db", "rag", "crash"
  MaxFaults,   \* bound: how often something goes wrong
  MaxChanges,  \* bound: changes of the preference
  None

ASSUME ConstantsOK ==
  /\ Procs # {} /\ Default \in Models /\ None \notin Models
  /\ DashScope \in BOOLEAN
  /\ MaxFaults \in Nat /\ MaxChanges \in Nat

VARIABLES
  user,       \* is the user's row there
  mapping,    \* the row of ragflow_user_mapping, or None
  rows,       \* ids given to such rows so far (AUTOINCREMENT)
  cache,      \* Provisioner.clientCache: the key of the cached client, 0 if none
  account,    \* RAGFlow: the account exists,
  keys,       \*   how many API keys it has been given (all stay valid),
  provider,   \*   its TenantLLM table has the provider,
  defaults,   \*   the tenant's default models are set,
  assistant,  \*   the chat assistant of its fixed name, or None,
  made,       \*   ids given to assistants so far
  job,        \* what each goroutine is doing
  calm,       \* up to now no fault in a request, and no two requests at a time
  faults, changes

remote == <<account, keys, provider, defaults, assistant, made>>
local == <<user, mapping, rows, cache>>
vars == <<local, remote, job, calm, faults, changes>>

Mapping == [id: Nat \ {0}, key: Nat, llm: BOOLEAN, assistant: Nat, pref: Models \cup {None}]
Assistant == [id: Nat \ {0}, llm: Models]

ASSUME NoneIsNoRow == None \notin Mapping \cup Assistant

(* goal: what GetClientForUser and EnsureUserResources are called for; back: *)
(* where EnsureLLMConfig returns to; id: the row it marks, then the id of    *)
(* the assistant; llm: the model for the assistant; want: the preference.    *)
PC == {"idle", "lookup", "read", "register", "login", "key", "save",
       "llm", "llmLogin", "provider", "defaults", "flag", "cache",
       "assist", "create", "recover", "saveId",
       "prefer", "prefReread", "prefRemote", "prefSave", "purge", "purgeRemote", "purgeRow"}
Job == [pc: PC, goal: {"client", "resources", "prefer"}, back: PC,
        snap: Mapping \cup {None}, client: Nat, id: Nat,
        llm: Models \cup {None}, want: Models \cup {None}]

Idle == [pc |-> "idle", goal |-> "client", back |-> "idle", snap |-> None,
         client |-> 0, id |-> 0, llm |-> None, want |-> None]

Init ==
  /\ user = TRUE /\ mapping = None /\ rows = 0 /\ cache = 0
  /\ account = FALSE /\ keys = 0 /\ provider = ~DashScope /\ defaults = FALSE
  /\ assistant = None /\ made = 0
  /\ job = [p \in Procs |-> Idle]
  /\ calm = TRUE /\ faults = 0 /\ changes = 0

-----------------------------------------------------------------------------
Fault(kind) ==
  kind \in FaultKinds /\ faults < MaxFaults /\ faults' = faults + 1 /\ calm' = FALSE
NoFault == UNCHANGED <<faults, calm>>

At(p, pc) == job[p].pc = pc
AllIdle == \A p \in Procs : At(p, "idle")
Become(p, j) == job' = [job EXCEPT ![p] = j]
Goto(p, pc) == Become(p, [job[p] EXCEPT !.pc = pc])
End(p) == Become(p, Idle)

Start(p, j) ==
  /\ user /\ At(p, "idle")
  /\ Become(p, j)
  /\ calm' = (calm /\ AllIdle)

(* UPDATE ... WHERE id = ?: a row that is gone, or another one by now, is no error. *)
Holds(id) == mapping # None /\ mapping.id = id
UpdateMapping(id, new) == mapping' = IF Holds(id) THEN new ELSE mapping

-----------------------------------------------------------------------------
(* Requests: a sync asks for the client, a chat for client and assistant. *)

GetClientForUser(p) ==
  /\ Start(p, [Idle EXCEPT !.pc = "lookup"])
  /\ UNCHANGED <<local, remote, faults, changes>>

EnsureUserResources(p) ==
  /\ Start(p, [Idle EXCEPT !.pc = "lookup", !.goal = "resources"])
  /\ UNCHANGED <<local, remote, faults, changes>>

(* The way on once there is a client; an error ends every request. *)
Got(p, client) ==
  IF job[p].goal = "client" THEN End(p)
  ELSE Become(p, [job[p] EXCEPT !.pc = "assist", !.client = client, !.snap = None])

Lookup(p) ==
  /\ At(p, "lookup") /\ NoFault
  /\ IF cache # 0 THEN Got(p, cache) ELSE Goto(p, "read")
  /\ UNCHANGED <<local, remote, changes>>

EnsureLLM(p, j, back) == Become(p, [j EXCEPT !.pc = "llm", !.back = back])

(* A row is only ever written with the account's id in it: one without a key *)
(* is that of a registered user.                                             *)
ProvisionUser(p) ==
  /\ At(p, "read")
  /\ \/ /\ NoFault /\ mapping # None /\ mapping.key # 0
        /\ EnsureLLM(p, [job[p] EXCEPT !.client = mapping.key], "cache")
     \/ /\ NoFault /\ mapping # None /\ mapping.key = 0
        /\ Become(p, [job[p] EXCEPT !.pc = "login", !.snap = mapping])
     \/ /\ NoFault /\ mapping = None
        /\ Goto(p, "register")
     \/ Fault("db") /\ End(p)
  /\ UNCHANGED <<local, remote, changes>>

(* A call that fails for the caller may have been carried out. *)
Register(p) ==
  /\ At(p, "register")
  /\ \/ NoFault /\ account' = TRUE /\ Goto(p, IF account THEN "login" ELSE "key")
     \/ Fault("rag") /\ account' \in {account, TRUE} /\ End(p)
  /\ UNCHANGED <<local, keys, provider, defaults, assistant, made, changes>>

Login(p) ==
  /\ At(p, "login")
  /\ \/ NoFault /\ Goto(p, "key")
     \/ Fault("rag") /\ End(p)
  /\ UNCHANGED <<local, remote, changes>>

(* After a registration a missing key is saved as an empty one. *)
GenerateAPIKey(p) ==
  /\ At(p, "key")
  /\ \/ /\ NoFault /\ keys' = keys + 1
        /\ Become(p, [job[p] EXCEPT !.pc = "save", !.client = keys + 1])
     \/ /\ Fault("rag") /\ keys' \in {keys, keys + 1}
        /\ IF job[p].snap = None THEN Goto(p, "save") ELSE End(p)
  /\ UNCHANGED <<local, account, provider, defaults, assistant, made, changes>>

NewMappingWithoutKey(key) ==
  [id |-> rows + 1, key |-> 0, llm |-> FALSE, assistant |-> 0, pref |-> None]
NewMappingFromZero(key) ==
  [id |-> rows, key |-> key, llm |-> FALSE, assistant |-> 0, pref |-> None]
NewMapping(key) ==
  [id |-> rows + 1, key |-> key, llm |-> FALSE, assistant |-> 0, pref |-> None]

(* user_id is UNIQUE: the second of two first registrations is an error. *)
InsertOrReplace(p) ==
  mapping' = NewMapping(job[p].client) /\ rows' = rows + 1
Insert(p) ==
  \/ mapping = None /\ mapping' = NewMapping(job[p].client) /\ rows' = rows + 1
  \/ mapping # None /\ UNCHANGED <<mapping, rows>>

(* saveMapping, and the UPDATE of a later login. Its errors are only logged. *)
SaveMapping(p) ==
  /\ At(p, "save")
  /\ \/ NoFault /\ job[p].snap = None /\ Insert(p)
     \/ /\ NoFault /\ job[p].snap # None
        /\ UpdateMapping(job[p].snap.id, [mapping EXCEPT !.key = job[p].client])
        /\ UNCHANGED rows
     \/ Fault("db") /\ UNCHANGED <<mapping, rows>>
  /\ IF job[p].client = 0 THEN End(p) ELSE EnsureLLM(p, job[p], "cache")
  /\ UNCHANGED <<user, cache, remote, changes>>

CacheClient(p) ==
  /\ At(p, "cache") /\ NoFault
  /\ cache' = job[p].client
  /\ Got(p, job[p].client)
  /\ UNCHANGED <<user, mapping, rows, remote, changes>>

-----------------------------------------------------------------------------
(* EnsureLLMConfig: each caller goes on, whatever comes of it. *)

Back(p) == Goto(p, job[p].back)

LLMRead(p) ==
  /\ At(p, "llm")
  /\ \/ /\ NoFault /\ DashScope /\ mapping # None /\ ~mapping.llm
        /\ Become(p, [job[p] EXCEPT !.pc = "llmLogin", !.id = mapping.id])
     \/ NoFault /\ (DashScope /\ mapping # None => mapping.llm) /\ Back(p)
     \/ DashScope /\ Fault("db") /\ Back(p)
  /\ UNCHANGED <<local, remote, changes>>

LLMLogin(p) ==
  /\ At(p, "llmLogin")
  /\ \/ NoFault /\ Goto(p, "provider")
     \/ Fault("rag") /\ Back(p)
  /\ UNCHANGED <<local, remote, changes>>

(* "already configured" counts as success. *)
SetLLMAPIKeyBestEffort(p) ==
  /\ At(p, "provider")
  /\ \/ NoFault /\ provider' = TRUE /\ Goto(p, "defaults")
     \/ Fault("rag") /\ provider' \in {provider, TRUE} /\ Goto(p, "defaults")
  /\ UNCHANGED <<local, account, keys, defaults, assistant, made, changes>>
SetLLMAPIKey(p) ==
  /\ At(p, "provider")
  /\ \/ NoFault /\ provider' = TRUE /\ Goto(p, "defaults")
     \/ Fault("rag") /\ provider' \in {provider, TRUE} /\ Back(p)
  /\ UNCHANGED <<local, account, keys, defaults, assistant, made, changes>>

(* The user is marked as configured whether or not this succeeds. *)
SetTenantInfo(p) ==
  /\ At(p, "defaults")
  /\ \/ NoFault /\ defaults' = TRUE
     \/ Fault("rag") /\ defaults' \in {defaults, TRUE}
  /\ Goto(p, "flag")
  /\ UNCHANGED <<local, account, keys, provider, assistant, made, changes>>

MarkConfigured(p) ==
  /\ At(p, "flag")
  /\ \/ NoFault /\ UpdateMapping(job[p].id, [mapping EXCEPT !.llm = TRUE])
     \/ Fault("db") /\ UNCHANGED mapping
  /\ Back(p)
  /\ UNCHANGED <<user, rows, cache, remote, changes>>

-----------------------------------------------------------------------------
(* EnsureUserResources after its client, and ensureAssistant. Nothing here   *)
(* is an error to the caller.                                                *)

Finish(p) ==
  IF job[p].goal = "prefer" THEN Goto(p, "prefReread") ELSE End(p)

ChosenLLMDefault(m) == Default
ChosenLLM(m) == IF m.pref # None THEN m.pref ELSE Default

EnsureAssistant(p) ==
  /\ At(p, "assist")
  /\ \/ /\ NoFault /\ mapping # None /\ mapping.assistant = 0
        /\ EnsureLLM(p, [job[p] EXCEPT !.snap = mapping, !.llm = ChosenLLM(mapping)], "create")
     \/ NoFault /\ (mapping # None => mapping.assistant # 0) /\ Finish(p)
     \/ Fault("db") /\ Finish(p)
  /\ UNCHANGED <<local, remote, changes>>

(* RAGFlow refuses a model its tenant has not configured, and a second       *)
(* assistant of the same name.                                               *)
NewAssistant(p) ==
  /\ assistant = None /\ provider
  /\ assistant' = [id |-> made + 1, llm |-> job[p].llm]
  /\ made' = made + 1

CreateAssistant(p) ==
  /\ At(p, "create")
  /\ \/ /\ NoFault /\ NewAssistant(p)
        /\ Become(p, [job[p] EXCEPT !.pc = "saveId", !.id = made + 1])
     \/ NoFault /\ assistant # None /\ Goto(p, "recover") /\ UNCHANGED <<assistant, made>>
     \/ NoFault /\ assistant = None /\ ~provider /\ Finish(p) /\ UNCHANGED <<assistant, made>>
     \/ Fault("rag") /\ Finish(p) /\ (NewAssistant(p) \/ UNCHANGED <<assistant, made>>)
  /\ UNCHANGED <<local, account, keys, provider, defaults, changes>>

(* The answer to a creation was lost: the assistant is found by its name. *)
RecoverNothing(p) ==
  /\ At(p, "recover") /\ NoFault /\ Finish(p)
  /\ UNCHANGED <<local, remote, changes>>
RecoverAssistant(p) ==
  /\ At(p, "recover")
  /\ \/ /\ NoFault /\ assistant # None
        /\ Become(p, [job[p] EXCEPT !.pc = "saveId", !.id = assistant.id])
     \/ ((NoFault /\ assistant = None) \/ Fault("rag")) /\ Finish(p)
  /\ UNCHANGED <<local, remote, changes>>

SaveAssistantID(p) ==
  /\ At(p, "saveId")
  /\ \/ NoFault /\ UpdateMapping(job[p].snap.id, [mapping EXCEPT !.assistant = job[p].id])
     \/ Fault("db") /\ UNCHANGED mapping
  /\ Finish(p)
  /\ UNCHANGED <<user, rows, cache, remote, changes>>

-----------------------------------------------------------------------------
(* SetUserLLMPreference: RAGFlow first, the row after it. *)

SetPreference(p) ==
  /\ changes < MaxChanges /\ changes' = changes + 1
  /\ \E m \in Models : Start(p, [Idle EXCEPT !.pc = "prefer", !.goal = "prefer", !.want = m])
  /\ UNCHANGED <<local, remote, faults>>

(* The LLM is configured if the row, as read here, says it is not. *)
Prefer(p) ==
  LET j == [job[p] EXCEPT !.snap = mapping] IN
  IF mapping.llm THEN Become(p, [j EXCEPT !.pc = "prefRemote"]) ELSE EnsureLLM(p, j, "prefRemote")

PreferRead(p) ==
  /\ At(p, "prefer")
  /\ \/ NoFault /\ mapping # None /\ Prefer(p)
     \/ NoFault /\ mapping = None /\ Goto(p, "lookup")
     \/ Fault("db") /\ End(p)
  /\ UNCHANGED <<local, remote, changes>>

PreferReread(p) ==
  /\ At(p, "prefReread")
  /\ \/ NoFault /\ mapping # None /\ Prefer(p)
     \/ ((NoFault /\ mapping = None) \/ Fault("db")) /\ End(p)
  /\ UNCHANGED <<local, remote, changes>>

(* Whether there is an assistant to update is known from the first reading;  *)
(* UpdateUserAssistantLLM reads the row again for its key and its id.        *)
Updatable == mapping # None /\ mapping.key # 0 /\ mapping.assistant # 0
  /\ assistant # None /\ assistant.id = mapping.assistant

PreferRemote(p) ==
  /\ At(p, "prefRemote")
  /\ \/ NoFault /\ job[p].snap.assistant = 0 /\ Goto(p, "prefSave") /\ UNCHANGED assistant
     \/ /\ NoFault /\ job[p].snap.assistant # 0 /\ Updatable
        /\ assistant' = [assistant EXCEPT !.llm = job[p].want]
        /\ Goto(p, "prefSave")
     \/ /\ job[p].snap.assistant # 0
        /\ (NoFault /\ ~Updatable /\ UNCHANGED assistant)
             \/ (Fault("rag") /\ (UNCHANGED assistant
                  \/ (Updatable /\ assistant' = [assistant EXCEPT !.llm = job[p].want])))
        /\ End(p)
  /\ UNCHANGED <<local, account, keys, provider, defaults, made, changes>>

(* A missing assistant is made up for by a goroutine on the request's own    *)
(* context, which may be cancelled before it gets anywhere.                  *)
PreferSave(p) ==
  /\ At(p, "prefSave")
  /\ \/ /\ NoFault /\ UpdateMapping(job[p].snap.id, [mapping EXCEPT !.pref = job[p].want])
        /\ \/ End(p)
           \/ /\ job[p].snap.assistant = 0
              /\ Become(p, [Idle EXCEPT !.pc = "lookup", !.goal = "resources"])
     \/ Fault("db") /\ UNCHANGED mapping /\ End(p)
  /\ UNCHANGED <<user, rows, cache, remote, changes>>

-----------------------------------------------------------------------------
(* The user is deleted, then a goroutine cleans up (HandleUserDeletion). The *)
(* user's name can no longer be looked up, so it works with the system's key *)
(* and RAGFlow may let that delete another tenant's assistant or not.        *)

DeleteUser(p) ==
  /\ Start(p, [Idle EXCEPT !.pc = "purge"])
  /\ user' = FALSE
  /\ UNCHANGED <<mapping, rows, cache, remote, faults, changes>>

PurgeReadOfAssistant(p) ==
  /\ At(p, "purge") /\ NoFault
  /\ IF mapping # None /\ mapping.assistant # 0
     THEN Become(p, [job[p] EXCEPT !.pc = "purgeRemote", !.snap = mapping]) ELSE End(p)
  /\ UNCHANGED <<local, remote, changes>>
PurgeRead(p) ==
  /\ At(p, "purge")
  /\ \/ /\ NoFault /\ mapping # None
        /\ Become(p, [job[p] EXCEPT !.pc = "purgeRemote", !.snap = mapping])
     \/ ((NoFault /\ mapping = None) \/ Fault("db")) /\ End(p)
  /\ UNCHANGED <<local, remote, changes>>

PurgeRemote(p) ==
  /\ At(p, "purgeRemote")
  /\ NoFault \/ (job[p].snap.assistant # 0 /\ Fault("rag"))
  /\ assistant' \in {assistant,
       IF assistant # None /\ assistant.id = job[p].snap.assistant THEN None ELSE assistant}
  /\ Goto(p, "purgeRow")
  /\ UNCHANGED <<local, account, keys, provider, defaults, made, changes>>

(* DELETE ... WHERE user_id = ?. The cached client is not dropped. *)
PurgeRow(p) ==
  /\ At(p, "purgeRow")
  /\ \/ NoFault /\ mapping' = None
     \/ Fault("db") /\ UNCHANGED mapping
  /\ End(p)
  /\ UNCHANGED <<user, rows, cache, remote, changes>>

(* The process dies and starts again: the cache is all it forgets. *)
Crash ==
  /\ "crash" \in FaultKinds /\ faults < MaxFaults /\ faults' = faults + 1
  /\ calm' = (calm /\ AllIdle)
  /\ cache' = 0 /\ job' = [p \in Procs |-> Idle]
  /\ UNCHANGED <<user, mapping, rows, remote, changes>>

-----------------------------------------------------------------------------
Request(p) == GetClientForUser(p) \/ EnsureUserResources(p) \/ SetPreference(p) \/ DeleteUser(p)

Step(p) ==
  \/ Lookup(p) \/ ProvisionUser(p) \/ Register(p) \/ Login(p) \/ GenerateAPIKey(p)
  \/ SaveMapping(p) \/ CacheClient(p)
  \/ LLMRead(p) \/ LLMLogin(p) \/ SetLLMAPIKey(p) \/ SetTenantInfo(p) \/ MarkConfigured(p)
  \/ EnsureAssistant(p) \/ CreateAssistant(p) \/ RecoverAssistant(p) \/ SaveAssistantID(p)
  \/ PreferRead(p) \/ PreferReread(p) \/ PreferRemote(p) \/ PreferSave(p)
  \/ PurgeRead(p) \/ PurgeRemote(p) \/ PurgeRow(p)

Next == Crash \/ \E p \in Procs : Request(p) \/ Step(p)

Spec == Init /\ [][Next]_vars

(* Every goroutine goes on, and a user who is there opens the chat again     *)
(* and again; nobody has to prefer a model or delete the user.               *)
Fairness ==
  /\ \A p \in Procs : WF_vars(Step(p))
  /\ SF_vars(\E p \in Procs : EnsureUserResources(p))

FairSpec == Spec /\ Fairness

-----------------------------------------------------------------------------
(* Properties *)

(* Every variable holds what the code can store in it. *)
TypeOK ==
  /\ user \in BOOLEAN /\ mapping \in Mapping \cup {None} /\ rows \in Nat /\ cache \in Nat
  /\ account \in BOOLEAN /\ keys \in Nat /\ provider \in BOOLEAN /\ defaults \in BOOLEAN
  /\ assistant \in Assistant \cup {None} /\ made \in Nat
  /\ job \in [Procs -> Job]
  /\ calm \in BOOLEAN /\ faults \in Nat /\ changes \in Nat

(* However registrations race, fail and are taken up again, a stored API key *)
(* is never lost or emptied while its user is there (saveMapping).           *)
KeyKept ==
  [][mapping # None /\ mapping.key # 0 /\ user => mapping' # None /\ mapping'.key # 0]_vars

(* What the row says of RAGFlow is so: the provider is configured, and the   *)
(* assistant it names is the one RAGFlow has (EnsureLLMConfig,               *)
(* recoverAssistantByName), as long as the user is there.                    *)
RowIsTrue ==
  user /\ mapping # None =>
    /\ mapping.llm => provider
    /\ mapping.assistant # 0 => assistant # None /\ assistant.id = mapping.assistant

(* Without faults and overlap, restarts between requests included, an        *)
(* account is set up once: one key, one assistant (provisionUser).           *)
SetUpOnce == calm => keys <= 1 /\ made <= 1

(* Without faults and overlap the assistant answers with the preferred model *)
(* (SetUserLLMPreference, ensureAssistant).                                  *)
PreferenceApplied ==
  calm /\ AllIdle /\ user /\ mapping # None /\ mapping.assistant # 0 /\ mapping.pref # None
    => assistant.llm = mapping.pref

(* Without faults and overlap the row of a deleted user goes with the user   *)
(* (HandleUserDeletion).                                                     *)
DeletedUserForgotten == calm /\ AllIdle /\ ~user => mapping = None

Ready == mapping # None /\ mapping.key # 0 /\ mapping.assistant # 0

(* The one state nothing but a restart leads out of: the row could not be    *)
(* saved, but the client is cached.                                          *)
Forgotten == cache # 0 /\ (mapping = None \/ mapping.key = 0)

(* A user who keeps asking has a key and an assistant in the end, after any  *)
(* number of remote failures and crashes on the way.                         *)
EventuallyReady == <>(Ready \/ Forgotten \/ ~user)

(* A user marked as configured has default models: "the next retry tries     *)
(* again" (EnsureLLMConfig).                                                 *)
ConfiguredHasDefaults == AllIdle /\ user /\ mapping # None /\ mapping.llm => defaults
=============================================================================
