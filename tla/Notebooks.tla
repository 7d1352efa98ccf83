------------------------------ MODULE Notebooks ------------------------------
(***************************************************************************)
(* The notebooks of one user, the RAGFlow dataset behind each of them, and *)
(* the memos in them (server/router/api/v1/notebook_service.go, the        *)
(* notebook of CreateMemo, the datasets in plugin/sync/orchestrator.go and *)
(* the binding of the assistant in plugin/ragflow/provisioner.go).         *)
(*                                                                         *)
(* A dataset is made by HTTP and its id is written to the notebook's row   *)
(* in a step of its own, by the request that makes the notebook or, to     *)
(* make up for a failure, by whichever sync finds the row without one.     *)
(* The database is opened with foreign_keys(0): that a deleted notebook    *)
(* takes its id out of its memos is written in the schema but not done.    *)
(***************************************************************************)
EXTENDS Naturals, Sequences

CONSTANTS
  Procs,         \* bound: requests and sync goroutines at a time
  Memos,
  MaxNotebooks,  \* bound: notebooks ever made
  FaultKinds,    \* what may go wrong: "db", "rag", "crash"
  MaxFaults,     \* bound: how often something goes wrong
  None

ASSUME ConstantsOK ==
  Procs # {} /\ MaxNotebooks \in Nat /\ MaxFaults \in Nat /\ None \notin Nat

VARIABLES
  notebooks,  \* every row ever inserted, by its id
  memo,       \* memo.notebook_id: None before the memo exists, 0 for NULL
  made,       \* RAGFlow: datasets made so far; their ids are 1..made
  placed,     \* the dataset a memo was last synced into, 0 if none
  bound,      \* the datasets the chat assistant searches
  job,        \* what each request or goroutine is doing
  calm,       \* no fault and no two requests at a time up to now
  faults

vars == <<notebooks, memo, made, placed, bound, job, calm, faults>>

Notebook == [live: BOOLEAN, default: BOOLEAN, ds: Nat]
PC == {"idle", "default", "newDataset", "newRow", "dataset", "fill",
       "move", "remove", "memoRow", "bind"}

(* id: the notebook; dest: where its memos go; todo: those still to move, or *)
(* the memo at hand; ds: the dataset just made; list: the datasets to bind.  *)
Job == [pc: PC, id: Nat, dest: Nat, todo: SUBSET Memos, ds: Nat, list: SUBSET Nat]
Idle == [pc |-> "idle", id |-> 0, dest |-> 0, todo |-> {}, ds |-> 0, list |-> {}]

Init ==
  /\ notebooks = <<>> /\ memo = [m \in Memos |-> None]
  /\ made = 0 /\ placed = [m \in Memos |-> 0] /\ bound = {}
  /\ job = [p \in Procs |-> Idle]
  /\ calm = TRUE /\ faults = 0

-----------------------------------------------------------------------------
Fault(kind) ==
  kind \in FaultKinds /\ faults < MaxFaults /\ faults' = faults + 1 /\ calm' = FALSE
NoFault == UNCHANGED <<faults, calm>>

At(p, pc) == job[p].pc = pc
AllIdle == \A p \in Procs : At(p, "idle")
Become(p, j) == job' = [job EXCEPT ![p] = j]
Goto(p, pc) == Become(p, [job[p] EXCEPT !.pc = pc])
End(p) == Become(p, Idle)

Start(p) == At(p, "idle") /\ calm' = (calm /\ AllIdle) /\ UNCHANGED faults

Ids == {i \in DOMAIN notebooks : notebooks[i].live}
Defaults == {i \in Ids : notebooks[i].default}
Room == Len(notebooks) < MaxNotebooks
Insert(default, ds) ==
  notebooks' = Append(notebooks, [live |-> TRUE, default |-> default, ds |-> ds])

-----------------------------------------------------------------------------
(* ListNotebooks makes the default notebook of a user who has no notebook. *)
ListNotebooks(p) ==
  /\ Start(p) /\ Ids = {} /\ Room
  /\ Goto(p, "default")
  /\ UNCHANGED <<notebooks, memo, made, placed, bound>>

(* At most one default per creator: the index refuses another one. *)
NoDefaultChecked == TRUE
NoDefaultYet == Defaults = {}

EnsureDefaultNotebook(p) ==
  /\ At(p, "default") /\ Room
  /\ \/ /\ NoFault /\ NoDefaultYet /\ Insert(TRUE, 0)
        /\ Become(p, [job[p] EXCEPT !.pc = "dataset", !.id = Len(notebooks) + 1])
     \/ ((NoFault /\ ~NoDefaultYet) \/ Fault("db")) /\ End(p) /\ UNCHANGED notebooks
  /\ UNCHANGED <<memo, made, placed, bound>>

(* CreateNotebook asks for the dataset first and goes on without one. *)
CreateNotebook(p) ==
  /\ Start(p) /\ Room
  /\ Goto(p, "newDataset")
  /\ UNCHANGED <<notebooks, memo, made, placed, bound>>

(* A call that fails for the caller may have been carried out. *)
CreateNotebookDataset(p) ==
  /\ At(p, "newDataset")
  /\ \/ NoFault /\ made' = made + 1 /\ Become(p, [job[p] EXCEPT !.pc = "newRow", !.ds = made + 1])
     \/ Fault("rag") /\ made' \in {made, made + 1} /\ Goto(p, "newRow")
  /\ UNCHANGED <<notebooks, memo, placed, bound>>

InsertNotebook(p) == Insert(FALSE, job[p].ds)

CreateNotebookRow(p) ==
  /\ At(p, "newRow") /\ Room
  /\ \/ NoFault /\ InsertNotebook(p)
     \/ Fault("db") /\ UNCHANGED notebooks
  /\ End(p)
  /\ UNCHANGED <<memo, made, placed, bound>>

-----------------------------------------------------------------------------
(* DeleteNotebook: the memos, as listed now, go to the default notebook one  *)
(* by one, then the row goes. The dataset stays.                             *)

InNotebook(i) == {m \in Memos : memo[m] = i}
TheDefault == IF Defaults = {} THEN 0 ELSE CHOOSE i \in Defaults : TRUE

DeleteRowOnly(p) ==
  /\ Start(p)
  /\ \E i \in Ids \ Defaults : Become(p, [job[p] EXCEPT !.id = i, !.pc = "remove"])
  /\ UNCHANGED <<notebooks, memo, made, placed, bound>>
DeleteNotebook(p) ==
  /\ Start(p)
  /\ \E i \in Ids \ Defaults :
       Become(p, [job[p] EXCEPT !.id = i, !.dest = TheDefault,
            !.pc = IF TheDefault = 0 THEN "remove" ELSE "move",
            !.todo = IF TheDefault = 0 THEN {} ELSE InNotebook(i)])
  /\ UNCHANGED <<notebooks, memo, made, placed, bound>>

(* A memo that cannot be moved is only logged. *)
MoveMemo(p) ==
  /\ At(p, "move")
  /\ \/ /\ job[p].todo = {} /\ NoFault /\ Goto(p, "remove") /\ UNCHANGED memo
     \/ \E m \in job[p].todo :
          /\ \/ NoFault /\ memo' = [memo EXCEPT ![m] = job[p].dest]
             \/ Fault("db") /\ UNCHANGED memo
          /\ Become(p, [job[p] EXCEPT !.todo = @ \ {m}])
  /\ UNCHANGED <<notebooks, made, placed, bound>>

RemoveNotebook(p) ==
  /\ At(p, "remove")
  /\ \/ NoFault /\ notebooks' = [notebooks EXCEPT ![job[p].id].live = FALSE]
     \/ Fault("db") /\ UNCHANGED notebooks
  /\ End(p)
  /\ UNCHANGED <<memo, made, placed, bound>>

-----------------------------------------------------------------------------
(* CreateMemo names a notebook of the list it was given, or leaves it to the *)
(* default one; an error in looking that up counts as if there were none.    *)
(* The MCP server's create_memo never names one.                             *)
CreateMemo(p) ==
  /\ At(p, "idle")
  /\ \E m \in Memos :
       /\ memo[m] = None /\ \A q \in Procs : At(q, "memoRow") => m \notin job[q].todo
       /\ \/ /\ Start(p)
             /\ \E i \in Ids \cup {TheDefault} :
                  Become(p, [job[p] EXCEPT !.pc = "memoRow", !.id = i, !.todo = {m}])
          \/ /\ Fault("db")
             /\ Become(p, [job[p] EXCEPT !.pc = "memoRow", !.todo = {m}])
  /\ UNCHANGED <<notebooks, memo, made, placed, bound>>

CreateMemoByMCP(p) ==
  /\ Start(p)
  /\ \E m \in Memos :
       /\ memo[m] = None /\ \A q \in Procs : At(q, "memoRow") => m \notin job[q].todo
       /\ Become(p, [job[p] EXCEPT !.pc = "memoRow", !.todo = {m}])
  /\ UNCHANGED <<notebooks, memo, made, placed, bound>>

InsertMemo(p) ==
  /\ At(p, "memoRow")
  /\ \/ NoFault /\ memo' = [m \in Memos |-> IF m \in job[p].todo THEN job[p].id ELSE memo[m]]
     \/ Fault("db") /\ UNCHANGED memo
  /\ End(p)
  /\ UNCHANGED <<notebooks, made, placed, bound>>

-----------------------------------------------------------------------------
(* A sync resolves the dataset of a memo's notebook, as far as the notebook  *)
(* is still there, and makes one if the row, as read, names none.            *)
Homed(m) == memo[m] \in Ids

ResolveAlwaysEmpty(p, m) ==
  /\ Start(p) /\ Homed(m)
  /\ Become(p, [job[p] EXCEPT !.pc = "dataset", !.id = memo[m], !.todo = {m}])
  /\ UNCHANGED <<notebooks, memo, made, placed, bound>>
ResolveOrGiveUp(p, m) ==
  /\ Start(p) /\ Homed(m) /\ notebooks[memo[m]].ds # 0
  /\ placed' = [placed EXCEPT ![m] = notebooks[memo[m]].ds]
  /\ UNCHANGED <<notebooks, memo, made, bound, job>>
ResolveNotebookDatasetID(p, m) ==
  /\ Start(p) /\ Homed(m)
  /\ \/ /\ notebooks[memo[m]].ds # 0
        /\ placed' = [placed EXCEPT ![m] = notebooks[memo[m]].ds]
        /\ UNCHANGED job
     \/ /\ notebooks[memo[m]].ds = 0
        /\ Become(p, [job[p] EXCEPT !.pc = "dataset", !.id = memo[m], !.todo = {m}])
        /\ UNCHANGED placed
  /\ UNCHANGED <<notebooks, memo, made, bound>>

EnsureDataset(p) ==
  /\ At(p, "dataset")
  /\ \/ NoFault /\ made' = made + 1 /\ Become(p, [job[p] EXCEPT !.pc = "fill", !.ds = made + 1])
     \/ Fault("rag") /\ made' \in {made, made + 1} /\ End(p)
  /\ UNCHANGED <<notebooks, memo, placed, bound>>

(* The dataset is used whether or not the notebook remembers it. *)
Fill(p) == notebooks' = [notebooks EXCEPT ![job[p].id].ds =
                           IF notebooks[job[p].id].live THEN job[p].ds ELSE @]

FillDataset(p) ==
  /\ At(p, "fill")
  /\ \/ NoFault /\ Fill(p)
     \/ Fault("db") /\ UNCHANGED notebooks
  /\ placed' = [m \in Memos |-> IF m \in job[p].todo THEN job[p].ds ELSE placed[m]]
  /\ End(p)
  /\ UNCHANGED <<memo, made, bound>>

(* EnsureAssistantDatasetBinding, for a user who has an assistant: after a   *)
(* batch cycle that synced something and before a chat. The list is read,    *)
(* then sent; an empty one is not sent.                                      *)
DatasetsAndEmpty == {notebooks[i].ds : i \in Ids}
Datasets == {notebooks[i].ds : i \in Ids} \ {0}

EnsureBinding(p) ==
  /\ Start(p) /\ Datasets # {}
  /\ Become(p, [job[p] EXCEPT !.pc = "bind", !.list = Datasets])
  /\ UNCHANGED <<notebooks, memo, made, placed, bound>>

UpdateAssistantDatasets(p) ==
  /\ At(p, "bind")
  /\ \/ NoFault /\ bound' = job[p].list
     \/ Fault("rag") /\ bound' \in {bound, job[p].list}
  /\ End(p)
  /\ UNCHANGED <<notebooks, memo, made, placed>>

Crash ==
  /\ Fault("crash")
  /\ job' = [p \in Procs |-> Idle]
  /\ UNCHANGED <<notebooks, memo, made, placed, bound>>

-----------------------------------------------------------------------------
Request(p) ==
  \/ ListNotebooks(p) \/ CreateNotebook(p) \/ DeleteNotebook(p)
  \/ CreateMemo(p) \/ CreateMemoByMCP(p)
  \/ EnsureBinding(p) \/ \E m \in Memos : ResolveNotebookDatasetID(p, m)

Step(p) ==
  \/ EnsureDefaultNotebook(p) \/ CreateNotebookDataset(p) \/ CreateNotebookRow(p)
  \/ MoveMemo(p) \/ RemoveNotebook(p) \/ InsertMemo(p)
  \/ EnsureDataset(p) \/ FillDataset(p) \/ UpdateAssistantDatasets(p)

Next == Crash \/ \E p \in Procs : Request(p) \/ Step(p)

Spec == Init /\ [][Next]_vars

(* Goroutines go on; the ticker's cycles try to sync every memo again and    *)
(* again, whatever requests come between. Nobody owes a binding: a cycle     *)
(* that synced nothing asks for none, and users chat when they like.         *)
Fairness ==
  /\ \A p \in Procs : WF_vars(Step(p))
  /\ \A m \in Memos : SF_vars(\E p \in Procs : ResolveNotebookDatasetID(p, m))

FairSpec == Spec /\ Fairness

-----------------------------------------------------------------------------
(* Properties *)

(* Every variable holds what the code can store in it. *)
TypeOK ==
  /\ notebooks \in Seq(Notebook) /\ Len(notebooks) <= MaxNotebooks
  /\ memo \in [Memos -> {None} \cup (0..Len(notebooks))]
  /\ made \in Nat /\ placed \in [Memos -> 0..made] /\ bound \subseteq 1..made
  /\ job \in [Procs -> Job]
  /\ calm \in BOOLEAN /\ faults \in Nat

(* However first lists race and whatever is deleted, a user has at most one  *)
(* default notebook, and who has one keeps it (ensureDefaultNotebook,        *)
(* DeleteNotebook).                                                          *)
DefaultKept ==
  [][ /\ \A i, j \in Defaults' : i = j
      /\ Defaults \subseteq Defaults']_vars

(* Without faults and overlap, a memo that has a notebook has one after      *)
(* every deletion, once its user has a default notebook (DeleteNotebook).    *)
HomeKept ==
  [][calm' /\ Defaults # {} => \A m \in Memos : Homed(m) => memo'[m] \in Ids']_vars

(* Without faults and overlap no dataset is made twice or forgotten: a       *)
(* notebook's row or the request that made it names every one                *)
(* (ensureNotebookHasDataset, CreateNotebook).                               *)
NoStrayDataset ==
  calm => \A d \in 1..made :
    \/ \E i \in DOMAIN notebooks : notebooks[i].ds = d
    \/ \E p \in Procs : job[p].ds = d

(* As long as bindings are asked for again and again, the assistant comes to *)
(* search exactly the datasets of the notebooks that are there, however      *)
(* bindings overtake each other (EnsureAssistantDatasetBinding).             *)
BindingAskedFor == []<><<\E p \in Procs : EnsureBinding(p)>>_vars

(* Without that condition it is not so: the last list sent may be an old one. *)
BindingSettles == []<>(Datasets # {} => bound = Datasets)

(* A memo in a notebook is synced into some dataset in the end, also when    *)
(* none could be made for the notebook at first.                             *)
EveryMemoPlaced == \A m \in Memos : Homed(m) ~> (placed[m] # 0 \/ ~Homed(m))

(* "Move memos from this notebook to the default notebook": no deletion      *)
(* leaves a memo without a notebook (DeleteNotebook).                        *)
MemosMovedAtDelete ==
  [][calm' => \A m \in Memos : Homed(m) => memo'[m] \in Ids']_vars
=============================================================================
