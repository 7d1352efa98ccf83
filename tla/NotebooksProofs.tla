--------------------------- MODULE NotebooksProofs ---------------------------
(***************************************************************************)
(* A user's default notebook, the home of a memo and the datasets made for *)
(* notebooks, for any number of requests, memos, notebooks and faults.     *)
(***************************************************************************)
EXTENDS Notebooks, TLAPS

(* Rows and datasets are never forgotten, and goroutines know of none that   *)
(* are yet to come.                                                          *)
Rows ==
  /\ notebooks \in Seq(Notebook) /\ Len(notebooks) <= MaxNotebooks
  /\ \A i \in 1..Len(notebooks) : notebooks[i].ds <= made
Places ==
  /\ memo \in [Memos -> {None} \cup (0..Len(notebooks))]
  /\ placed \in [Memos -> 0..made] /\ bound \subseteq 1..made
Scalars == made \in Nat /\ faults \in Nat /\ calm \in BOOLEAN

Known(j) ==
  /\ j.id <= Len(notebooks) /\ j.dest <= Len(notebooks)
  /\ j.ds <= made /\ j.list \subseteq 1..made

(* Only notebooks that are not a default are deleted, and datasets are for   *)
(* notebooks. A goroutine holds a dataset until it has stored it.            *)
Shape(j) ==
  /\ j.pc \in {"move", "remove"} => j.id # 0 /\ ~notebooks[j.id].default
  /\ j.pc \in {"dataset", "fill"} => j.id # 0
  /\ j.pc \notin {"newRow", "fill"} => j.ds = 0

Jobs == job \in [Procs -> Job] /\ \A p \in Procs : Known(job[p]) /\ Shape(job[p])

TypeInv == Rows /\ Places /\ Scalars /\ Jobs

OneDefault == \A i, j \in Defaults : i = j

IInv == TypeInv /\ OneDefault

-----------------------------------------------------------------------------
(* The table of notebooks *)

LEMMA RowsBasics ==
  ASSUME Rows, Scalars
  PROVE  /\ Len(notebooks) \in Nat /\ DOMAIN notebooks = 1..Len(notebooks)
         /\ Ids \subseteq 1..Len(notebooks) /\ Defaults \subseteq Ids
         /\ \A i \in 1..Len(notebooks) :
              notebooks[i] \in Notebook /\ notebooks[i].ds \in 0..made
         /\ TheDefault \in 0..Len(notebooks)
         /\ Defaults # {} => TheDefault \in Defaults
         /\ Defaults = {} => TheDefault = 0
<1>1. /\ Len(notebooks) \in Nat /\ DOMAIN notebooks = 1..Len(notebooks)
      /\ \A i \in 1..Len(notebooks) : notebooks[i] \in Notebook
  BY DEF Rows
<1>2. \A i \in 1..Len(notebooks) : notebooks[i].ds \in 0..made
  BY <1>1 DEF Rows, Scalars, Notebook
<1>3. Ids \subseteq 1..Len(notebooks) /\ Defaults \subseteq Ids
  BY <1>1 DEF Ids, Defaults
<1>4. Defaults # {} => TheDefault \in Defaults
  BY DEF TheDefault
<1>5. Defaults = {} => TheDefault = 0
  BY DEF TheDefault
<1>6. TheDefault \in 0..Len(notebooks)
  <2>1. CASE Defaults # {}
    <3>1. TheDefault \in 1..Len(notebooks)
      BY <1>3, <1>4, <2>1
    <3> HIDE DEF TheDefault
    <3> QED BY <1>1, <3>1
  <2>2. CASE Defaults = {}
    BY <1>1, <1>5, <2>2
  <2> QED BY <2>1, <2>2
<1> QED BY <1>1, <1>2, <1>3, <1>4, <1>5, <1>6

(* A step appends a row, or leaves the rows as they are but for one that is  *)
(* removed or gets a dataset.                                                *)
Appends(default, ds) ==
  /\ Len(notebooks') = Len(notebooks) + 1
  /\ \A i \in 1..Len(notebooks) : notebooks'[i] = notebooks[i]
  /\ notebooks'[Len(notebooks) + 1] = [live |-> TRUE, default |-> default, ds |-> ds]

LEMMA InsertAppends ==
  ASSUME Rows, NEW default, NEW ds, Insert(default, ds)
  PROVE  Appends(default, ds)
BY DEF Rows, Insert, Appends

Grows ==
  /\ Len(notebooks) <= Len(notebooks') /\ made <= made'
  /\ \A i \in 1..Len(notebooks) : notebooks'[i].default = notebooks[i].default

LEMMA NothingNewGrows ==
  ASSUME Rows, Scalars, UNCHANGED <<notebooks, made>>
  PROVE  Grows /\ Rows'
<1>1. Len(notebooks) \in Nat
  BY DEF Rows
<1> QED BY <1>1 DEF Rows, Scalars, Grows

LEMMA MadeGrows ==
  ASSUME Rows, Scalars, UNCHANGED notebooks, made' \in {made, made + 1}
  PROVE  Grows /\ Rows'
<1>1. Len(notebooks) \in Nat
  BY DEF Rows
<1>2. \A i \in 1..Len(notebooks) : notebooks[i].ds \in 0..made
  BY RowsBasics
<1> QED BY <1>1, <1>2 DEF Rows, Scalars, Grows

LEMMA InsertGrows ==
  ASSUME Rows, Scalars, NEW default \in BOOLEAN, NEW ds \in 0..made,
         Room, Insert(default, ds), UNCHANGED made
  PROVE  Grows /\ Rows'
<1>1. Appends(default, ds)
  BY InsertAppends
<1>2. [live |-> TRUE, default |-> default, ds |-> ds] \in Notebook
  BY DEF Notebook, Scalars
<1>3. notebooks' \in Seq(Notebook) /\ Len(notebooks) \in Nat
  BY <1>2 DEF Rows, Insert
<1>4. Len(notebooks') <= MaxNotebooks
  BY <1>1, <1>3, ConstantsOK DEF Room, Appends
<1>5. ASSUME NEW i \in 1..Len(notebooks') PROVE notebooks'[i].ds <= made
  <2>1. CASE i \in 1..Len(notebooks)
    BY <1>1, <2>1 DEF Appends, Rows
  <2>2. CASE i = Len(notebooks) + 1
    BY <1>1, <2>2 DEF Appends, Scalars
  <2> QED BY <1>1, <1>3, <2>1, <2>2 DEF Appends
<1>6. Rows'
  BY <1>3, <1>4, <1>5 DEF Rows
<1> QED BY <1>1, <1>3, <1>6 DEF Appends, Grows, Scalars

LEMMA RemoveGrows ==
  ASSUME Rows, Scalars, NEW k \in 1..Len(notebooks),
         notebooks' = [notebooks EXCEPT ![k].live = FALSE], UNCHANGED made
  PROVE  Grows /\ Rows'
<1>0. notebooks[k] \in Notebook
  BY RowsBasics
<1>1. [notebooks[k] EXCEPT !.live = FALSE] \in Notebook
  BY <1>0 DEF Notebook
<1>2. /\ notebooks' \in Seq(Notebook) /\ Len(notebooks') = Len(notebooks) /\ Len(notebooks) \in Nat
  BY <1>1 DEF Rows
<1>3. ASSUME NEW i \in 1..Len(notebooks)
      PROVE  /\ notebooks'[i].default = notebooks[i].default
             /\ notebooks'[i].ds = notebooks[i].ds
  BY DEF Rows, Notebook
<1> QED BY <1>2, <1>3 DEF Rows, Grows, Scalars

LEMMA FillGrows ==
  ASSUME Rows, Scalars, NEW p \in Procs, job[p].id \in 1..Len(notebooks), job[p].ds \in 0..made,
         Fill(p), UNCHANGED made
  PROVE  Grows /\ Rows'
<1> DEFINE k == job[p].id
           ds == IF notebooks[k].live THEN job[p].ds ELSE notebooks[k].ds
<1>0. notebooks' = [notebooks EXCEPT ![k].ds = ds]
  BY DEF Fill
<1>1. ds \in 0..made
  BY RowsBasics
<1> HIDE DEF ds
<1>2. notebooks[k] \in Notebook /\ made \in Nat
  BY RowsBasics DEF Scalars
<1>3. [notebooks[k] EXCEPT !.ds = ds] \in Notebook
  BY <1>1, <1>2 DEF Notebook
<1>4. notebooks' \in Seq(Notebook) /\ Len(notebooks') = Len(notebooks) /\ Len(notebooks) \in Nat
  BY <1>0, <1>3 DEF Rows
<1>5. ASSUME NEW i \in 1..Len(notebooks)
      PROVE  /\ notebooks'[i].default = notebooks[i].default
             /\ notebooks'[i].ds <= made
  BY <1>0, <1>1 DEF Rows, Notebook, Scalars
<1> QED BY <1>4, <1>5 DEF Rows, Grows, Scalars

(* Whatever other goroutines know stays so. *)
LEMMA KnownStays ==
  ASSUME Rows, Scalars, Rows', Scalars', Grows, NEW j \in Job, Known(j), Shape(j)
  PROVE  Known(j)' /\ Shape(j)'
<1>1. Len(notebooks) \in Nat /\ Len(notebooks') \in Nat
  BY DEF Rows
<1>2. j.id \in Nat /\ j.dest \in Nat /\ j.ds \in Nat
  BY DEF Job
<1>3. Known(j)'
  BY <1>1, <1>2 DEF Known, Grows, Scalars
<1>4. j.id # 0 => j.id \in 1..Len(notebooks)
  BY <1>1, <1>2 DEF Known
<1>5. Shape(j)'
  BY <1>4 DEF Shape, Grows
<1> QED BY <1>3, <1>5

LEMMA MovesKeepJobs ==
  ASSUME Rows, Scalars, Jobs, Rows', Scalars', Grows, NEW p \in Procs,
         NEW j \in Job, Become(p, j), Known(j)', Shape(j)'
  PROVE  Jobs'
<1>1. job' \in [Procs -> Job]
  BY DEF Jobs, Become
<1>2. ASSUME NEW q \in Procs PROVE Known(job[q])' /\ Shape(job[q])'
  <2>1. CASE q = p
    <3>1. job'[q] = j
      BY <2>1 DEF Jobs, Become
    <3> QED BY <3>1 DEF Known, Shape
  <2>2. CASE q # p
    <3>1. job'[q] = job[q] /\ job[q] \in Job /\ Known(job[q]) /\ Shape(job[q])
      BY <2>2 DEF Jobs, Become
    <3>2. Known(job[q])' /\ Shape(job[q])'
      BY <3>1, KnownStays DEF Known, Shape
    <3> QED BY <3>2
  <2> QED BY <2>1, <2>2
<1> QED BY <1>1, <1>2 DEF Jobs

-----------------------------------------------------------------------------
(* Types *)

LEMMA ScalarsType ==
  ASSUME Scalars, [Next]_vars
  PROVE  Scalars'
<1>1. ASSUME NEW p \in Procs, Start(p), made' = made PROVE Scalars'
  <2>1. calm' \in BOOLEAN /\ faults' = faults
    BY <1>1 DEF Start, AllIdle
  <2> QED BY <1>1, <2>1 DEF Scalars
<1>2. ASSUME NoFault \/ \E kind : Fault(kind), made' \in {made, made + 1} PROVE Scalars'
  <2>1. calm' \in BOOLEAN /\ faults' \in Nat
    <3>1. CASE NoFault
      BY <3>1 DEF NoFault, Scalars
    <3>2. ASSUME NEW kind, Fault(kind) PROVE calm' \in BOOLEAN /\ faults' \in Nat
      <4>1. calm' = FALSE
        BY <3>2, Zenon DEF Fault
      <4>2. faults' \in Nat
        BY <3>2 DEF Fault, Scalars
      <4> QED BY <4>1, <4>2
    <3> QED BY <1>2, <3>1, <3>2
  <2> QED BY <1>2, <2>1 DEF Scalars
<1>3. ASSUME NEW p \in Procs, Request(p) PROVE Scalars'
  <2>1. made' = made
    BY <1>3, Zenon DEF Request, ListNotebooks, CreateNotebook, DeleteNotebook, CreateMemo,
       CreateMemoByMCP, EnsureBinding, ResolveNotebookDatasetID
  <2>2. Start(p) \/ Fault("db")
    BY <1>3, Zenon DEF Request, ListNotebooks, CreateNotebook, DeleteNotebook, CreateMemo,
       CreateMemoByMCP, EnsureBinding, ResolveNotebookDatasetID
  <2> QED BY <1>1, <1>2, <2>1, <2>2
<1>4. ASSUME NEW p \in Procs, Step(p) PROVE Scalars'
  <2>1. made' \in {made, made + 1}
    BY <1>4 DEF Step, EnsureDefaultNotebook, CreateNotebookDataset, CreateNotebookRow, MoveMemo,
       RemoveNotebook, InsertMemo, EnsureDataset, FillDataset, UpdateAssistantDatasets
  <2>2. NoFault \/ \E kind : Fault(kind)
    BY <1>4, Zenon DEF Step, EnsureDefaultNotebook, CreateNotebookDataset, CreateNotebookRow,
       MoveMemo, RemoveNotebook, InsertMemo, EnsureDataset, FillDataset, UpdateAssistantDatasets
  <2> QED BY <1>2, <2>1, <2>2
<1>5. CASE Crash
  BY <1>2, <1>5 DEF Crash
<1>6. CASE UNCHANGED vars
  BY <1>6 DEF vars, Scalars
<1> QED BY <1>3, <1>4, <1>5, <1>6 DEF Next

(* What is known of a goroutine's job. *)
LEMMA JobBasics ==
  ASSUME Rows, Scalars, Jobs, NEW p \in Procs
  PROVE  /\ job[p] \in Job /\ Known(job[p]) /\ Shape(job[p])
         /\ job[p].id \in 0..Len(notebooks) /\ job[p].dest \in 0..Len(notebooks)
         /\ job[p].ds \in 0..made /\ job[p].list \subseteq 1..made
<1>1. job[p] \in Job /\ Known(job[p]) /\ Shape(job[p])
  BY DEF Jobs
<1>2. Len(notebooks) \in Nat
  BY DEF Rows
<1> QED BY <1>1, <1>2 DEF Job, Known, Scalars

LEMMA TableGrows ==
  ASSUME Rows, Scalars, Jobs, [Next]_vars
  PROVE  Grows /\ Rows'
<1>1. ASSUME UNCHANGED notebooks, UNCHANGED made PROVE Grows /\ Rows'
  BY <1>1, NothingNewGrows
<1>2. ASSUME NEW p \in Procs, Request(p) PROVE UNCHANGED notebooks /\ UNCHANGED made
  BY <1>2 DEF Request, ListNotebooks, CreateNotebook, DeleteNotebook, CreateMemo, CreateMemoByMCP,
     EnsureBinding, ResolveNotebookDatasetID
<1>3. ASSUME NEW p \in Procs, EnsureDefaultNotebook(p) PROVE Grows /\ Rows'
  <2>1. 0 \in 0..made
    BY DEF Scalars
  <2> QED BY <1>1, <1>3, <2>1, InsertGrows DEF EnsureDefaultNotebook
<1>4. ASSUME NEW p \in Procs, CreateNotebookRow(p) PROVE Grows /\ Rows'
  BY <1>1, <1>4, JobBasics, InsertGrows DEF CreateNotebookRow, InsertNotebook
<1>5. ASSUME NEW p \in Procs, CreateNotebookDataset(p) \/ EnsureDataset(p) PROVE Grows /\ Rows'
  BY <1>5, MadeGrows DEF CreateNotebookDataset, EnsureDataset
<1>6. ASSUME NEW p \in Procs, RemoveNotebook(p) PROVE Grows /\ Rows'
  <2>1. job[p].id \in 1..Len(notebooks)
    BY <1>6, JobBasics DEF RemoveNotebook, At, Shape
  <2> QED BY <1>1, <1>6, <2>1, RemoveGrows DEF RemoveNotebook
<1>7. ASSUME NEW p \in Procs, FillDataset(p) PROVE Grows /\ Rows'
  <2>1. job[p].id \in 1..Len(notebooks)
    BY <1>7, JobBasics DEF FillDataset, At, Shape
  <2> QED BY <1>1, <1>7, <2>1, JobBasics, FillGrows DEF FillDataset
<1>8. ASSUME NEW p \in Procs, MoveMemo(p) \/ InsertMemo(p) \/ UpdateAssistantDatasets(p)
      PROVE  UNCHANGED notebooks /\ UNCHANGED made
  BY <1>8 DEF MoveMemo, InsertMemo, UpdateAssistantDatasets
<1>9. CASE Crash \/ UNCHANGED vars
  BY <1>1, <1>9 DEF Crash, vars
<1> QED BY <1>1, <1>2, <1>3, <1>4, <1>5, <1>6, <1>7, <1>8, <1>9, Zenon DEF Next, Step

(* A goroutine's next job. *)
Moves(p) == \E j \in Job : Become(p, j) /\ Known(j)' /\ Shape(j)'

LEMMA IdleIsGood ==
  ASSUME Rows, Scalars
  PROVE  Idle \in Job /\ Known(Idle) /\ Shape(Idle)
<1>1. Len(notebooks) \in Nat
  BY DEF Rows
<1> QED BY <1>1 DEF Idle, Job, PC, Known, Shape, Scalars

LEMMA EndMoves ==
  ASSUME Rows, Scalars, Rows', Scalars', Grows, NEW p \in Procs, End(p)
  PROVE  Moves(p)
<1>1. Known(Idle)' /\ Shape(Idle)'
  BY IdleIsGood, KnownStays
<1> QED BY <1>1, IdleIsGood DEF End, Moves

(* On to a place that asks for no more than the goroutine has.               *)
LEMMA GotoMoves ==
  ASSUME Rows, Scalars, Jobs, Rows', Scalars', Grows, NEW p \in Procs, NEW pc \in PC, Goto(p, pc),
         \/ pc \in {"default", "newDataset"} /\ job[p].ds = 0
         \/ pc = "newRow"
         \/ pc = "remove" /\ job[p].pc = "move"
  PROVE  Moves(p)
<1>1. job[p] \in Job /\ Known(job[p]) /\ Shape(job[p])
  BY JobBasics
<1>2. PICK j \in Job :
        /\ Become(p, j) /\ j.pc = pc /\ j.id = job[p].id /\ j.dest = job[p].dest
        /\ j.ds = job[p].ds /\ j.list = job[p].list
  BY <1>1 DEF Goto, Job
<1>3. Known(j) /\ Shape(j)
  BY <1>1, <1>2 DEF Known, Shape
<1>4. Known(j)' /\ Shape(j)'
  BY <1>3, KnownStays
<1> QED BY <1>2, <1>4 DEF Moves

LEMMA JobMoves ==
  ASSUME Rows, Scalars, Rows', Scalars', Grows, NEW p \in Procs,
         NEW j \in Job, Become(p, j), Known(j), Shape(j)
  PROVE  Moves(p)
BY KnownStays DEF Moves

LEMMA RequestMoves ==
  ASSUME Rows, Scalars, Jobs, Rows', Scalars', Grows, NEW p \in Procs, Request(p)
  PROVE  Moves(p) \/ UNCHANGED job
<1>0. job[p] \in Job /\ Known(job[p]) /\ Shape(job[p])
  BY JobBasics
<1>1. job[p].pc = "idle" /\ job[p].ds = 0
  BY <1>0 DEF Request, ListNotebooks, CreateNotebook, DeleteNotebook, CreateMemo, CreateMemoByMCP,
     EnsureBinding, ResolveNotebookDatasetID, Start, At, Shape
<1>2. Len(notebooks) \in Nat
  BY DEF Rows
<1>3. CASE ListNotebooks(p) \/ CreateNotebook(p)
  BY <1>1, <1>3, GotoMoves DEF ListNotebooks, CreateNotebook, PC
<1>4. CASE DeleteNotebook(p)
  <2>1. PICK i \in Ids \ Defaults, pc \in {"remove", "move"}, todo \in SUBSET Memos :
          Become(p, [job[p] EXCEPT !.id = i, !.dest = TheDefault, !.pc = pc, !.todo = todo])
    BY <1>4 DEF DeleteNotebook, InNotebook
  <2>2. i \in 1..Len(notebooks) /\ TheDefault \in 0..Len(notebooks) /\ ~notebooks[i].default
    BY RowsBasics DEF Defaults
  <2>3. i \in Nat /\ TheDefault \in Nat /\ pc \in PC
    BY <1>2, <2>2 DEF PC
  <2> HIDE DEF TheDefault
  <2> DEFINE j == [job[p] EXCEPT !.id = i, !.dest = TheDefault, !.pc = pc, !.todo = todo]
  <2>4. j \in Job
    BY <1>0, <2>3 DEF Job
  <2>5. /\ j.pc = pc /\ j.id = i /\ j.dest = TheDefault
        /\ j.ds = job[p].ds /\ j.list = job[p].list
    BY <1>0 DEF Job
  <2> HIDE DEF j
  <2>6. Become(p, j)
    BY <2>1 DEF j
  <2>7. Known(j) /\ Shape(j)
    BY <1>0, <1>1, <2>2, <2>5 DEF Known, Shape
  <2> QED BY <2>4, <2>6, <2>7, JobMoves
<1>5. CASE CreateMemo(p) \/ CreateMemoByMCP(p)
  <2>1. PICK i \in Ids \cup {TheDefault, job[p].id}, todo \in SUBSET Memos :
          Become(p, [job[p] EXCEPT !.pc = "memoRow", !.id = i, !.todo = todo])
    <3>1. ASSUME NEW m \in Memos, Become(p, [job[p] EXCEPT !.pc = "memoRow", !.todo = {m}])
          PROVE  Become(p, [job[p] EXCEPT !.pc = "memoRow", !.id = job[p].id, !.todo = {m}])
      BY <1>0, <3>1 DEF Become, Job
    <3> QED BY <1>5, <3>1 DEF CreateMemo, CreateMemoByMCP
  <2>2. i \in 0..Len(notebooks)
    BY RowsBasics, JobBasics
  <2>3. i \in Nat /\ "memoRow" \in PC
    BY <1>2, <2>2 DEF PC
  <2> DEFINE j == [job[p] EXCEPT !.pc = "memoRow", !.id = i, !.todo = todo]
  <2>4. j \in Job
    BY <1>0, <2>3 DEF Job
  <2>5. /\ j.pc = "memoRow" /\ j.id = i /\ j.dest = job[p].dest
        /\ j.ds = job[p].ds /\ j.list = job[p].list
    BY <1>0 DEF Job
  <2> HIDE DEF j
  <2>6. Become(p, j)
    BY <2>1 DEF j
  <2>7. Known(j) /\ Shape(j)
    BY <1>0, <1>1, <1>2, <2>2, <2>5 DEF Known, Shape
  <2> QED BY <2>4, <2>6, <2>7, JobMoves
<1>6. CASE EnsureBinding(p)
  <2>1. Datasets \subseteq 1..made /\ Datasets \subseteq Nat
    BY RowsBasics DEF Datasets, Scalars
  <2> DEFINE j == [job[p] EXCEPT !.pc = "bind", !.list = Datasets]
  <2>2. j \in Job
    BY <1>0, <2>1 DEF Job, PC
  <2>3. /\ j.pc = "bind" /\ j.id = job[p].id /\ j.dest = job[p].dest
        /\ j.ds = job[p].ds /\ j.list = Datasets
    BY <1>0 DEF Job
  <2> HIDE DEF j
  <2>4. Become(p, j)
    BY <1>6 DEF EnsureBinding, j
  <2>5. Known(j) /\ Shape(j)
    BY <1>0, <1>1, <2>1, <2>3 DEF Known, Shape
  <2> QED BY <2>2, <2>4, <2>5, JobMoves
<1>7. ASSUME NEW m \in Memos, ResolveNotebookDatasetID(p, m) PROVE Moves(p) \/ UNCHANGED job
  <2>1. CASE Become(p, [job[p] EXCEPT !.pc = "dataset", !.id = memo[m], !.todo = {m}])
    <3>1. memo[m] \in 1..Len(notebooks)
      BY <1>7, RowsBasics DEF ResolveNotebookDatasetID, Homed
    <3> DEFINE j == [job[p] EXCEPT !.pc = "dataset", !.id = memo[m], !.todo = {m}]
    <3>2. j \in Job
      <4>1. memo[m] \in Nat /\ {m} \in SUBSET Memos /\ "dataset" \in PC
        BY <1>2, <3>1 DEF PC
      <4> QED BY <1>0, <4>1 DEF Job
    <3>3. /\ j.pc = "dataset" /\ j.id = memo[m] /\ j.dest = job[p].dest
          /\ j.ds = job[p].ds /\ j.list = job[p].list
      BY <1>0 DEF Job
    <3> HIDE DEF j
    <3>4. Become(p, j)
      BY <2>1 DEF j
    <3>5. Known(j) /\ Shape(j)
      BY <1>0, <1>1, <3>1, <3>3 DEF Known, Shape
    <3> QED BY <3>2, <3>4, <3>5, JobMoves
  <2> QED BY <1>7, <2>1 DEF ResolveNotebookDatasetID
<1> QED BY <1>3, <1>4, <1>5, <1>6, <1>7 DEF Request

LEMMA StepMoves ==
  ASSUME Rows, Scalars, Jobs, Rows', Scalars', Grows, NEW p \in Procs, Step(p)
  PROVE  Moves(p)
<1>0. job[p] \in Job /\ Known(job[p]) /\ Shape(job[p])
  BY JobBasics
<1>2. Len(notebooks) \in Nat /\ made \in Nat
  BY DEF Rows, Scalars
<1>3. ASSUME End(p) PROVE Moves(p)
  BY <1>3, EndMoves
<1>4. CASE EnsureDefaultNotebook(p)
  <2>1. CASE /\ Insert(TRUE, 0)
             /\ Become(p, [job[p] EXCEPT !.pc = "dataset", !.id = Len(notebooks) + 1])
    <3>1. job[p].ds = 0 /\ made' = made
      BY <1>0, <1>4 DEF EnsureDefaultNotebook, At, Shape
    <3>2. Len(notebooks') = Len(notebooks) + 1
      BY <2>1, InsertAppends DEF Appends
    <3> DEFINE j == [job[p] EXCEPT !.pc = "dataset", !.id = Len(notebooks) + 1]
    <3>3. j \in Job
      <4>1. Len(notebooks) + 1 \in Nat /\ "dataset" \in PC
        BY <1>2 DEF PC
      <4> QED BY <1>0, <4>1 DEF Job
    <3>4. /\ j.pc = "dataset" /\ j.id = Len(notebooks) + 1 /\ j.dest = job[p].dest
          /\ j.ds = job[p].ds /\ j.list = job[p].list
      BY <1>0 DEF Job
    <3>5. PICK k \in Job : k = j
      BY <3>3
    <3> HIDE DEF j
    <3>6. Become(p, k)
      BY <2>1, <3>5 DEF j
    <3>7. Known(k)' /\ Shape(k)'
      BY <1>0, <1>2, <3>1, <3>2, <3>4, <3>5 DEF Known, Shape, Job
    <3> QED BY <3>6, <3>7 DEF Moves
  <2> QED BY <1>3, <1>4, <2>1 DEF EnsureDefaultNotebook
<1>5. CASE CreateNotebookDataset(p) \/ EnsureDataset(p)
  <2>1. ASSUME NEW pc \in {"newRow", "fill"}, pc = "fill" => job[p].pc = "dataset",
               made' = made + 1, Become(p, [job[p] EXCEPT !.pc = pc, !.ds = made + 1])
        PROVE  Moves(p)
    <3>1. PICK j \in Job : /\ Become(p, j) /\ j.pc = pc /\ j.id = job[p].id
                           /\ j.dest = job[p].dest /\ j.ds = made + 1 /\ j.list = job[p].list
      <4> DEFINE k == [job[p] EXCEPT !.pc = pc, !.ds = made + 1]
      <4>1. k \in Job
        <5>1. made + 1 \in Nat /\ pc \in PC
          BY <1>2 DEF PC
        <5> QED BY <1>0, <5>1 DEF Job
      <4>2. /\ k.pc = pc /\ k.id = job[p].id /\ k.dest = job[p].dest
            /\ k.ds = made + 1 /\ k.list = job[p].list
        BY <1>0 DEF Job
      <4> HIDE DEF k
      <4>3. Become(p, k)
        BY <2>1 DEF k
      <4> QED BY <4>1, <4>2, <4>3
    <3>2. j.id <= Len(notebooks') /\ j.dest <= Len(notebooks')
      BY <1>0, <1>2, <3>1, RowsBasics DEF Known, Grows, Rows, Job
    <3>3. j.ds <= made' /\ j.list \subseteq 1..made'
      BY <1>0, <1>2, <2>1, <3>1 DEF Known
    <3>4. pc = "fill" => j.id # 0
      BY <1>0, <2>1, <3>1 DEF Shape
    <3>5. Known(j)' /\ Shape(j)'
      BY <2>1, <3>1, <3>2, <3>3, <3>4 DEF Known, Shape
    <3> QED BY <3>1, <3>5 DEF Moves
  <2>2. CASE CreateNotebookDataset(p)
    BY <2>1, <2>2, GotoMoves DEF CreateNotebookDataset, PC
  <2>3. CASE EnsureDataset(p)
    BY <1>3, <2>1, <2>3 DEF EnsureDataset, At
  <2> QED BY <1>5, <2>2, <2>3
<1>6. CASE MoveMemo(p)
  <2>1. ASSUME NEW m, Become(p, [job[p] EXCEPT !.todo = @ \ {m}]) PROVE Moves(p)
    <3>1. PICK j \in Job : /\ Become(p, j) /\ j.pc = job[p].pc /\ j.id = job[p].id
                           /\ j.dest = job[p].dest /\ j.ds = job[p].ds /\ j.list = job[p].list
      BY <1>0, <2>1 DEF Job
    <3>2. Known(j) /\ Shape(j)
      BY <1>0, <3>1 DEF Known, Shape
    <3> QED BY <3>1, <3>2, JobMoves
  <2> QED BY <1>6, <2>1, GotoMoves DEF MoveMemo, At, PC
<1>7. CASE CreateNotebookRow(p) \/ RemoveNotebook(p) \/ InsertMemo(p) \/ FillDataset(p)
             \/ UpdateAssistantDatasets(p)
  BY <1>3, <1>7 DEF CreateNotebookRow, RemoveNotebook, InsertMemo, FillDataset,
     UpdateAssistantDatasets
<1> QED BY <1>4, <1>5, <1>6, <1>7 DEF Step

LEMMA JobsType ==
  ASSUME Rows, Scalars, Jobs, Rows', Scalars', Grows, [Next]_vars
  PROVE  Jobs'
<1>1. ASSUME UNCHANGED job PROVE Jobs'
  <2>1. ASSUME NEW q \in Procs PROVE Known(job[q])' /\ Shape(job[q])'
    <3>1. job'[q] = job[q] /\ job[q] \in Job /\ Known(job[q]) /\ Shape(job[q])
      BY <1>1 DEF Jobs
    <3>2. PICK j \in Job : j = job[q]
      BY <3>1
    <3>3. Known(j)' /\ Shape(j)'
      BY <3>1, <3>2, KnownStays
    <3> QED BY <3>1, <3>2, <3>3 DEF Known, Shape
  <2> QED BY <1>1, <2>1 DEF Jobs
<1>2. ASSUME NEW p \in Procs, Moves(p) PROVE Jobs'
  BY <1>2, MovesKeepJobs DEF Moves
<1>3. CASE Crash
  <2>1. Idle \in Job /\ Known(Idle)' /\ Shape(Idle)'
    BY IdleIsGood, KnownStays
  <2> QED BY <1>3, <2>1 DEF Crash, Jobs, Known, Shape
<1>4. CASE UNCHANGED vars
  BY <1>1, <1>4 DEF vars
<1> QED BY <1>1, <1>2, <1>3, <1>4, RequestMoves, StepMoves DEF Next
LEMMA PlacesType ==
  ASSUME Rows, Places, Scalars, Jobs, Rows', Scalars', Grows, [Next]_vars
  PROVE  Places'
<1>1. /\ {None} \cup (0..Len(notebooks)) \subseteq {None} \cup (0..Len(notebooks'))
      /\ 0..made \subseteq 0..made' /\ 1..made \subseteq 1..made'
  BY DEF Rows, Scalars, Grows
<1>2. ASSUME memo' \in [Memos -> {None} \cup (0..Len(notebooks))],
             placed' \in [Memos -> 0..made], bound' \subseteq 1..made
      PROVE  Places'
  BY <1>1, <1>2 DEF Places
<1>3. ASSUME UNCHANGED <<memo, placed, bound>> PROVE Places'
  BY <1>2, <1>3 DEF Places
<1>4. ASSUME NEW p \in Procs, Request(p) PROVE Places'
  <2>1. ASSUME NEW m \in Memos, ResolveNotebookDatasetID(p, m) PROVE Places'
    <3>1. notebooks[memo[m]].ds \in 0..made
      BY <2>1, RowsBasics DEF ResolveNotebookDatasetID, Homed
    <3>2. placed' \in [Memos -> 0..made]
      BY <2>1, <3>1 DEF ResolveNotebookDatasetID, Places
    <3>3. memo' = memo /\ bound' = bound
      BY <2>1 DEF ResolveNotebookDatasetID
    <3> QED BY <1>2, <3>2, <3>3 DEF Places
  <2>2. CASE \/ ListNotebooks(p) \/ CreateNotebook(p) \/ DeleteNotebook(p) \/ CreateMemo(p)
             \/ CreateMemoByMCP(p) \/ EnsureBinding(p)
    BY <1>3, <2>2 DEF ListNotebooks, CreateNotebook, DeleteNotebook, CreateMemo,
       CreateMemoByMCP, EnsureBinding
  <2> QED BY <1>4, <2>1, <2>2 DEF Request
<1>5. ASSUME NEW p \in Procs, Step(p) PROVE Places'
  <2>1. CASE MoveMemo(p)
    <3>1. memo' \in [Memos -> {None} \cup (0..Len(notebooks))]
      BY <2>1, JobBasics DEF MoveMemo, Places
    <3> QED BY <1>2, <2>1, <3>1 DEF MoveMemo, Places
  <2>2. CASE InsertMemo(p)
    <3>1. memo' \in [Memos -> {None} \cup (0..Len(notebooks))]
      BY <2>2, JobBasics DEF InsertMemo, Places
    <3> QED BY <1>2, <2>2, <3>1 DEF InsertMemo, Places
  <2>3. CASE FillDataset(p)
    <3>1. placed' \in [Memos -> 0..made]
      BY <2>3, JobBasics DEF FillDataset, Places
    <3> QED BY <1>2, <2>3, <3>1 DEF FillDataset, Places
  <2>4. CASE UpdateAssistantDatasets(p)
    BY <1>2, <2>4, JobBasics DEF UpdateAssistantDatasets, Places
  <2>5. CASE \/ EnsureDefaultNotebook(p) \/ CreateNotebookDataset(p) \/ CreateNotebookRow(p)
             \/ RemoveNotebook(p) \/ EnsureDataset(p)
    BY <1>3, <2>5 DEF EnsureDefaultNotebook, CreateNotebookDataset, CreateNotebookRow,
       RemoveNotebook, EnsureDataset
  <2> QED BY <1>5, <2>1, <2>2, <2>3, <2>4, <2>5 DEF Step
<1>6. CASE Crash \/ UNCHANGED vars
  BY <1>3, <1>6 DEF Crash, vars
<1> QED BY <1>4, <1>5, <1>6 DEF Next

LEMMA InitType == Init => IInv
<1> SUFFICES ASSUME Init PROVE IInv
  OBVIOUS
<1>1. notebooks = <<>> /\ Len(notebooks) = 0 /\ made = 0
  BY DEF Init
<1>2. Rows
  BY <1>1, ConstantsOK DEF Rows
<1>3. Scalars /\ Places
  BY <1>1 DEF Init, Scalars, Places
<1>4. Jobs
  BY <1>2, <1>3, IdleIsGood DEF Init, Jobs
<1>5. Defaults = {}
  BY <1>1 DEF Defaults, Ids
<1> QED BY <1>2, <1>3, <1>4, <1>5 DEF IInv, TypeInv, OneDefault

LEMMA NextType ==
  ASSUME TypeInv, [Next]_vars
  PROVE  TypeInv' /\ Grows
BY ScalarsType, TableGrows, JobsType, PlacesType DEF TypeInv

(* Every variable holds what the code can store in it. *)
THEOREM TypeCorrect == Spec => []TypeOK
<1>1. TypeInv => TypeOK
  BY DEF TypeInv, TypeOK, Rows, Places, Scalars, Jobs
<1>2. Init => TypeInv
  BY InitType DEF IInv
<1>3. TypeInv /\ [Next]_vars => TypeInv'
  BY NextType
<1> QED BY <1>1, <1>2, <1>3, PTL DEF Spec

-----------------------------------------------------------------------------
(* The default notebook *)

LEMMA AppendedIds ==
  ASSUME Rows, Rows', NEW default \in BOOLEAN, NEW ds, Appends(default, ds)
  PROVE  /\ Ids' = Ids \cup {Len(notebooks) + 1}
         /\ Defaults' = Defaults \cup (IF default THEN {Len(notebooks) + 1} ELSE {})
<1>1. /\ Len(notebooks) \in Nat /\ DOMAIN notebooks = 1..Len(notebooks)
      /\ DOMAIN notebooks' = 1..Len(notebooks) \cup {Len(notebooks) + 1}
  BY DEF Rows, Appends
<1>2. Ids' = Ids \cup {Len(notebooks) + 1}
  BY <1>1 DEF Ids, Appends
<1>3. ~ Len(notebooks) + 1 \in Ids /\ \A i \in Ids : notebooks'[i].default = notebooks[i].default
  BY <1>1 DEF Ids, Appends
<1> QED BY <1>2, <1>3 DEF Defaults, Appends

LEMMA DefaultsStep ==
  ASSUME TypeInv, OneDefault, [Next]_vars
  PROVE  OneDefault' /\ Defaults \subseteq Defaults'
<1> USE DEF TypeInv
<1>0. TypeInv'
  BY NextType
<1>1. ASSUME Defaults' = Defaults PROVE OneDefault' /\ Defaults \subseteq Defaults'
  BY <1>1 DEF OneDefault
<1>2. ASSUME UNCHANGED notebooks PROVE Defaults' = Defaults
  BY <1>2 DEF Defaults, Ids
<1>3. ASSUME NEW p \in Procs, EnsureDefaultNotebook(p)
      PROVE  OneDefault' /\ Defaults \subseteq Defaults'
  <2>1. CASE NoDefaultYet /\ Insert(TRUE, 0)
    <3>1. Defaults' = Defaults \cup {Len(notebooks) + 1} /\ Defaults = {}
      BY <1>0, <2>1, InsertAppends, AppendedIds DEF NoDefaultYet
    <3> QED BY <3>1 DEF OneDefault
  <2> QED BY <1>1, <1>2, <1>3, <2>1 DEF EnsureDefaultNotebook
<1>4. ASSUME NEW p \in Procs, CreateNotebookRow(p) PROVE Defaults' = Defaults
  <2>1. CASE InsertNotebook(p)
    BY <1>0, <2>1, InsertAppends, AppendedIds DEF InsertNotebook
  <2> QED BY <1>2, <1>4, <2>1 DEF CreateNotebookRow
<1>5. ASSUME NEW p \in Procs, RemoveNotebook(p) PROVE Defaults' = Defaults
  <2>1. job[p].id \in 1..Len(notebooks) /\ ~notebooks[job[p].id].default
    BY <1>5, JobBasics DEF RemoveNotebook, At, Shape
  <2>2. CASE notebooks' = [notebooks EXCEPT ![job[p].id].live = FALSE]
    <3>1. /\ DOMAIN notebooks' = DOMAIN notebooks
          /\ \A i \in DOMAIN notebooks :
               /\ notebooks'[i].default = notebooks[i].default
               /\ i # job[p].id => notebooks'[i].live = notebooks[i].live
      BY <2>2, RowsBasics DEF Notebook
    <3> QED BY <2>1, <3>1 DEF Defaults, Ids
  <2> QED BY <1>2, <1>5, <2>2 DEF RemoveNotebook
<1>6. ASSUME NEW p \in Procs, FillDataset(p) PROVE Defaults' = Defaults
  <2>1. CASE Fill(p)
    <3>1. /\ DOMAIN notebooks' = DOMAIN notebooks
          /\ \A i \in DOMAIN notebooks :
               /\ notebooks'[i].default = notebooks[i].default
               /\ notebooks'[i].live = notebooks[i].live
      BY <2>1, RowsBasics DEF Notebook, Fill
    <3> QED BY <3>1 DEF Defaults, Ids
  <2> QED BY <1>2, <1>6, <2>1 DEF FillDataset
<1>7. ASSUME NEW p \in Procs, Request(p) PROVE UNCHANGED notebooks
  BY <1>7 DEF Request, ListNotebooks, CreateNotebook, DeleteNotebook, CreateMemo, CreateMemoByMCP,
     EnsureBinding, ResolveNotebookDatasetID
<1>8. ASSUME NEW p \in Procs, \/ CreateNotebookDataset(p) \/ EnsureDataset(p) \/ MoveMemo(p)
                              \/ InsertMemo(p) \/ UpdateAssistantDatasets(p)
      PROVE  UNCHANGED notebooks
  BY <1>8 DEF CreateNotebookDataset, EnsureDataset, MoveMemo, InsertMemo, UpdateAssistantDatasets
<1>9. CASE Crash \/ UNCHANGED vars
  BY <1>1, <1>2, <1>9 DEF Crash, vars
<1> QED BY <1>1, <1>2, <1>3, <1>4, <1>5, <1>6, <1>7, <1>8, <1>9, Zenon DEF Next, Step

LEMMA IInvStep ==
  ASSUME IInv, [Next]_vars
  PROVE  IInv'
BY NextType, DefaultsStep DEF IInv

(* However first lists race and whatever is deleted, a user has at most one  *)
(* default notebook, and who has one keeps it (ensureDefaultNotebook,        *)
(* DeleteNotebook).                                                          *)
THEOREM DefaultIsKept == Spec => DefaultKept
<1> DEFINE Kept == (\A i, j \in Defaults' : i = j) /\ Defaults \subseteq Defaults'
<1>1. IInv /\ [Next]_vars => [Kept]_vars
  <2> SUFFICES ASSUME IInv, [Next]_vars PROVE Kept
    OBVIOUS
  <2> QED BY DefaultsStep DEF IInv, OneDefault
<1> HIDE DEF Kept
<1>2. IInv /\ [Next]_vars => IInv'
  BY IInvStep
<1>3. Spec => [][Kept]_vars
  BY <1>1, <1>2, InitType, PTL DEF Spec
<1> QED BY <1>3, PTL DEF DefaultKept, Kept
-----------------------------------------------------------------------------
(* One request at a time and no fault *)

Busy(p) == ~At(p, "idle")
Only(p) == \A q \in Procs \ {p} : ~Busy(q)

(* Between two steps of the only request: every dataset is accounted for,    *)
(* one that is being made is for a notebook that has none, and the memos     *)
(* that are still in a notebook to be deleted are on the list.               *)
Accounted(j) == \A d \in 1..made : j.ds = d \/ \E i \in DOMAIN notebooks : notebooks[i].ds = d
Lacking(j) == j.pc \in {"dataset", "fill"} => j.id \in Ids /\ notebooks[j.id].ds = 0
Emptying(j) ==
  /\ j.pc = "move" => j.dest \in Defaults /\ InNotebook(j.id) \subseteq j.todo
  /\ j.pc = "remove" => Defaults = {} \/ InNotebook(j.id) = {}
Unborn(j) == j.pc = "memoRow" => \A m \in j.todo : memo[m] = None

Settled(j) == Accounted(j) /\ Lacking(j) /\ Emptying(j) /\ Unborn(j)

CalmInv ==
  calm => /\ \A p, q \in Procs : Busy(p) /\ Busy(q) => p = q
          /\ \A p \in Procs : Only(p) => Settled(job[p])

LEMMA InitCalm == Init => CalmInv
<1> SUFFICES ASSUME Init PROVE CalmInv
  OBVIOUS
<1>1. made = 0 /\ \A p \in Procs : job[p] = Idle
  BY DEF Init
<1>2. Idle.pc = "idle"
  BY DEF Idle
<1>3. \A p \in Procs : job[p].pc = "idle"
  BY <1>1, <1>2
<1>4. 1..made = {}
  BY <1>1
<1> QED BY <1>3, <1>4 DEF CalmInv, Settled, Accounted, Lacking, Emptying, Unborn, Busy, At

(* Who acts while it is calm is the only one to act. *)
LEMMA OneActs ==
  ASSUME CalmInv, NEW p \in Procs, Request(p) \/ Step(p), calm'
  PROVE  calm /\ Only(p) /\ Settled(job[p])
<1>1. CASE Request(p)
  <2>1. calm /\ AllIdle
    <3>1. Start(p) \/ Fault("db")
      BY <1>1, Zenon DEF Request, ListNotebooks, CreateNotebook, DeleteNotebook, CreateMemo,
         CreateMemoByMCP, EnsureBinding, ResolveNotebookDatasetID
    <3> QED BY <3>1 DEF Start, Fault
  <2> QED BY <2>1 DEF CalmInv, AllIdle, Only, Busy
<1>2. CASE Step(p)
  <2>1. NoFault \/ \E kind : Fault(kind)
    BY <1>2, Zenon DEF Step, EnsureDefaultNotebook, CreateNotebookDataset, CreateNotebookRow,
       MoveMemo, RemoveNotebook, InsertMemo, EnsureDataset, FillDataset, UpdateAssistantDatasets
  <2>2. calm
    BY <2>1 DEF NoFault, Fault
  <2>3. Busy(p)
    BY <1>2 DEF Step, EnsureDefaultNotebook, CreateNotebookDataset, CreateNotebookRow, MoveMemo,
       RemoveNotebook, InsertMemo, EnsureDataset, FillDataset, UpdateAssistantDatasets, Busy, At
  <2> QED BY <2>2, <2>3 DEF CalmInv, Only
<1> QED BY <1>1, <1>2

(* A calm step changes one job at most, and nothing has gone wrong in it.    *)
LEMMA JobChange ==
  ASSUME Jobs, NEW p \in Procs, NEW j, Become(p, j)
  PROVE  job'[p] = j /\ \A q \in Procs \ {p} : job'[q] = job[q]
BY DEF Jobs, Become

LEMMA OthersRest ==
  ASSUME TypeInv, NEW p \in Procs, Request(p) \/ Step(p)
  PROVE  \A q \in Procs \ {p} : job'[q] = job[q]
<1>1. UNCHANGED job \/ Moves(p)
  BY RequestMoves, StepMoves, NextType DEF TypeInv, Next
<1> QED BY <1>1 DEF TypeInv, Jobs, Moves, Become

LEMMA CalmTurn ==
  ASSUME TypeInv', NEW p \in Procs, Only(p), Settled(job[p])',
         \A q \in Procs \ {p} : job'[q] = job[q]
  PROVE  CalmInv'
<1>1. \A q \in Procs \ {p} : job'[q].pc = "idle"
  BY DEF Only, Busy, At
<1>2. ASSUME NEW q \in Procs, Only(q)' PROVE Settled(job[q])'
  <2>1. CASE q = p
    BY <2>1
  <2>2. CASE q # p
    <3>1. job'[p].pc = "idle" /\ job'[q].pc = "idle"
      BY <1>1, <1>2, <2>2 DEF Only, Busy, At
    <3>2. job'[p].ds = 0 /\ job'[q].ds = 0
      BY <3>1 DEF TypeInv, Jobs, Shape
    <3> QED BY <3>1, <3>2 DEF Settled, Accounted, Lacking, Emptying, Unborn
  <2> QED BY <2>1, <2>2
<1>3. \A q, r \in Procs : Busy(q)' /\ Busy(r)' => q = r
  BY <1>1 DEF Busy, At
<1> QED BY <1>2, <1>3 DEF CalmInv
(* The request that begins is settled. *)
LEMMA RequestSettles ==
  ASSUME TypeInv, NEW p \in Procs, Request(p), calm', Settled(job[p])
  PROVE  Settled(job[p])'
<1> USE DEF TypeInv
<1>0. job[p] \in Job /\ job[p].pc = "idle" /\ job[p].ds = 0
  BY JobBasics DEF Request, ListNotebooks, CreateNotebook, DeleteNotebook, CreateMemo,
     CreateMemoByMCP, EnsureBinding, ResolveNotebookDatasetID, Start, At, Shape
<1>1. UNCHANGED <<notebooks, memo, made>>
  BY DEF Request, ListNotebooks, CreateNotebook, DeleteNotebook, CreateMemo, CreateMemoByMCP,
     EnsureBinding, ResolveNotebookDatasetID
<1>2. /\ Ids' = Ids /\ Defaults' = Defaults
      /\ \A i : InNotebook(i)' = InNotebook(i)
  BY <1>1 DEF Ids, Defaults, InNotebook
<1>3. ASSUME job'[p].ds = 0 PROVE Accounted(job[p])'
  BY <1>0, <1>1, <1>3 DEF Settled, Accounted
<1>4. CASE ListNotebooks(p) \/ CreateNotebook(p)
  <2>1. job'[p].pc \in {"default", "newDataset"} /\ job'[p].ds = 0
    BY <1>0, <1>4, JobChange DEF ListNotebooks, CreateNotebook, Goto, Job
  <2> QED BY <1>3, <2>1 DEF Settled, Lacking, Emptying, Unborn
<1>5. CASE DeleteNotebook(p)
  <2>1. PICK i \in Ids \ Defaults, pc \in {"remove", "move"}, todo \in SUBSET Memos :
          /\ Become(p, [job[p] EXCEPT !.id = i, !.dest = TheDefault, !.pc = pc, !.todo = todo])
          /\ pc = IF TheDefault = 0 THEN "remove" ELSE "move"
          /\ TheDefault # 0 => todo = InNotebook(i)
    BY <1>5 DEF DeleteNotebook, InNotebook
  <2>2. /\ job'[p].pc = pc /\ job'[p].id = i /\ job'[p].dest = TheDefault
        /\ job'[p].todo = todo /\ job'[p].ds = 0
    <3>1. job'[p] = [job[p] EXCEPT !.id = i, !.dest = TheDefault, !.pc = pc, !.todo = todo]
      BY <2>1 DEF Become, Jobs
    <3> QED BY <1>0, <3>1 DEF Job
  <2>3. /\ pc = "move" => TheDefault \in Defaults /\ todo = InNotebook(i)
        /\ pc = "remove" => Defaults = {}
        /\ pc \in {"move", "remove"}
    <3>1. Defaults # {} => TheDefault # 0
      BY RowsBasics
    <3> HIDE DEF TheDefault
    <3> QED BY <2>1, <3>1, RowsBasics
  <2>4. Emptying(job[p])'
    BY <1>2, <2>2, <2>3 DEF Emptying
  <2> QED BY <1>3, <2>2, <2>3, <2>4 DEF Settled, Lacking, Unborn
<1>6. CASE CreateMemo(p) \/ CreateMemoByMCP(p)
  <2>1. PICK m \in Memos, i \in Ids \cup {TheDefault, job[p].id} :
          memo[m] = None /\ Become(p, [job[p] EXCEPT !.pc = "memoRow", !.id = i, !.todo = {m}])
    <3>1. ~Fault("db")
      BY DEF Fault
    <3>2. ASSUME NEW m \in Memos, Become(p, [job[p] EXCEPT !.pc = "memoRow", !.todo = {m}])
          PROVE  Become(p, [job[p] EXCEPT !.pc = "memoRow", !.id = job[p].id, !.todo = {m}])
      BY <1>0, <3>2 DEF Become, Job
    <3> QED BY <1>6, <3>1, <3>2 DEF CreateMemo, CreateMemoByMCP
  <2>2. job'[p].pc = "memoRow" /\ job'[p].todo = {m} /\ job'[p].ds = 0
    <3>1. job'[p] = [job[p] EXCEPT !.pc = "memoRow", !.id = i, !.todo = {m}]
      BY <2>1 DEF Become, Jobs
    <3> QED BY <1>0, <3>1 DEF Job
  <2> QED BY <1>1, <1>3, <2>1, <2>2 DEF Settled, Lacking, Emptying, Unborn
<1>7. CASE EnsureBinding(p)
  <2>1. job'[p].pc = "bind" /\ job'[p].ds = 0
    <3>1. job'[p] = [job[p] EXCEPT !.pc = "bind", !.list = Datasets]
      BY <1>7 DEF EnsureBinding, Become, Jobs
    <3> QED BY <1>0, <3>1 DEF Job
  <2> QED BY <1>3, <2>1 DEF Settled, Lacking, Emptying, Unborn
<1>8. ASSUME NEW m \in Memos, ResolveNotebookDatasetID(p, m) PROVE Settled(job[p])'
  <2>1. CASE UNCHANGED job
    BY <1>0, <1>3, <2>1 DEF Settled, Lacking, Emptying, Unborn
  <2>2. CASE /\ notebooks[memo[m]].ds = 0
             /\ Become(p, [job[p] EXCEPT !.pc = "dataset", !.id = memo[m], !.todo = {m}])
    <3>1. job'[p].pc = "dataset" /\ job'[p].id = memo[m] /\ job'[p].ds = 0
      <4>1. job'[p] = [job[p] EXCEPT !.pc = "dataset", !.id = memo[m], !.todo = {m}]
        BY <2>2 DEF Become, Jobs
      <4> QED BY <1>0, <4>1 DEF Job
    <3>2. memo[m] \in Ids
      BY <1>8 DEF ResolveNotebookDatasetID, Homed
    <3> QED BY <1>1, <1>2, <1>3, <2>2, <3>1, <3>2 DEF Settled, Lacking, Emptying, Unborn
  <2> QED BY <1>8, <2>1, <2>2 DEF ResolveNotebookDatasetID
<1> QED BY <1>4, <1>5, <1>6, <1>7, <1>8 DEF Request

(* A goroutine that ends holds nothing, so rows must name every dataset.     *)
LEMMA EndSettles ==
  ASSUME Jobs, NEW p \in Procs, End(p),
         \A d \in 1..made' : \E i \in DOMAIN notebooks' : notebooks'[i].ds = d
  PROVE  Settled(job[p])'
<1>1. job'[p].pc = "idle"
  BY JobChange DEF End, Idle
<1> QED BY <1>1 DEF Settled, Accounted, Lacking, Emptying, Unborn

LEMMA StepSettles ==
  ASSUME TypeInv, NEW p \in Procs, Step(p), calm', Settled(job[p])
  PROVE  Settled(job[p])'
<1> USE DEF TypeInv
<1>0. job[p] \in Job /\ Shape(job[p])
  BY JobBasics
<1>1. \A kind : ~Fault(kind)
  BY DEF Fault
<1>2. made \in Nat /\ Len(notebooks) \in Nat /\ DOMAIN notebooks = 1..Len(notebooks)
  BY RowsBasics DEF Scalars
<1>3. ASSUME job[p].ds = 0 PROVE \A d \in 1..made : \E i \in DOMAIN notebooks : notebooks[i].ds = d
  BY <1>2, <1>3 DEF Settled, Accounted
<1>4. ASSUME job[p].ds = 0, UNCHANGED <<notebooks, made>>, End(p) PROVE Settled(job[p])'
  BY <1>3, <1>4, EndSettles
<1>5. CASE EnsureDefaultNotebook(p)
  <2>1. job[p].ds = 0 /\ made' = made
    BY <1>0, <1>5 DEF EnsureDefaultNotebook, At, Shape
  <2>2. CASE /\ Insert(TRUE, 0)
             /\ Become(p, [job[p] EXCEPT !.pc = "dataset", !.id = Len(notebooks) + 1])
    <3>1. Appends(TRUE, 0)
      BY <2>2, InsertAppends
    <3>2. job'[p].pc = "dataset" /\ job'[p].id = Len(notebooks) + 1 /\ job'[p].ds = 0
      <4>1. job'[p] = [job[p] EXCEPT !.pc = "dataset", !.id = Len(notebooks) + 1]
        BY <2>2 DEF Become, Jobs
      <4> QED BY <1>0, <2>1, <4>1 DEF Job
    <3>3. DOMAIN notebooks' = 1..(Len(notebooks) + 1)
      BY <2>2 DEF Insert, Rows
    <3>4. Accounted(job[p])'
      BY <1>2, <1>3, <2>1, <3>1, <3>3 DEF Appends, Accounted
    <3>5. Lacking(job[p])'
      BY <1>2, <3>1, <3>2, <3>3 DEF Lacking, Appends, Ids
    <3> QED BY <3>2, <3>4, <3>5 DEF Settled, Emptying, Unborn
  <2> QED BY <1>1, <1>4, <1>5, <2>1, <2>2 DEF EnsureDefaultNotebook
<1>6. CASE CreateNotebookDataset(p)
  <2>1. /\ job[p].ds = 0 /\ made' = made + 1 /\ notebooks' = notebooks
        /\ Become(p, [job[p] EXCEPT !.pc = "newRow", !.ds = made + 1])
    BY <1>0, <1>1, <1>6 DEF CreateNotebookDataset, At, Shape
  <2>2. job'[p].pc = "newRow" /\ job'[p].ds = made + 1
    <3>1. job'[p] = [job[p] EXCEPT !.pc = "newRow", !.ds = made + 1]
      BY <2>1 DEF Become, Jobs
    <3> QED BY <1>0, <2>1, <3>1 DEF Job
  <2>3. Accounted(job[p])'
    BY <1>2, <1>3, <2>1, <2>2 DEF Accounted
  <2> QED BY <2>2, <2>3 DEF Settled, Lacking, Emptying, Unborn
<1>7. CASE CreateNotebookRow(p)
  <2>1. made' = made /\ End(p) /\ Insert(FALSE, job[p].ds)
    BY <1>1, <1>7 DEF CreateNotebookRow, InsertNotebook
  <2>2. Appends(FALSE, job[p].ds) /\ DOMAIN notebooks' = 1..(Len(notebooks) + 1)
    <3>1. Appends(FALSE, job[p].ds)
      BY <2>1, InsertAppends
    <3>2. Rows'
      BY NextType DEF Next
    <3> QED BY <3>1, <3>2 DEF Appends, Rows
  <2>3. \A d \in 1..made : \E i \in DOMAIN notebooks' : notebooks'[i].ds = d
    BY <1>2, <2>2 DEF Settled, Accounted, Appends
  <2> QED BY <2>1, <2>3, EndSettles
<1>8. CASE MoveMemo(p)
  <2>1. /\ job[p].pc = "move" /\ job[p].ds = 0
        /\ job[p].dest \in Defaults /\ InNotebook(job[p].id) \subseteq job[p].todo
        /\ ~notebooks[job[p].id].default
    BY <1>0, <1>8 DEF MoveMemo, At, Shape, Settled, Emptying
  <2>2. UNCHANGED <<notebooks, made>> /\ Defaults' = Defaults
    BY <1>8 DEF MoveMemo, Defaults, Ids
  <2>3. job[p].dest # job[p].id
    BY <2>1 DEF Defaults
  <2>4. CASE job[p].todo = {} /\ Goto(p, "remove") /\ UNCHANGED memo
    <3>1. job'[p].pc = "remove" /\ job'[p].id = job[p].id /\ job'[p].ds = 0
      BY <1>0, <2>1, <2>4, JobChange DEF Goto, Job
    <3>2. InNotebook(job[p].id)' = {}
      BY <2>1, <2>4, <3>1 DEF InNotebook
    <3> QED BY <1>3, <2>1, <2>2, <3>1, <3>2 DEF Settled, Accounted, Lacking, Emptying, Unborn
  <2>5. ASSUME NEW m \in job[p].todo, memo' = [memo EXCEPT ![m] = job[p].dest],
               Become(p, [job[p] EXCEPT !.todo = @ \ {m}])
        PROVE  Settled(job[p])'
    <3>1. /\ job'[p].pc = "move" /\ job'[p].id = job[p].id /\ job'[p].dest = job[p].dest
          /\ job'[p].todo = job[p].todo \ {m} /\ job'[p].ds = 0
      BY <1>0, <2>1, <2>5, JobChange DEF Job
    <3>2. InNotebook(job[p].id)' \subseteq job[p].todo \ {m}
      BY <2>1, <2>3, <2>5, <3>1 DEF InNotebook, Places
    <3> QED BY <1>3, <2>1, <2>2, <3>1, <3>2 DEF Settled, Accounted, Lacking, Emptying, Unborn
  <2> QED BY <1>1, <1>8, <2>4, <2>5 DEF MoveMemo
<1>9. CASE RemoveNotebook(p)
  <2>1. /\ job[p].ds = 0 /\ End(p) /\ made' = made
        /\ notebooks' = [notebooks EXCEPT ![job[p].id].live = FALSE]
    BY <1>0, <1>1, <1>9 DEF RemoveNotebook, At, Shape
  <2>2. /\ DOMAIN notebooks' = DOMAIN notebooks
        /\ \A i \in DOMAIN notebooks : notebooks'[i].ds = notebooks[i].ds
    BY <2>1, RowsBasics DEF Notebook
  <2> QED BY <1>3, <2>1, <2>2, EndSettles
<1>10. CASE EnsureDataset(p)
  <2>1. /\ job[p].pc = "dataset" /\ job[p].ds = 0 /\ made' = made + 1 /\ notebooks' = notebooks
        /\ Become(p, [job[p] EXCEPT !.pc = "fill", !.ds = made + 1])
        /\ job[p].id \in Ids /\ notebooks[job[p].id].ds = 0
    BY <1>0, <1>1, <1>10 DEF EnsureDataset, At, Shape, Settled, Lacking
  <2>2. job'[p].pc = "fill" /\ job'[p].ds = made + 1 /\ job'[p].id = job[p].id
    <3>1. job'[p] = [job[p] EXCEPT !.pc = "fill", !.ds = made + 1]
      BY <2>1 DEF Become, Jobs
    <3> QED BY <1>0, <2>1, <3>1 DEF Job
  <2>3. Accounted(job[p])'
    BY <1>2, <1>3, <2>1, <2>2 DEF Accounted
  <2>4. Lacking(job[p])'
    BY <2>1, <2>2 DEF Lacking, Ids
  <2> QED BY <2>2, <2>3, <2>4 DEF Settled, Emptying, Unborn
<1>11. CASE FillDataset(p)
  <2>1. /\ End(p) /\ Fill(p) /\ made' = made
        /\ job[p].id \in Ids /\ notebooks[job[p].id].ds = 0
    BY <1>1, <1>11 DEF FillDataset, At, Settled, Lacking
  <2>2. job[p].id \in 1..Len(notebooks) /\ notebooks[job[p].id].live
    BY <2>1, RowsBasics DEF Ids
  <2>3. /\ DOMAIN notebooks' = DOMAIN notebooks /\ notebooks'[job[p].id].ds = job[p].ds
        /\ \A i \in DOMAIN notebooks : i # job[p].id => notebooks'[i].ds = notebooks[i].ds
    BY <2>1, <2>2, RowsBasics DEF Fill, Notebook
  <2>4. \A d \in 1..made : \E i \in DOMAIN notebooks' : notebooks'[i].ds = d
    BY <1>2, <2>1, <2>2, <2>3 DEF Settled, Accounted
  <2> QED BY <2>1, <2>4, EndSettles
<1>12. CASE InsertMemo(p) \/ UpdateAssistantDatasets(p)
  BY <1>0, <1>4, <1>12 DEF InsertMemo, UpdateAssistantDatasets, At, Shape
<1> QED BY <1>5, <1>6, <1>7, <1>8, <1>9, <1>10, <1>11, <1>12 DEF Step

LEMMA CalmStep ==
  ASSUME TypeInv, CalmInv, [Next]_vars
  PROVE  CalmInv'
<1> SUFFICES ASSUME calm' PROVE CalmInv'
  BY DEF CalmInv
<1>1. ASSUME NEW p \in Procs, Request(p) \/ Step(p) PROVE CalmInv'
  BY <1>1, OneActs, RequestSettles, StepSettles, OthersRest, CalmTurn, NextType DEF Next
<1>2. CASE Crash
  BY <1>2 DEF Crash, Fault
<1>3. CASE UNCHANGED vars
  BY <1>3 DEF vars, CalmInv, Busy, Only, At, Settled, Accounted, Lacking, Emptying, Unborn, Ids,
     Defaults, InNotebook
<1> QED BY <1>1, <1>2, <1>3 DEF Next

LEMMA CalmSpec == Spec => [](TypeInv /\ CalmInv)
<1>1. Init => TypeInv /\ CalmInv
  BY InitType, InitCalm DEF IInv
<1>2. TypeInv /\ CalmInv /\ [Next]_vars => (TypeInv /\ CalmInv)'
  BY NextType, CalmStep
<1> QED BY <1>1, <1>2, PTL DEF Spec

(* Without faults and overlap no dataset is made twice or forgotten: a       *)
(* notebook's row or the request that made it names every one                *)
(* (ensureNotebookHasDataset, CreateNotebook).                               *)
THEOREM DatasetsAreNamed == Spec => []NoStrayDataset
<1>1. ASSUME TypeInv, CalmInv PROVE NoStrayDataset
  <2> SUFFICES ASSUME calm
               PROVE  \A d \in 1..made : \/ \E i \in DOMAIN notebooks : notebooks[i].ds = d
                                         \/ \E p \in Procs : job[p].ds = d
    BY DEF NoStrayDataset
  <2>1. PICK p \in Procs : Only(p)
    <3>1. CASE \E p \in Procs : Busy(p)
      BY <1>1, <3>1 DEF CalmInv, Only
    <3>2. CASE \A p \in Procs : ~Busy(p)
      BY <3>2, ConstantsOK DEF Only
    <3> QED BY <3>1, <3>2
  <2> QED BY <1>1, <2>1 DEF CalmInv, Settled, Accounted
<1> QED BY <1>1, CalmSpec, PTL

(* Without faults and overlap, a memo that has a notebook has one after      *)
(* every deletion, once its user has a default notebook (DeleteNotebook).    *)
THEOREM HomeIsKept == Spec => HomeKept
<1> DEFINE Kept == calm' /\ Defaults # {} => \A m \in Memos : Homed(m) => memo'[m] \in Ids'
<1>1. TypeInv /\ CalmInv /\ [Next]_vars => [Kept]_vars
  <2> SUFFICES ASSUME TypeInv, CalmInv, [Next]_vars, calm', Defaults # {},
                      NEW m \in Memos, Homed(m)
               PROVE  memo'[m] \in Ids'
    OBVIOUS
  <2>1. ASSUME UNCHANGED memo, Ids \subseteq Ids' PROVE memo'[m] \in Ids'
    BY <2>1 DEF Homed
  <2>2. ASSUME UNCHANGED notebooks PROVE Ids' = Ids
    BY <2>2 DEF Ids
  <2>3. memo[m] \in 1..Len(notebooks) /\ memo[m] # None
    BY RowsBasics, ConstantsOK DEF TypeInv, Homed
  <2>4. ASSUME NEW p \in Procs, Request(p) PROVE memo'[m] \in Ids'
    BY <2>1, <2>2, <2>4 DEF Request, ListNotebooks, CreateNotebook, DeleteNotebook, CreateMemo,
       CreateMemoByMCP, EnsureBinding, ResolveNotebookDatasetID
  <2>5. ASSUME NEW p \in Procs, Step(p) PROVE memo'[m] \in Ids'
    <3>1. Settled(job[p])
      BY <2>5, OneActs
    <3>2. \A kind : ~Fault(kind)
      BY DEF Fault
    <3>3. CASE EnsureDefaultNotebook(p) \/ CreateNotebookRow(p)
      <4>1. UNCHANGED memo
        BY <3>3 DEF EnsureDefaultNotebook, CreateNotebookRow
      <4>2. UNCHANGED notebooks \/ Appends(TRUE, 0) \/ Appends(FALSE, job[p].ds)
        BY <3>3, InsertAppends DEF EnsureDefaultNotebook, CreateNotebookRow, InsertNotebook, TypeInv
      <4>3. Rows /\ Rows'
        BY <2>5, NextType DEF TypeInv, Next
      <4> QED BY <2>1, <2>2, <4>1, <4>2, <4>3, AppendedIds
    <3>4. CASE RemoveNotebook(p)
      <4>1. UNCHANGED memo /\ InNotebook(job[p].id) = {}
        BY <3>1, <3>4 DEF RemoveNotebook, At, Settled, Emptying
      <4>2. memo[m] # job[p].id
        BY <4>1 DEF InNotebook
      <4>3. notebooks' = [notebooks EXCEPT ![job[p].id].live = FALSE]
        BY <3>2, <3>4 DEF RemoveNotebook
      <4> QED BY <4>1, <4>2, <4>3 DEF Homed, Ids
    <3>5. CASE FillDataset(p)
      <4>1. UNCHANGED memo /\ (UNCHANGED notebooks \/ Fill(p))
        BY <3>5 DEF FillDataset
      <4>2. ASSUME Fill(p) PROVE Ids \subseteq Ids'
        BY <4>2, RowsBasics DEF Fill, Ids, Notebook, TypeInv
      <4> QED BY <2>1, <2>2, <4>1, <4>2
    <3>6. CASE MoveMemo(p)
      <4>1. job[p].dest \in Ids /\ Ids' = Ids
        BY <2>2, <3>1, <3>6 DEF MoveMemo, At, Settled, Emptying, Defaults
      <4>2. memo'[m] \in {memo[m], job[p].dest}
        BY <3>6 DEF MoveMemo, TypeInv, Places
      <4> QED BY <4>1, <4>2 DEF Homed
    <3>7. CASE InsertMemo(p)
      <4>1. m \notin job[p].todo
        BY <2>3, <3>1, <3>7 DEF InsertMemo, At, Settled, Unborn
      <4>2. memo'[m] = memo[m] /\ Ids' = Ids
        BY <2>2, <3>7, <4>1 DEF InsertMemo
      <4> QED BY <4>2 DEF Homed
    <3>8. CASE CreateNotebookDataset(p) \/ EnsureDataset(p) \/ UpdateAssistantDatasets(p)
      BY <2>1, <2>2, <3>8 DEF CreateNotebookDataset, EnsureDataset, UpdateAssistantDatasets
    <3> QED BY <2>5, <3>3, <3>4, <3>5, <3>6, <3>7, <3>8 DEF Step
  <2>6. CASE Crash \/ UNCHANGED vars
    BY <2>1, <2>2, <2>6 DEF Crash, vars
  <2> QED BY <2>4, <2>5, <2>6 DEF Next
<1> HIDE DEF Kept
<1>2. Spec => [][Kept]_vars
  BY <1>1, CalmSpec, PTL DEF Spec
<1> QED BY <1>2, PTL DEF HomeKept, Kept
=============================================================================
