----------------------- MODULE ContentSyncInductive -----------------------
(***************************************************************************)
(* The inductive invariants behind the safety properties of ContentSync:   *)
(* what a goroutine holds at each point, and whose it is. They are proved   *)
(* in ContentSyncProofs, for every choice of the constants.                *)
(***************************************************************************)
EXTENDS ContentSync

(* What a goroutine has in hand at each of its program counters. *)
Resting == {"idle", "bgate", "list", "next"}
Resolved == {"read", "state", "skip", "unindex", "upload", "parse", "create", "reread",
             "mark", "hash"}
TextRead == Resolved \ {"read"}
RowRead == {"skip", "unindex", "mark", "hash", "ddoc", "vupd"}
Uploaded == {"parse", "create", "reread", "mark", "hash"}
Looping == {"next", "reset", "markFailed"}

Shape(j) ==
  /\ j.pc \notin Resting => j.item # None
  /\ j.pc \in Resolved => j.ds # None
  /\ j.pc \in TextRead => j.text # None
  /\ j.pc \in RowRead => j.snap # None
  /\ j.pc \in Uploaded => j.doc # 0
  /\ j.pc \in Looping => j.phase # 0
  /\ j.pc \in {"bgate", "list"} => j.phase \in 1..LastStage

TypeInv == TypeOK /\ \A a \in Actors : Shape(job[a])

(* Ids handed out belong to one content for ever: what a goroutine read some *)
(* time ago may be gone, but is never another content's.                     *)
IdOf(id, c) == id # 0 => id \in DOMAIN owners /\ owners[id] = c
DocOf(d, c) == d # 0 => d \in DOMAIN uploads /\ uploads[d].of = c

RowsOwned ==
  \A c \in Contents : row[c] # None =>
    row[c].of = c /\ IdOf(row[c].id, c) /\ DocOf(row[c].doc, c)

JobOwned(j) ==
  /\ \A t \in j.todo : IdOf(t.id, t.of)
  /\ j.item # None => IdOf(j.item.id, j.item.of) /\ DocOf(j.doc, j.item.of)
  /\ j.snap # None => j.item # None /\ j.snap.of = j.item.of
                      /\ IdOf(j.snap.id, j.snap.of) /\ DocOf(j.snap.doc, j.snap.of)
  /\ j.pc \in Resting => j.doc = 0 /\ j.snap = None

Ownership == RowsOwned /\ \A a \in Actors : JobOwned(job[a])

(* A hash in a row, or in a row as it was listed, was uploaded; so is the    *)
(* text a goroutine is about to record.                                      *)
WasUploaded(h, c) == h # None => \E i \in DOMAIN uploads : uploads[i].of = c /\ uploads[i].text = h

JobHashes(j) ==
  /\ \A t \in j.todo : WasUploaded(t.hash, t.of)
  /\ j.item # None => WasUploaded(j.item.hash, j.item.of)
  /\ j.pc \in Uploaded => WasUploaded(j.text, j.item.of)

Hashes == HashWasUploaded /\ \A a \in Actors : JobHashes(job[a])

(* Retry counts of the listed rows that a cycle may yet mark as failed: all  *)
(* but those of the reset stage, which ends without marking anything.        *)
ResetStage == 3

JobRetries(j) ==
  /\ j.phase = ResetStage => j.pc \in {"list", "next", "reset"}
  /\ j.pc \in Resting => j.item = None
  /\ j.phase \notin {0, ResetStage} =>
       (\A t \in j.todo : t.retry < MaxRetries) /\ (j.item # None => j.item.retry < MaxRetries)

Retries == RetriesBounded /\ \A a \in Actors : JobRetries(job[a])

(* Why a row is there to be read back while no statement of the database     *)
(* fails and no content was deleted twice: a content is then deleted by one  *)
(* goroutine, once, so whoever finds a row gone that was there before meets  *)
(* nobody else who would delete it.                                          *)
Deletes(a, c) ==
  job[a].pc \in {"dgate", "dread", "ddoc", "drow"} /\ job[a].item.of = c
OneDeleter ==
  \A c \in Contents, a \in Actors : Deletes(a, c) =>
    content[c].life = "gone" /\ \A b \in Actors : Deletes(b, c) => b = a

Buried(c) == content[c].life = "gone" /\ \A a \in Actors : ~Deletes(a, c)
Remembered(c) == row[c] # None \/ Buried(c)

JobSound(j) ==
  /\ j.phase \in 4..6 => \A t \in j.todo : Remembered(t.of)
  /\ j.pc \in Resolved \cup {"gate", "resolve"} => Remembered(j.item.of)
  /\ j.pc \in {"upload", "parse"} /\ j.snap = None => Buried(j.item.of)
  /\ j.pc \in {"create", "reread"} => Buried(j.item.of)
  /\ j.pc = "reread" => row[j.item.of] # None

Once == \A c \in Contents : ~content[c].twice
NotPanicked == proc # "panicked"
Sound == OneDeleter /\ NotPanicked /\ \A a \in Actors : JobSound(job[a])
Rereadable == Once => Sound

(* While one goroutine runs at a time, RAGFlow and the database answer and no *)
(* memo changes its notebook: a content that nobody is about to index or to   *)
(* delete has no document but the one its row names, in the dataset of its    *)
(* notebook, and a synced row tells that document's text. What the goroutine  *)
(* has in hand meanwhile:                                                     *)
Undisturbed ==
  /\ \A a, b \in Actors : a = b
  /\ FaultKinds \cap {"db", "rag", "crash"} = {}
  /\ "move" \notin UserOps
  /\ BotMayDelete

Only(c, d) == \A i \in index : uploads[i].of = c => i = d
Absent(c) == \A i \in index : uploads[i].of # c

Settled(c) ==
  /\ row[c] = None => Absent(c)
  /\ row[c] # None =>
       /\ Only(c, row[c].doc)
       /\ row[c].doc # 0 => row[c].ds = Home(c) /\ uploads[row[c].doc].ds = Home(c)
       /\ row[c].status = "synced" =>
            row[c].doc \in index /\ uploads[row[c].doc].text = row[c].hash

Handling == {"upload", "parse", "create", "reread", "mark", "hash", "drow"}
Handled(j, c) == j.pc \in Handling /\ j.item.of = c

JobTidy(j) ==
  /\ j.pc \in Resolved => j.ds = Home(j.item.of)
  /\ j.pc \in {"unindex", "upload", "parse", "create", "mark", "ddoc", "drow"} =>
       row[j.item.of] = j.snap
  /\ j.pc \in {"upload", "drow"} => Absent(j.item.of)
  /\ j.pc \in Uploaded =>
       /\ j.doc \in index /\ Only(j.item.of, j.doc)
       /\ uploads[j.doc].text = j.text /\ uploads[j.doc].ds = j.ds
  /\ j.pc = "create" => j.snap = None
  /\ j.pc \in {"reread", "hash"} => row[j.item.of] # None
  /\ j.pc = "hash" => row[j.item.of].id = j.snap.id /\ row[j.item.of].doc = j.doc
                      /\ row[j.item.of].ds = j.ds

Tidy ==
  /\ \A a \in Actors : JobTidy(job[a])
  /\ \A c \in Contents : (\A a \in Actors : ~Handled(job[a], c)) => Settled(c)

(* What Mirror needs beyond that. A row that names a document is synced: no   *)
(* cycle lists such a row to sync, reset or fail it, and of what a cycle has  *)
(* listed every content occurs once. Commits may fall between any two steps,  *)
(* so nothing is said of what a content says when its text is uploaded.       *)
JobStaged(j) ==
  /\ j.pc \in {"reset", "markFailed"} => j.phase \in 3..LastStage
  /\ j.pc \in Resolved \cup {"resolve"} => j.phase \in {0} \cup 4..LastStage
  /\ j.pc \in {"idle", "gate", "vgate", "vlist"} => j.phase = 0
  /\ j.pc \in {"vread", "vupd"} => j.phase \in {0, OfAttachments}
  /\ j.pc \in {"vgate", "vread", "vupd", "vlist"} /\ j.phase = 0 => j.item.of \notin Files
  /\ j.pc \in {"unindex", "upload"} => j.item.of \in Parseable
  /\ j.pc = "skip" => j.item.of \notin Parseable
  /\ j.pc = "unindex" => j.snap.doc # 0 /\ ~Unchanged(j.snap, j.text)
  /\ j.pc = "ddoc" => Indexed(j.snap)
  /\ j.pc = "vupd" => Relabelable(j.snap)
  /\ j.phase = OfAttachments => \A t \in j.todo : t.of \in Files

Unlinked(c) == row[c] # None => row[c].doc = 0

JobListed(j) ==
  j.phase \in 3..LastStage =>
    /\ \A t \in j.todo : Unlinked(t.of)
    /\ \A s, t \in j.todo : s.of = t.of => s = t
    /\ j.pc \in {"reset", "resolve", "read", "markFailed"} => Unlinked(j.item.of)
    /\ j.pc \notin Resting => \A t \in j.todo : t.of # j.item.of

JobCurrent(j) ==
  /\ j.pc = "read" => content[j.item.of].life # "new"
  /\ j.pc \in {"dgate", "dread", "ddoc", "drow"} => content[j.item.of].life = "gone"
  /\ j.pc = "vupd" => row[j.item.of] = j.snap
  /\ j.pc \in {"vgate", "vread", "vupd", "vlist"} \/ j.phase = OfAttachments => j.vis # None

LinkedIsSynced ==
  \A c \in Contents : row[c] # None /\ row[c].doc # 0 => row[c].status = "synced"

OnlyParseable == \A i \in DOMAIN uploads : uploads[i].of \in Parseable

Aligned ==
  /\ LinkedIsSynced /\ OnlyParseable
  /\ \A a \in Actors : JobStaged(job[a]) /\ JobListed(job[a]) /\ JobCurrent(job[a])

Inductive == TypeInv /\ Ownership /\ Hashes /\ SyncedHasDoc /\ Retries
=============================================================================
