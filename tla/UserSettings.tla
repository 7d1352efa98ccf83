---------------------------- MODULE UserSettings ----------------------------
(***************************************************************************)
(* The lists among the settings of one user (store/user_setting.go), each  *)
(* the value of one user_setting row and of one entry of the setting       *)
(* cache, and the requests that edit them: sign-in, rotation and sign-out  *)
(* of refresh tokens (server/router/api/v1/auth_service.go), personal      *)
(* access tokens and the goroutine that notes their use                    *)
(* (server/auth/authenticator.go), webhooks and shortcuts.                 *)
(*                                                                         *)
(* Every edit reads the whole list, from the cache if it is there, and     *)
(* writes the whole list back: nothing joins the two, and nothing joins    *)
(* the row and the cache. Some edits even work on the cached list itself.  *)
(***************************************************************************)
EXTENDS Naturals, Sequences, Functions

CONSTANTS
  Procs,       \* bound: requests and goroutines at a time
  MaxTokens,   \* bound: tokens, webhooks and shortcuts ever made
  FaultKinds,  \* what may go wrong: "db", "crash"
  MaxFaults,   \* bound: how often something goes wrong
  None

ASSUME ConstantsOK ==
  /\ MaxTokens \in Nat /\ MaxFaults \in Nat /\ None \notin Nat
  /\ \A S \in SUBSET (1..MaxTokens) : None \notin [S -> 0..1]

VARIABLES
  row,       \* the list of each key in the database: id -> 1 once the entry was changed
  cache,     \* the same in userSettingCache, None if absent or expired
  cookie,    \* the refresh token the browser holds, 0 if none
  issued,    \* entries made so far; their ids are 1..issued
  job,       \* what each request is doing
  removed,   \* entries some edit took out of the row
  unstored,  \* refresh tokens handed out although saving them failed
  calm,      \* no crash, no two requests at a time, no list changed in the cache alone
  faults

vars == <<row, cache, cookie, issued, job, removed, unstored, calm, faults>>

Keys == {"session", "pat", "webhook", "shortcut"}
Edit == [op: {"add", "remove", "touch", "check"}, key: Keys, id: Nat, fatal: BOOLEAN]

(* plan: the edits still to do; list: the list read or written; sets: the    *)
(* request ends by setting the cookie to cookie.                             *)
Idle == [pc |-> "idle", plan |-> <<>>, list |-> <<>>, sets |-> FALSE, cookie |-> 0]

Init ==
  /\ row = [k \in Keys |-> None] /\ cache = [k \in Keys |-> None]
  /\ cookie = 0 /\ issued = 0 /\ job = [p \in Procs |-> Idle]
  /\ removed = {} /\ unstored = {} /\ calm = TRUE /\ faults = 0

-----------------------------------------------------------------------------
At(p, pc) == job[p].pc = pc
AllIdle == \A p \in Procs : At(p, "idle")
Become(p, j) == job' = [job EXCEPT ![p] = j]
Now(p) == Head(job[p].plan)

Fault(kind) == kind \in FaultKinds /\ faults < MaxFaults /\ faults' = faults + 1

(* ListUserSettings finds no row: an empty list. *)
Listed(list) == IF list = None THEN <<>> ELSE list
Ids(k) == DOMAIN Listed(row[k])

Step(op, key, id, fatal) == [op |-> op, key |-> key, id |-> id, fatal |-> fatal]
Begin(p, plan, sets, token) ==
  /\ At(p, "idle") /\ calm' = (calm /\ AllIdle)
  /\ Become(p, [pc |-> "get", plan |-> plan, list |-> <<>>, sets |-> sets, cookie |-> token])
  /\ UNCHANGED <<row, cache, cookie, removed, unstored, faults>>

New == issued + 1
Issue == issued < MaxTokens /\ issued' = New

-----------------------------------------------------------------------------
(* doSignIn sets the cookie even if the token could not be stored. *)
SignIn(p) == Issue /\ Begin(p, <<Step("add", "session", New, FALSE)>>, TRUE, New)

(* RefreshToken: the old token is looked up, the new one added before the    *)
(* old one is removed; a failed removal is only logged.                      *)
RotationRemovingFirst(old, new) ==
  <<Step("check", "session", old, TRUE), Step("remove", "session", old, FALSE),
    Step("add", "session", new, TRUE)>>
Rotation(old, new) ==
  <<Step("check", "session", old, TRUE), Step("add", "session", new, TRUE),
    Step("remove", "session", old, FALSE)>>

RefreshToken(p) ==
  cookie # 0 /\ Issue /\ Begin(p, Rotation(cookie, New), TRUE, New)

SignOut(p) ==
  /\ cookie # 0 /\ Begin(p, <<Step("remove", "session", cookie, FALSE)>>, TRUE, 0)
  /\ UNCHANGED issued

CreatePersonalAccessToken(p) ==
  Issue /\ Begin(p, <<Step("add", "pat", New, TRUE)>>, FALSE, 0)

DeletePersonalAccessToken(p, id) ==
  /\ id \in Ids("pat") /\ Begin(p, <<Step("remove", "pat", id, TRUE)>>, FALSE, 0)
  /\ UNCHANGED issued

ListPersonalAccessTokens(p) ==
  Begin(p, <<Step("check", "pat", 0, FALSE)>>, FALSE, 0) /\ UNCHANGED issued

(* AuthenticateByPAT asks the database itself; the goroutine goes on alone. *)
Authenticate(p, id) ==
  /\ id \in Ids("pat")
  /\ Begin(p, <<Step("touch", "pat", id, FALSE)>>, FALSE, 0)
  /\ UNCHANGED issued

(* The handlers of a webhook look for it before the store reads the list     *)
(* again; those of a shortcut look for it in the list they edit.             *)
CreateUserWebhook(p) ==
  Issue /\ Begin(p, <<Step("add", "webhook", New, TRUE)>>, FALSE, 0)

UpdateUserWebhook(p, id) ==
  /\ id \in Ids("webhook")
  /\ Begin(p, <<Step("check", "webhook", id, TRUE), Step("touch", "webhook", id, TRUE)>>, FALSE, 0)
  /\ UNCHANGED issued

DeleteUserWebhook(p, id) ==
  /\ id \in Ids("webhook")
  /\ Begin(p, <<Step("check", "webhook", id, TRUE), Step("remove", "webhook", id, TRUE)>>, FALSE, 0)
  /\ UNCHANGED issued

CreateShortcut(p) ==
  Issue /\ Begin(p, <<Step("add", "shortcut", New, TRUE)>>, FALSE, 0)

ChangeShortcut(p, id) ==
  /\ id \in Ids("shortcut")
  /\ \E op \in {"touch", "remove"} : Begin(p, <<Step(op, "shortcut", id, TRUE)>>, FALSE, 0)
  /\ UNCHANGED issued

-----------------------------------------------------------------------------
(* GetUserSetting, GetUserRefreshTokens, GetUserPersonalAccessTokens. A row  *)
(* read past the cache is put there afterwards.                              *)
After(e) == IF e.op = "check" THEN "checked" ELSE "write"

GetCached(p) == LET k == Now(p).key IN
  /\ At(p, "get") /\ cache[k] # None
  /\ Become(p, [job[p] EXCEPT !.pc = After(Now(p)), !.list = cache[k]])
  /\ UNCHANGED <<row, cache, cookie, issued, removed, unstored, calm, faults>>

GetRow(p) == LET k == Now(p).key IN
  /\ At(p, "get") /\ cache[k] = None
  /\ Become(p, [job[p] EXCEPT !.list = Listed(row[k]),
                              !.pc = IF row[k] = None THEN After(Now(p)) ELSE "fill"])
  /\ UNCHANGED <<row, cache, cookie, issued, removed, unstored, calm, faults>>

Fill(p) ==
  /\ At(p, "fill")
  /\ cache' = [cache EXCEPT ![Now(p).key] = job[p].list]
  /\ Become(p, [job[p] EXCEPT !.pc = After(Now(p))])
  /\ UNCHANGED <<row, cookie, issued, removed, unstored, calm, faults>>

(* The next edit, or the response. *)
Finish(p) ==
  IF Tail(job[p].plan) # <<>>
  THEN Become(p, [job[p] EXCEPT !.pc = "get", !.plan = Tail(@)]) /\ UNCHANGED cookie
  ELSE Become(p, Idle) /\ cookie' = IF job[p].sets THEN job[p].cookie ELSE cookie

GiveUp(p) == Become(p, Idle) /\ UNCHANGED cookie

(* AuthenticateByRefreshToken refuses a token that is not in the list. *)
Checked(p) ==
  /\ At(p, "checked")
  /\ IF Now(p).fatal /\ Now(p).id \notin DOMAIN job[p].list THEN GiveUp(p) ELSE Finish(p)
  /\ UNCHANGED <<row, cache, issued, removed, unstored, calm, faults>>

(* AddUser..., RemoveUser..., UpdatePATLastUsed, UpdateUserWebhook. *)
Edited(e, list) ==
  CASE e.op = "add" -> [i \in DOMAIN list \cup {e.id} |-> IF i = e.id THEN 0 ELSE list[i]]
    [] e.op = "remove" -> Restrict(list, DOMAIN list \ {e.id})
    [] e.op = "touch" -> [i \in DOMAIN list |-> IF i = e.id THEN 1 ELSE list[i]]

Found(p) == Now(p).op # "add" /\ Now(p).key = "shortcut" => Now(p).id \in DOMAIN job[p].list

UpsertUserSetting(p) == LET e == Now(p) new == Edited(e, job[p].list) IN
  /\ At(p, "write") /\ Found(p)
  /\ row' = [row EXCEPT ![e.key] = new]
  /\ Become(p, [job[p] EXCEPT !.pc = "publish", !.list = new])
  /\ removed' = IF e.op = "remove" THEN removed \cup {e.id} ELSE removed
  /\ UNCHANGED <<cache, cookie, issued, unstored, calm, faults>>

PublishOnAdd(p) == IF Now(p).op = "add" THEN job[p].list ELSE cache[Now(p).key]
Published(p) == job[p].list

Publish(p) ==
  /\ At(p, "publish") /\ Finish(p)
  /\ cache' = [cache EXCEPT ![Now(p).key] = Published(p)]
  /\ UNCHANGED <<row, issued, removed, unstored, calm, faults>>

(* An edit that goes no further than the list it read has still been made    *)
(* to the cache if it was made in place and the list came from there: the    *)
(* note of a use, the change of a webhook, all edits of shortcuts.           *)
InPlace(e) == e.op = "touch" \/ e.key = "shortcut"

Abandon(p) == LET e == Now(p) IN
  IF At(p, "write") /\ InPlace(e) /\ cache[e.key] = job[p].list
  THEN cache' = [cache EXCEPT ![e.key] = Edited(e, job[p].list)] /\ calm' = FALSE
  ELSE UNCHANGED <<cache, calm>>

StatementFails(p) == LET e == Now(p) IN
  /\ (At(p, "write") /\ Found(p)) \/ (At(p, "get") /\ cache[e.key] = None)
  /\ Fault("db") /\ Abandon(p)
  /\ IF e.fatal THEN GiveUp(p) ELSE Finish(p)
  /\ unstored' = IF e.op = "add" /\ ~e.fatal THEN unstored \cup {e.id} ELSE unstored
  /\ UNCHANGED <<row, issued, removed>>

(* There is no such shortcut; or its new title was fine, its filter is not. *)
Refuse(p) ==
  /\ At(p, "write") /\ Now(p).key = "shortcut" /\ GiveUp(p)
  /\ \/ ~Found(p) /\ UNCHANGED <<cache, calm>>
     \/ Found(p) /\ Now(p).op = "touch" /\ Abandon(p)
  /\ UNCHANGED <<row, issued, removed, unstored, faults>>

-----------------------------------------------------------------------------
(* Get past the expiration, cleanup, cleanupOldest. *)
NeverExpires == FALSE
MayExpire == TRUE

Expire(k) ==
  /\ MayExpire /\ cache[k] # None
  /\ cache' = [cache EXCEPT ![k] = None]
  /\ UNCHANGED <<row, cookie, issued, job, removed, unstored, calm, faults>>

Crash ==
  /\ Fault("crash") /\ ~AllIdle
  /\ job' = [p \in Procs |-> Idle] /\ cache' = [k \in Keys |-> None]
  /\ calm' = FALSE /\ UNCHANGED <<row, cookie, issued, removed, unstored>>

Request(p) ==
  \/ SignIn(p) \/ RefreshToken(p) \/ SignOut(p)
  \/ CreatePersonalAccessToken(p) \/ ListPersonalAccessTokens(p)
  \/ CreateUserWebhook(p) \/ CreateShortcut(p)
  \/ \E id \in 1..issued :
       \/ DeletePersonalAccessToken(p, id) \/ Authenticate(p, id)
       \/ UpdateUserWebhook(p, id) \/ DeleteUserWebhook(p, id) \/ ChangeShortcut(p, id)

Go(p) ==
  \/ GetCached(p) \/ GetRow(p) \/ Fill(p) \/ Checked(p)
  \/ UpsertUserSetting(p) \/ Publish(p) \/ StatementFails(p) \/ Refuse(p)

Next ==
  \/ \E p \in Procs : Request(p) \/ Go(p)
  \/ \E k \in Keys : Expire(k)
  \/ Crash

Spec == Init /\ [][Next]_vars

(* Ten minutes pass for every entry of the cache. *)
FairSpec ==
  Spec /\ (\A p \in Procs : WF_vars(Go(p))) /\ (\A k \in Keys : WF_vars(Expire(k)))

-----------------------------------------------------------------------------
(* Properties *)

List == UNION {[S -> 0..1] : S \in SUBSET (1..MaxTokens)}

(* Every variable holds what the code can store in it. *)
TypeOK ==
  /\ row \in [Keys -> List \cup {None}] /\ cache \in [Keys -> List \cup {None}]
  /\ cookie \in 0..MaxTokens /\ issued \in 0..MaxTokens
  /\ \A p \in Procs : job[p].list \in List /\ \A i \in DOMAIN job[p].plan : job[p].plan[i] \in Edit
  /\ removed \subseteq 1..MaxTokens /\ unstored \subseteq 1..MaxTokens

(* Between requests that come one at a time the cache says what the row      *)
(* says, also after a statement failed half-way through a rotation           *)
(* (UpsertUserSetting, GetUserSetting).                                      *)
CacheCoherent == calm /\ AllIdle => \A k \in Keys : cache[k] \in {None, row[k]}

(* The browser's session survives: the refresh token it holds is in the      *)
(* database, whichever step of a rotation the database refused               *)
(* (RefreshToken).                                                           *)
SessionLives ==
  calm /\ AllIdle /\ cookie # 0 => cookie \in Ids("session") \cup unstored

(* A token that was deleted or rotated away is not written back by a later   *)
(* edit of a list read before (RemoveUserRefreshToken,                       *)
(* RemoveUserPersonalAccessToken, UpdatePATLastUsed).                        *)
RemovedStaysRemoved == calm => \A k \in Keys : Ids(k) \cap removed = {}

(* However requests overlap, a cached list that differs from the row does    *)
(* not stay: it expires (Cache.Get).                                         *)
StaleListGoes == \A k \in Keys : []<>(cache[k] \in {None, row[k]})

(* An edit that ends without a new row leaves the cached list as it was      *)
(* (UpdateShortcut, UpsertUserSetting).                                      *)
RefusedLeavesCache ==
  [][\A p \in Procs : At(p, "write") /\ job'[p] = Idle /\ row' = row
       => \A k \in Keys : cache'[k] \in {None, cache[k]}]_vars

(* A rotation adds before it removes, so that at its end the token it hands  *)
(* out is stored, whatever else edits the list (RefreshToken).               *)
RotationsMayRace ==
  \A p \in Procs :
    At(p, "publish") /\ Now(p).op = "remove" /\ job[p].cookie # 0 =>
      job[p].cookie \in Ids("session")
=============================================================================
