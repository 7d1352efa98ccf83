------------------------- MODULE UserSettingsProofs -------------------------
(***************************************************************************)
(* The setting cache and the session of the browser, for any number of     *)
(* requests, tokens and faults.                                            *)
(***************************************************************************)
EXTENDS UserSettings, SequenceTheorems, TLAPS

(* An edit names an entry; only the check made to list all of them does not. *)
Ident == 0..MaxTokens
PC == {"idle", "get", "fill", "checked", "write", "publish"}
Edits == {e \in Edit : e.id \in Ident /\ (e.op # "check" => e.id # 0)}
Job == [pc: PC, plan: Seq(Edits), list: List, sets: BOOLEAN, cookie: Ident]

(* A request at work has an edit to make; what it reads of a list for, it    *)
(* either checks or writes.                                                  *)
Shape(j) ==
  /\ j.pc # "idle" => j.plan # <<>>
  /\ j.pc = "checked" => Head(j.plan).op = "check"
  /\ j.pc \in {"write", "publish"} => Head(j.plan).op # "check"

Tables ==
  /\ row \in [Keys -> List \cup {None}] /\ cache \in [Keys -> List \cup {None}]
  /\ issued \in Ident /\ cookie \in 0..issued
  /\ removed \subseteq 1..MaxTokens /\ unstored \subseteq 1..MaxTokens
  /\ calm \in BOOLEAN /\ faults \in Nat
Jobs ==
  job \in [Procs -> Job] /\ \A p \in Procs : Shape(job[p]) /\ job[p].cookie \in 0..issued
TypeInv == Tables /\ Jobs

(* As long as all is calm there is one request at most, and no list it read  *)
(* is out of date: a key's cached list differs from its row only between the *)
(* UPDATE of that row and the Set of the cache.                              *)
Busy(p) == ~At(p, "idle")
OneAtATime == \A p, q \in Procs : Busy(p) /\ Busy(q) => p = q
Coherent(k) == cache[k] \in {None, row[k]}
Read(p) == job[p].pc \in {"fill", "checked", "write"}

Fresh ==
  /\ \A p \in Procs : Read(p) => job[p].list = Listed(row[Now(p).key])
  /\ \A p \in Procs : At(p, "fill") => row[Now(p).key] # None
  /\ \A p \in Procs : At(p, "publish") => job[p].list = row[Now(p).key]
  /\ \A k \in Keys : Coherent(k) \/ \E p \in Procs : At(p, "publish") /\ Now(p).key = k

CacheInv == calm => OneAtATime /\ Fresh

(* What a request still has to do with the sessions: nothing, sign in, the   *)
(* three steps of a rotation, or the last of them, which signs out as well.  *)
Adding(j, fatal) == Step("add", "session", j.cookie, fatal)
Aside(j) == ~j.sets /\ \A i \in DOMAIN j.plan : j.plan[i].key # "session"
SigningIn(j) == j.sets /\ j.plan = <<Adding(j, FALSE)>>
Rotating(j) == j.sets /\ \E old \in Ident \ {j.cookie} : j.plan = Rotation(old, j.cookie)
Swapping(j) == j.sets /\ \E old \in Ident \ {j.cookie} :
  j.plan = <<Adding(j, TRUE), Step("remove", "session", old, FALSE)>>
Ending(j) == j.sets /\ \E old \in Ident \ {j.cookie} :
  j.plan = <<Step("remove", "session", old, FALSE)>>

Purposeful(j) == Aside(j) \/ SigningIn(j) \/ Rotating(j) \/ Swapping(j) \/ Ending(j)

(* The token the browser holds is good until a request is about to hand out  *)
(* another one, which then is good already.                                  *)
Good(token) == token # 0 => token \in Ids("session") \cup unstored
Replacing(p) == Busy(p) /\ Ending(job[p])
Stored(p) == At(p, "publish") /\ (SigningIn(job[p]) \/ Swapping(job[p])) => Good(job[p].cookie)

Sessions ==
  /\ \A p \in Procs : Busy(p) => Purposeful(job[p])
  /\ \A p \in Procs : Replacing(p) => Good(job[p].cookie)
  /\ \A p \in Procs : Stored(p)
  /\ Good(cookie) \/ \E p \in Procs : Replacing(p)

SessionInv == calm => Sessions

IInv == TypeInv /\ CacheInv /\ SessionInv

-----------------------------------------------------------------------------
(* Lists and plans *)

LEMMA Lists ==
  /\ None \notin List /\ <<>> \in List
  /\ \A l \in List : DOMAIN l \subseteq 1..MaxTokens /\ l = [i \in DOMAIN l |-> l[i]]
  /\ \A l \in List : \A i \in DOMAIN l : l[i] \in 0..1
  /\ \A S \in SUBSET (1..MaxTokens) : \A l : l \in [S -> 0..1] => l \in List
<1>1. None \notin List
  BY ConstantsOK DEF List
<1>2. <<>> \in [{} -> 0..1]
  OBVIOUS
<1>3. {} \in SUBSET (1..MaxTokens)
  OBVIOUS
<1>4. <<>> \in List
  BY <1>2, <1>3 DEF List
<1>5. \A S \in SUBSET (1..MaxTokens) : \A l : l \in [S -> 0..1] => l \in List
  BY DEF List
<1>6. ASSUME NEW l \in List
      PROVE  /\ DOMAIN l \subseteq 1..MaxTokens /\ l = [i \in DOMAIN l |-> l[i]]
             /\ \A i \in DOMAIN l : l[i] \in 0..1
  <2> PICK S \in SUBSET (1..MaxTokens) : l \in [S -> 0..1]
    BY <1>6 DEF List
  <2> QED OBVIOUS
<1> QED BY <1>1, <1>4, <1>5, <1>6

(* What an edit makes of the list. *)
LEMMA EditedIds ==
  ASSUME NEW e \in Edits, e.op # "check", NEW l \in List
  PROVE  /\ Edited(e, l) \in List
         /\ e.op = "add" => DOMAIN Edited(e, l) = DOMAIN l \cup {e.id}
         /\ e.op = "remove" => DOMAIN Edited(e, l) = DOMAIN l \ {e.id}
         /\ e.op = "touch" => DOMAIN Edited(e, l) = DOMAIN l
<1>0. /\ DOMAIN l \in SUBSET (1..MaxTokens) /\ \A i \in DOMAIN l : l[i] \in 0..1
      /\ e.op \in {"add", "remove", "touch"} /\ e.id \in 1..MaxTokens
  BY Lists, ConstantsOK DEF Edits, Edit, Ident
<1>1. CASE e.op = "add"
  <2> DEFINE S == DOMAIN l \cup {e.id}
             new == [i \in S |-> IF i = e.id THEN 0 ELSE l[i]]
  <2>1. S \in SUBSET (1..MaxTokens) /\ new \in [S -> 0..1]
    BY <1>0
  <2>2. Edited(e, l) = new
    BY <1>1 DEF Edited
  <2> QED BY <1>1, <2>1, <2>2, Lists
<1>2. CASE e.op = "remove"
  <2> DEFINE S == DOMAIN l \ {e.id}
             new == [i \in S |-> l[i]]
  <2>1. S \in SUBSET (1..MaxTokens) /\ new \in [S -> 0..1]
    BY <1>0
  <2>2. Edited(e, l) = new
    BY <1>2 DEF Edited, Restrict
  <2> QED BY <1>2, <2>1, <2>2, Lists
<1>3. CASE e.op = "touch"
  <2> DEFINE S == DOMAIN l
             new == [i \in S |-> IF i = e.id THEN 1 ELSE l[i]]
  <2>1. S \in SUBSET (1..MaxTokens) /\ new \in [S -> 0..1]
    BY <1>0
  <2>2. Edited(e, l) = new
    BY <1>3 DEF Edited
  <2> QED BY <1>3, <2>1, <2>2, Lists
<1> QED BY <1>0, <1>1, <1>2, <1>3

LEMMA NowTyped ==
  ASSUME TypeInv, NEW p \in Procs, Busy(p)
  PROVE  /\ job[p] \in Job /\ Shape(job[p]) /\ job[p].plan \in Seq(Edits) /\ job[p].plan # <<>>
         /\ Now(p) \in Edits /\ Now(p).key \in Keys /\ Now(p) = job[p].plan[1]
         /\ Tail(job[p].plan) \in Seq(Edits)
         /\ row[Now(p).key] \in List \cup {None} /\ cache[Now(p).key] \in List \cup {None}
         /\ Listed(row[Now(p).key]) \in List
<1>1. job[p] \in Job /\ Shape(job[p])
  BY DEF TypeInv, Jobs
<1>2. job[p].plan \in Seq(Edits) /\ job[p].plan # <<>>
  BY <1>1 DEF Job, Shape, Busy, At
<1>3. Now(p) \in Edits /\ Tail(job[p].plan) \in Seq(Edits) /\ Now(p) = job[p].plan[1]
  BY <1>2, HeadTailProperties DEF Now
<1>4. Now(p).key \in Keys
  BY <1>3 DEF Edits, Edit
<1>5. row[Now(p).key] \in List \cup {None} /\ cache[Now(p).key] \in List \cup {None}
  BY <1>4 DEF TypeInv, Tables
<1>6. Listed(row[Now(p).key]) \in List
  BY <1>5, Lists DEF Listed
<1> QED BY <1>1, <1>2, <1>3, <1>4, <1>5, <1>6

(* Every request begins with a plan for one purpose. *)
LEMMA StepTyped ==
  ASSUME NEW op \in {"add", "remove", "touch", "check"}, NEW k \in Keys, NEW id \in Ident,
         NEW fatal \in BOOLEAN, op # "check" => id # 0
  PROVE  Step(op, k, id, fatal) \in Edits
BY ConstantsOK DEF Step, Edits, Edit, Ident

LEMMA ShortPlans ==
  ASSUME NEW a \in Edits, NEW b \in Edits, NEW c \in Edits
  PROVE  /\ <<a>> \in Seq(Edits) /\ <<a>> # <<>>
         /\ <<a, b>> \in Seq(Edits) /\ <<a, b>> # <<>>
         /\ <<a, b, c>> \in Seq(Edits) /\ <<a, b, c>> # <<>>
OBVIOUS

Begins(p) ==
  \E plan \in Seq(Edits), sets \in BOOLEAN, token \in 0..issued' :
    LET j == [pc |-> "get", plan |-> plan, list |-> <<>>, sets |-> sets, cookie |-> token] IN
    /\ Begin(p, plan, sets, token) /\ plan # <<>> /\ Purposeful(j)
    /\ Ending(j) => token = 0
    /\ issued \in 0..issued' /\ issued' \in Ident

LEMMA BeginsAside ==
  ASSUME TypeInv, NEW p \in Procs, NEW plan \in Seq(Edits), plan # <<>>,
         \A i \in DOMAIN plan : plan[i].key # "session",
         Begin(p, plan, FALSE, 0), Issue \/ UNCHANGED issued
  PROVE  Begins(p)
<1>1. issued \in 0..issued' /\ issued' \in Ident /\ 0 \in 0..issued'
  BY ConstantsOK DEF TypeInv, Tables, Ident, Issue, New
<1> DEFINE j == [pc |-> "get", plan |-> plan, list |-> <<>>, sets |-> FALSE, cookie |-> 0]
<1>2. Aside(j) /\ ~Ending(j)
  BY DEF Aside, Ending
<1> QED BY <1>1, <1>2 DEF Begins, Purposeful

LEMMA RequestBegins ==
  ASSUME TypeInv, NEW p \in Procs, Request(p)
  PROVE  Begins(p)
<1>0. /\ issued \in Nat /\ MaxTokens \in Nat /\ issued \in Ident /\ cookie \in 0..issued
      /\ Issue => New \in Ident \ {0} /\ issued' = New
  BY ConstantsOK DEF TypeInv, Tables, Ident, Issue, New
<1>k. Keys = {"session", "pat", "webhook", "shortcut"}
  BY DEF Keys
<1>1. ASSUME SignIn(p)
      PROVE  Begins(p)
  <2> DEFINE plan == <<Step("add", "session", New, FALSE)>>
             j == [pc |-> "get", plan |-> plan, list |-> <<>>, sets |-> TRUE, cookie |-> New]
  <2>1. New \in Ident \ {0} /\ issued' = New
    BY <1>0, <1>1 DEF SignIn
  <2>2. plan \in Seq(Edits) /\ plan # <<>>
    <3>1. Step("add", "session", New, FALSE) \in Edits
      BY <1>k, <2>1, StepTyped
    <3> QED BY <3>1, ShortPlans
  <2>3. SigningIn(j)
    BY DEF SigningIn, Adding
  <2>4. ~Ending(j)
    BY DEF Ending, Step
  <2>5. New \in 0..issued' /\ issued \in 0..issued'
    BY <1>0, <2>1 DEF New, Ident
  <2> QED BY <1>1, <2>1, <2>2, <2>3, <2>4, <2>5 DEF SignIn, Begins, Purposeful
<1>2. ASSUME RefreshToken(p)
      PROVE  Begins(p)
  <2> DEFINE plan == Rotation(cookie, New)
             j == [pc |-> "get", plan |-> plan, list |-> <<>>, sets |-> TRUE, cookie |-> New]
  <2>1. New \in Ident \ {0} /\ issued' = New /\ cookie # 0 /\ cookie \in Ident \ {New}
    BY <1>0, <1>2 DEF RefreshToken, Ident, New
  <2>2. plan \in Seq(Edits) /\ plan # <<>>
    <3>1. /\ Step("check", "session", cookie, TRUE) \in Edits
          /\ Step("add", "session", New, TRUE) \in Edits
          /\ Step("remove", "session", cookie, FALSE) \in Edits
      BY <1>k, <2>1, StepTyped
    <3> QED BY <3>1, ShortPlans DEF Rotation
  <2>3. Rotating(j)
    BY <2>1 DEF Rotating
  <2>4. ~Ending(j)
    BY DEF Ending, Rotation
  <2>5. New \in 0..issued' /\ issued \in 0..issued'
    BY <1>0, <2>1 DEF New, Ident
  <2> QED BY <1>2, <2>1, <2>2, <2>3, <2>4, <2>5 DEF RefreshToken, Begins, Purposeful
<1>3. ASSUME SignOut(p)
      PROVE  Begins(p)
  <2> DEFINE plan == <<Step("remove", "session", cookie, FALSE)>>
             j == [pc |-> "get", plan |-> plan, list |-> <<>>, sets |-> TRUE, cookie |-> 0]
  <2>1. cookie \in Ident \ {0} /\ issued' = issued
    BY <1>0, <1>3 DEF SignOut, Ident
  <2>2. plan \in Seq(Edits) /\ plan # <<>>
    <3>1. Step("remove", "session", cookie, FALSE) \in Edits
      BY <1>k, <2>1, StepTyped
    <3> QED BY <3>1, ShortPlans
  <2>3. Ending(j)
    BY <2>1 DEF Ending
  <2>4. 0 \in 0..issued' /\ issued \in 0..issued'
    BY <1>0, <2>1
  <2> QED BY <1>0, <1>3, <2>1, <2>2, <2>3, <2>4 DEF SignOut, Begins, Purposeful
<1>4. ASSUME NEW op \in {"add", "remove", "touch", "check"}, NEW k \in Keys \ {"session"},
             NEW id \in Ident, NEW fatal \in BOOLEAN, op # "check" => id # 0,
             Begin(p, <<Step(op, k, id, fatal)>>, FALSE, 0), Issue \/ UNCHANGED issued
      PROVE  Begins(p)
  <2> DEFINE plan == <<Step(op, k, id, fatal)>>
  <2>1. plan \in Seq(Edits) /\ plan # <<>>
    <3>1. Step(op, k, id, fatal) \in Edits
      BY <1>4, StepTyped
    <3> QED BY <3>1, ShortPlans
  <2>2. \A i \in DOMAIN plan : plan[i].key # "session"
    BY DEF Step
  <2> QED BY <1>4, <2>1, <2>2, BeginsAside
<1>5. ASSUME NEW op \in {"remove", "touch"}, NEW id \in Ident \ {0}, UNCHANGED issued,
             Begin(p, <<Step("check", "webhook", id, TRUE), Step(op, "webhook", id, TRUE)>>, FALSE, 0)
      PROVE  Begins(p)
  <2> DEFINE plan == <<Step("check", "webhook", id, TRUE), Step(op, "webhook", id, TRUE)>>
  <2>1. plan \in Seq(Edits) /\ plan # <<>>
    <3>1. /\ Step("check", "webhook", id, TRUE) \in Edits
          /\ Step(op, "webhook", id, TRUE) \in Edits
      BY <1>k, StepTyped
    <3> QED BY <3>1, ShortPlans
  <2>2. \A i \in DOMAIN plan : plan[i].key # "session"
    BY DEF Step
  <2> QED BY <1>5, <2>1, <2>2, BeginsAside
<1>6. CASE CreatePersonalAccessToken(p) \/ CreateUserWebhook(p) \/ CreateShortcut(p)
  BY <1>0, <1>4, <1>6, <1>k DEF CreatePersonalAccessToken, CreateUserWebhook, CreateShortcut
<1>7. CASE ListPersonalAccessTokens(p)
  <2>1. Begin(p, <<Step("check", "pat", 0, FALSE)>>, FALSE, 0) /\ UNCHANGED issued
    BY <1>7 DEF ListPersonalAccessTokens
  <2>2. 0 \in Ident
    BY <1>0 DEF Ident
  <2> QED BY <1>4, <1>k, <2>1, <2>2
<1>8. ASSUME NEW id \in 1..issued,
             \/ DeletePersonalAccessToken(p, id) \/ Authenticate(p, id)
             \/ UpdateUserWebhook(p, id) \/ DeleteUserWebhook(p, id) \/ ChangeShortcut(p, id)
      PROVE  Begins(p)
  <2>1. id \in Ident \ {0}
    BY <1>0, <1>8 DEF Ident
  <2>2. CASE DeletePersonalAccessToken(p, id) \/ Authenticate(p, id)
    BY <1>4, <1>k, <2>1, <2>2 DEF DeletePersonalAccessToken, Authenticate
  <2>3. CASE UpdateUserWebhook(p, id) \/ DeleteUserWebhook(p, id)
    BY <1>5, <2>1, <2>3 DEF UpdateUserWebhook, DeleteUserWebhook
  <2>4. CASE ChangeShortcut(p, id)
    BY <1>4, <1>k, <2>1, <2>4 DEF ChangeShortcut
  <2> QED BY <1>8, <2>2, <2>3, <2>4
<1> QED BY <1>1, <1>2, <1>3, <1>6, <1>7, <1>8 DEF Request

-----------------------------------------------------------------------------
(* What one process becomes, the others stay. *)

LEMMA BecomeTyped ==
  ASSUME TypeInv, NEW p \in Procs, NEW j \in Job, Become(p, j), Shape(j),
         issued' \in Ident, issued <= issued', j.cookie \in 0..issued'
  PROVE  Jobs'
<1>1. issued \in 0..issued' /\ \A q \in Procs : job[q].cookie \in 0..issued'
  BY ConstantsOK DEF TypeInv, Tables, Jobs, Ident
<1> QED BY <1>1 DEF TypeInv, Jobs, Become

LEMMA Alone ==
  ASSUME CacheInv, calm, NEW p \in Procs, Busy(p)
  PROVE  \A q \in Procs : q # p => At(q, "idle")
BY DEF CacheInv, OneAtATime, Busy

LEMMA BecomeFresh ==
  ASSUME TypeInv, CacheInv, calm, NEW p \in Procs, Busy(p), NEW j \in Job, Become(p, j),
         j.pc \in {"fill", "checked", "write"} => j.list = Listed(row'[Head(j.plan).key]),
         j.pc = "fill" => row'[Head(j.plan).key] # None,
         j.pc = "publish" => j.list = row'[Head(j.plan).key],
         \A k \in Keys :
            cache'[k] \in {None, row'[k]} \/ (j.pc = "publish" /\ Head(j.plan).key = k)
  PROVE  CacheInv'
<1>1. \A q \in Procs : job'[q] = IF q = p THEN j ELSE job[q]
  BY DEF Become, TypeInv, Jobs
<1>2. \A q \in Procs : q # p => job[q].pc = "idle"
  BY Alone DEF At
<1>3. OneAtATime'
  BY <1>1, <1>2 DEF OneAtATime, Busy, At
<1>4. Fresh'
  BY <1>1, <1>2 DEF Fresh, Read, At, Now, Coherent
<1> QED BY <1>3, <1>4 DEF CacheInv

LEMMA BecomeSession ==
  ASSUME TypeInv, CacheInv, calm, NEW p \in Procs, Busy(p), NEW j \in Job, Become(p, j),
         j.pc # "idle" => Purposeful(j) /\ (Ending(j) => Good(j.cookie)'),
         j.pc = "publish" /\ (SigningIn(j) \/ Swapping(j)) => Good(j.cookie)',
         Good(cookie)' \/ (j.pc # "idle" /\ Ending(j))
  PROVE  SessionInv'
<1>1. \A q \in Procs : job'[q] = IF q = p THEN j ELSE job[q]
  BY DEF Become, TypeInv, Jobs
<1>2. \A q \in Procs : q # p => job[q].pc = "idle"
  BY Alone DEF At
<1>3. \A q \in Procs : Busy(q)' => q = p
  BY <1>1, <1>2 DEF Busy, At
<1>4. job'[p] = j
  BY <1>1
<1>5. \A q \in Procs : Busy(q)' => Purposeful(job[q])'
  BY <1>3, <1>4 DEF Busy, At
<1>6. \A q \in Procs : Replacing(q)' => Good(job[q].cookie)'
  BY <1>3, <1>4 DEF Busy, At, Replacing, Good
<1>7. \A q \in Procs : Stored(q)'
  BY <1>1, <1>2, <1>4 DEF Stored, At, Good
<1>8. Good(cookie)' \/ \E q \in Procs : Replacing(q)'
  BY <1>4 DEF Replacing, Busy, At
<1> QED BY <1>5, <1>6, <1>7, <1>8 DEF Sessions, SessionInv

-----------------------------------------------------------------------------
(* The steps of a request *)

LEMMA RequestStep ==
  ASSUME IInv, NEW p \in Procs, Request(p)
  PROVE  IInv'
<1>1. PICK plan \in Seq(Edits), sets \in BOOLEAN, token \in 0..issued' :
        LET j == [pc |-> "get", plan |-> plan, list |-> <<>>, sets |-> sets, cookie |-> token] IN
        /\ Begin(p, plan, sets, token) /\ plan # <<>> /\ Purposeful(j)
        /\ Ending(j) => token = 0
        /\ issued \in 0..issued' /\ issued' \in Ident
  BY RequestBegins DEF IInv, Begins
<1>2. PICK j : j = [pc |-> "get", plan |-> plan, list |-> <<>>, sets |-> sets, cookie |-> token]
  OBVIOUS
<1>3. /\ Become(p, j) /\ Purposeful(j) /\ (Ending(j) => token = 0) /\ At(p, "idle")
      /\ calm' = (calm /\ AllIdle) /\ UNCHANGED <<row, cache, cookie, removed, unstored, faults>>
      /\ issued \in 0..issued' /\ issued' \in Ident
  BY <1>1, <1>2 DEF Begin
<1>4. j \in Job /\ Shape(j) /\ j.pc = "get" /\ j.cookie = token
  <2>1. token \in Ident
    BY <1>1, ConstantsOK DEF Ident
  <2> QED BY <1>1, <1>2, <2>1, Lists DEF Job, Shape, PC
<1>5. TypeInv'
  <2>1. Jobs'
    BY <1>1, <1>3, <1>4, BecomeTyped, ConstantsOK DEF IInv, TypeInv, Tables, Ident
  <2>2. Tables'
    BY <1>3, ConstantsOK DEF IInv, TypeInv, Tables, Ident
  <2> QED BY <2>1, <2>2 DEF TypeInv
<1>6. ASSUME calm'
      PROVE  OneAtATime' /\ Fresh' /\ Sessions'
  <2>1. calm /\ \A q \in Procs : job[q].pc = "idle"
    BY <1>3, <1>6 DEF AllIdle, At
  <2>2. \A q \in Procs : job'[q] = IF q = p THEN j ELSE job[q]
    BY <1>3 DEF Become, IInv, TypeInv, Jobs
  <2>3. OneAtATime'
    BY <2>1, <2>2 DEF OneAtATime, Busy, At
  <2>4. Fresh'
    BY <1>3, <1>4, <2>1, <2>2 DEF Fresh, Read, At, Now, Coherent, IInv, CacheInv
  <2>5. Sessions /\ Good(cookie)
    BY <2>1 DEF IInv, SessionInv, Sessions, Replacing, Busy, At
  <2>6. \A t : Good(t)' <=> Good(t)
    BY <1>3 DEF Good, Ids, Listed
  <2>7. Good(cookie)'
    BY <1>3, <2>5 DEF Good, Ids, Listed
  <2>8. \A q \in Procs : Busy(q)' => q = p
    BY <2>1, <2>2 DEF Busy, At
  <2>9. job'[p] = j
    BY <2>2
  <2>10. \A q \in Procs : Busy(q)' => Purposeful(job[q])'
    BY <1>3, <2>8, <2>9
  <2>11. \A q \in Procs : Replacing(q)' => Good(job[q].cookie)'
    BY <1>3, <1>4, <2>8, <2>9 DEF Replacing, Good
  <2>12. \A q \in Procs : Stored(q)'
    BY <1>4, <2>1, <2>2 DEF Stored, At
  <2> QED BY <2>3, <2>4, <2>7, <2>10, <2>11, <2>12 DEF Sessions
<1> QED BY <1>5, <1>6 DEF IInv, CacheInv, SessionInv

(* Reading a list changes nothing but the request. *)
LEMMA Reading ==
  ASSUME IInv, NEW p \in Procs, Busy(p), NEW j \in Job, Shape(j), Become(p, j),
         j.plan = job[p].plan, j.sets = job[p].sets, j.cookie = job[p].cookie,
         ~At(p, "publish"), j.pc \notin {"idle", "publish"},
         UNCHANGED <<row, cookie, issued, removed, unstored, calm, faults>>,
         cache' \in [Keys -> List \cup {None}],
         \A k \in Keys : cache'[k] = cache[k] \/ cache'[k] = row[k],
         calm /\ j.pc \in {"fill", "checked", "write"} => j.list = Listed(row[Now(p).key]),
         j.pc = "fill" => row[Now(p).key] # None
  PROVE  IInv'
<1>1. TypeInv'
  <2>1. issued <= issued' /\ issued' \in Ident /\ j.cookie \in 0..issued'
    BY ConstantsOK DEF IInv, TypeInv, Tables, Jobs, Ident
  <2>2. Jobs'
    BY <2>1, BecomeTyped DEF IInv
  <2>3. Tables'
    BY DEF IInv, TypeInv, Tables
  <2> QED BY <2>2, <2>3 DEF TypeInv
<1>2. ASSUME calm
      PROVE  CacheInv'
  <2>1. \A k \in Keys : Coherent(k)
    BY <1>2, Alone DEF IInv, CacheInv, Fresh, At
  <2>2. \A k \in Keys : cache'[k] \in {None, row'[k]}
    BY <2>1 DEF Coherent
  <2>3. Head(j.plan).key = Now(p).key
    BY DEF Now
  <2>4. j.pc \in {"fill", "checked", "write"} => j.list = Listed(row'[Head(j.plan).key])
    BY <1>2, <2>3
  <2>5. /\ j.pc = "fill" => row'[Head(j.plan).key] # None
        /\ j.pc # "publish" /\ TypeInv /\ CacheInv
    BY <2>3 DEF IInv
  <2> QED BY <1>2, <2>2, <2>4, <2>5, BecomeFresh
<1>3. ASSUME calm
      PROVE  SessionInv'
  <2>1. Purposeful(j) /\ (Ending(j) <=> Ending(job[p]))
    <3>1. Purposeful(job[p])
      BY <1>3 DEF IInv, SessionInv, Sessions
    <3> QED
      BY <3>1 DEF Purposeful, Aside, SigningIn, Rotating, Swapping, Ending, Adding
  <2>2. Good(j.cookie)' <=> Good(job[p].cookie)
    BY DEF Good, Ids, Listed
  <2>3. Good(cookie)' <=> Good(cookie)
    BY DEF Good, Ids, Listed
  <2>4. \A q \in Procs : Replacing(q) => q = p
    BY <1>3, Alone DEF IInv, Replacing, Busy
  <2>5. Ending(job[p]) => Good(job[p].cookie)
    BY <1>3 DEF IInv, SessionInv, Sessions, Replacing
  <2>6. Good(cookie) \/ Ending(job[p])
    BY <1>3, <2>4 DEF IInv, SessionInv, Sessions, Replacing
  <2>7. /\ TypeInv /\ CacheInv /\ j.pc \notin {"idle", "publish"}
        /\ Ending(j) => Good(j.cookie)'
        /\ Good(cookie)' \/ Ending(j)
    BY <2>1, <2>2, <2>3, <2>5, <2>6 DEF IInv
  <2> QED BY <1>3, <2>1, <2>7, BecomeSession
<1> QED BY <1>1, <1>2, <1>3 DEF IInv, CacheInv, SessionInv

LEMMA GetCachedStep ==
  ASSUME IInv, NEW p \in Procs, GetCached(p)
  PROVE  IInv'
<1>1. PICK j : j = [job[p] EXCEPT !.pc = After(Now(p)), !.list = cache[Now(p).key]]
  OBVIOUS
<1>2. /\ job[p].pc = "get" /\ cache[Now(p).key] # None /\ Become(p, j)
      /\ UNCHANGED <<row, cache, cookie, issued, removed, unstored, calm, faults>>
  BY <1>1 DEF GetCached, At
<1>3. Busy(p) /\ ~At(p, "publish")
  BY <1>2 DEF Busy, At
<1>4. j \in Job /\ Shape(j) /\ j.pc \in {"checked", "write"} /\ j.list = cache[Now(p).key]
      /\ j.plan = job[p].plan /\ j.sets = job[p].sets /\ j.cookie = job[p].cookie
  <2>1. cache[Now(p).key] \in List
    BY <1>2, <1>3, NowTyped DEF IInv
  <2> QED BY <1>1, <1>3, <2>1, NowTyped DEF IInv, Job, PC, Shape, After, Now
<1>5. ASSUME calm
      PROVE  j.list = Listed(row[Now(p).key])
  <2>1. Now(p).key \in Keys
    BY <1>3, NowTyped DEF IInv
  <2>2. Coherent(Now(p).key)
    BY <1>2, <1>3, <1>5, <2>1, Alone DEF IInv, CacheInv, Fresh, At
  <2> QED BY <1>2, <1>4, <2>2 DEF Coherent, Listed
<1>6. cache' \in [Keys -> List \cup {None}]
  BY <1>2 DEF IInv, TypeInv, Tables
<1> QED BY <1>2, <1>3, <1>4, <1>5, <1>6, Reading

LEMMA GetRowStep ==
  ASSUME IInv, NEW p \in Procs, GetRow(p)
  PROVE  IInv'
<1>1. PICK j : j = [job[p] EXCEPT !.list = Listed(row[Now(p).key]),
                        !.pc = IF row[Now(p).key] = None THEN After(Now(p)) ELSE "fill"]
  OBVIOUS
<1>2. /\ job[p].pc = "get" /\ Become(p, j)
      /\ UNCHANGED <<row, cache, cookie, issued, removed, unstored, calm, faults>>
  BY <1>1 DEF GetRow, At
<1>3. Busy(p) /\ ~At(p, "publish")
  BY <1>2 DEF Busy, At
<1>4. j \in Job /\ Shape(j) /\ j.pc \in {"fill", "checked", "write"}
      /\ j.list = Listed(row[Now(p).key]) /\ (j.pc = "fill" => row[Now(p).key] # None)
      /\ j.plan = job[p].plan /\ j.sets = job[p].sets /\ j.cookie = job[p].cookie
  BY <1>1, <1>3, NowTyped DEF IInv, Job, PC, Shape, After, Now
<1>5. cache' \in [Keys -> List \cup {None}]
  BY <1>2 DEF IInv, TypeInv, Tables
<1> QED BY <1>2, <1>3, <1>4, <1>5, Reading

LEMMA FillStep ==
  ASSUME IInv, NEW p \in Procs, Fill(p)
  PROVE  IInv'
<1>1. PICK j : j = [job[p] EXCEPT !.pc = After(Now(p))]
  OBVIOUS
<1>2. /\ job[p].pc = "fill" /\ Become(p, j) /\ cache' = [cache EXCEPT ![Now(p).key] = job[p].list]
      /\ UNCHANGED <<row, cookie, issued, removed, unstored, calm, faults>>
  BY <1>1 DEF Fill, At
<1>3. Busy(p) /\ ~At(p, "publish")
  BY <1>2 DEF Busy, At
<1>4. j \in Job /\ Shape(j) /\ j.pc \in {"checked", "write"} /\ j.list = job[p].list
      /\ j.plan = job[p].plan /\ j.sets = job[p].sets /\ j.cookie = job[p].cookie
  BY <1>1, <1>3, NowTyped DEF IInv, Job, PC, Shape, After, Now
<1>5. ASSUME calm
      PROVE  job[p].list = Listed(row[Now(p).key]) /\ job[p].list = row[Now(p).key]
  BY <1>2, <1>5 DEF IInv, CacheInv, Fresh, Read, At, Listed
<1>6. cache' \in [Keys -> List \cup {None}] /\ \A k \in Keys : k # Now(p).key => cache'[k] = cache[k]
  BY <1>2, <1>4 DEF IInv, TypeInv, Tables, Job
<1>7. CASE calm
  <2>1. \A k \in Keys : cache'[k] = cache[k] \/ cache'[k] = row[k]
    BY <1>2, <1>5, <1>6, <1>7 DEF IInv, TypeInv, Tables
  <2> QED BY <1>2, <1>3, <1>4, <1>5, <1>6, <1>7, <2>1, Reading
<1>8. CASE ~calm
  <2>1. Jobs'
    <3>1. issued <= issued' /\ issued' \in Ident /\ j.cookie \in 0..issued'
      BY <1>2, <1>4, ConstantsOK DEF IInv, TypeInv, Tables, Jobs, Ident
    <3> QED BY <1>2, <1>4, <3>1, BecomeTyped DEF IInv
  <2>2. Tables'
    BY <1>2, <1>6 DEF IInv, TypeInv, Tables
  <2> QED BY <1>2, <1>8, <2>1, <2>2 DEF IInv, TypeInv, CacheInv, SessionInv
<1> QED BY <1>7, <1>8

-----------------------------------------------------------------------------
(* The end of an edit *)

LEMMA TupleTails ==
  ASSUME NEW a, NEW b, NEW c
  PROVE  /\ Tail(<<a, b, c>>) = <<b, c>> /\ Tail(<<a, b>>) = <<b>> /\ Tail(<<a>>) = <<>>
         /\ <<a>> # <<>> /\ <<a, b>> # <<>> /\ <<a, b>> # <<c>>
OBVIOUS

LEMMA PlanTails ==
  ASSUME NEW old \in Job, old.plan # <<>>, Purposeful(old), NEW j,
         j.plan = Tail(old.plan), j.sets = old.sets, j.cookie = old.cookie
  PROVE  /\ j.plan # <<>> => Purposeful(j) /\ ~Ending(old) /\ (Ending(j) => Swapping(old))
         /\ j.plan = <<>> => Aside(old) \/ SigningIn(old) \/ Ending(old)
<1>0. old.plan \in Seq(Edits)
  BY DEF Job
<1>1. CASE Aside(old)
  <2>1. Aside(j)
    <3>1. /\ Len(j.plan) = Len(old.plan) - 1 /\ j.plan \in Seq(Edits)
          /\ \A i \in 1..Len(j.plan) : j.plan[i] = old.plan[i + 1]
      BY <1>0, HeadTailProperties
    <3> QED BY <1>0, <1>1, <3>1, LenProperties DEF Aside
  <2>2. ~Ending(j) /\ ~Ending(old)
    BY <1>1, <2>1 DEF Aside, Ending
  <2> QED BY <1>1, <2>1, <2>2 DEF Purposeful
<1>2. CASE SigningIn(old)
  <2>1. j.plan = <<>>
    BY <1>2 DEF SigningIn
  <2> QED BY <1>2, <2>1
<1>3. CASE Rotating(old)
  <2>1. PICK gone \in Ident \ {j.cookie} : old.plan = Rotation(gone, j.cookie)
    BY <1>3 DEF Rotating
  <2>2. j.plan = <<Adding(j, TRUE), Step("remove", "session", gone, FALSE)>>
    <3>1. PICK a, b, c : /\ a = Step("check", "session", gone, TRUE)
                         /\ b = Step("add", "session", j.cookie, TRUE)
                         /\ c = Step("remove", "session", gone, FALSE)
      OBVIOUS
    <3>2. old.plan = <<a, b, c>>
      BY <2>1, <3>1 DEF Rotation
    <3>3. j.plan = <<b, c>>
      BY <3>2, TupleTails
    <3> QED BY <3>1, <3>3 DEF Adding
  <2>3. Swapping(j)
    BY <1>3, <2>2 DEF Swapping, Rotating
  <2>4. ~Ending(old)
    BY <2>1 DEF Ending, Rotation
  <2>5. ~Ending(j) /\ j.plan # <<>>
    <3>1. PICK a, b : a = Adding(j, TRUE) /\ b = Step("remove", "session", gone, FALSE)
      OBVIOUS
    <3>2. j.plan = <<a, b>>
      BY <2>2, <3>1
    <3>3. j.plan[1].op = "add"
      BY ONLY <3>1, <3>2 DEF Adding, Step
    <3>4. ASSUME Ending(j)
          PROVE  j.plan[1].op = "remove"
      BY ONLY <3>4 DEF Ending, Step
    <3>5. j.plan # <<>>
      BY ONLY <3>2
    <3> QED BY <3>3, <3>4, <3>5
  <2> QED BY <2>3, <2>4, <2>5 DEF Purposeful
<1>4. CASE Swapping(old)
  <2>1. PICK gone \in Ident \ {j.cookie} :
          old.plan = <<Adding(old, TRUE), Step("remove", "session", gone, FALSE)>>
    BY <1>4 DEF Swapping
  <2>2. j.plan = <<Step("remove", "session", gone, FALSE)>>
    <3>1. PICK a, b : a = Adding(old, TRUE) /\ b = Step("remove", "session", gone, FALSE)
      OBVIOUS
    <3>2. old.plan = <<a, b>>
      BY <2>1, <3>1
    <3>3. j.plan = <<b>>
      BY <3>2, TupleTails
    <3> QED BY <3>1, <3>3
  <2>3. Ending(j)
    BY <1>4, <2>2 DEF Ending, Swapping
  <2>4. ~Ending(old) /\ j.plan # <<>>
    BY <2>1, <2>2 DEF Ending
  <2> QED BY <1>4, <2>3, <2>4 DEF Purposeful
<1>5. CASE Ending(old)
  <2>1. j.plan = <<>>
    BY <1>5 DEF Ending
  <2> QED BY <1>5, <2>1
<1> QED BY <1>1, <1>2, <1>3, <1>4, <1>5 DEF Purposeful

(* The edit a request with the sessions begins with says what it is up to. *)
LEMMA FirstEdits ==
  ASSUME NEW j, NEW e, e = j.plan[1]
  PROVE  /\ SigningIn(j) => e.op = "add" /\ e.key = "session" /\ e.id = j.cookie /\ e.fatal = FALSE
         /\ Swapping(j) => e.op = "add" /\ e.key = "session" /\ e.id = j.cookie /\ e.fatal = TRUE
         /\ Rotating(j) => e.op = "check" /\ e.key = "session" /\ e.fatal = TRUE
         /\ Ending(j) => e.op = "remove" /\ e.key = "session" /\ e.id # j.cookie /\ e.fatal = FALSE
<1>1. ASSUME SigningIn(j)
      PROVE  e.op = "add" /\ e.key = "session" /\ e.id = j.cookie /\ e.fatal = FALSE
  <2>1. e = Step("add", "session", j.cookie, FALSE)
    BY <1>1 DEF SigningIn, Adding
  <2> QED BY <2>1 DEF Step
<1>2. ASSUME Swapping(j)
      PROVE  e.op = "add" /\ e.key = "session" /\ e.id = j.cookie /\ e.fatal = TRUE
  <2>1. PICK b : j.plan = <<Adding(j, TRUE), b>>
    BY <1>2 DEF Swapping
  <2>2. e = Step("add", "session", j.cookie, TRUE)
    BY <2>1 DEF Adding
  <2> QED BY <2>2 DEF Step
<1>3. ASSUME Rotating(j)
      PROVE  e.op = "check" /\ e.key = "session" /\ e.fatal = TRUE
  <2>1. PICK old, b, c : j.plan = <<Step("check", "session", old, TRUE), b, c>>
    BY <1>3 DEF Rotating, Rotation
  <2>2. e = Step("check", "session", old, TRUE)
    BY <2>1
  <2> QED BY <2>2 DEF Step
<1>4. ASSUME Ending(j)
      PROVE  e.op = "remove" /\ e.key = "session" /\ e.id # j.cookie /\ e.fatal = FALSE
  <2>1. PICK old \in Ident \ {j.cookie} : j.plan = <<Step("remove", "session", old, FALSE)>>
    BY <1>4 DEF Ending
  <2>2. e = Step("remove", "session", old, FALSE)
    BY <2>1
  <2> QED BY <2>1, <2>2 DEF Step
<1> QED BY <1>1, <1>2, <1>3, <1>4

LEMMA Finished ==
  ASSUME TypeInv, NEW p \in Procs, Busy(p), Finish(p)
  PROVE  \E j \in Job :
           /\ Become(p, j) /\ Shape(j) /\ j.cookie \in 0..issued /\ cookie' \in 0..issued
           /\ \/ /\ j.pc = "get" /\ j.plan # <<>> /\ j.plan = Tail(job[p].plan)
                 /\ j.sets = job[p].sets /\ j.cookie = job[p].cookie /\ cookie' = cookie
              \/ /\ j = Idle /\ Tail(job[p].plan) = <<>>
                 /\ cookie' = IF job[p].sets THEN job[p].cookie ELSE cookie
<1>0. /\ job[p].cookie \in 0..issued /\ cookie \in 0..issued /\ issued \in Nat
      /\ Tail(job[p].plan) \in Seq(Edits) /\ job[p] \in Job
  BY NowTyped, ConstantsOK DEF TypeInv, Tables, Jobs, Ident
<1>1. CASE Tail(job[p].plan) # <<>>
  <2>1. PICK j : j = [job[p] EXCEPT !.pc = "get", !.plan = Tail(job[p].plan)]
    OBVIOUS
  <2>2. j \in Job /\ j.pc = "get" /\ j.plan = Tail(job[p].plan)
        /\ j.sets = job[p].sets /\ j.cookie = job[p].cookie
    BY <1>0, <2>1 DEF Job, PC
  <2>3. Shape(j)
    BY <1>1, <2>2 DEF Shape
  <2>4. Become(p, j) /\ cookie' = cookie
    BY <1>1, <2>1 DEF Finish
  <2> QED BY <1>0, <1>1, <2>2, <2>3, <2>4
<1>2. CASE Tail(job[p].plan) = <<>>
  <2>1. PICK j : j = Idle
    OBVIOUS
  <2>2. j \in Job /\ Shape(j) /\ j.cookie = 0
    BY <2>1, Lists, ConstantsOK DEF Idle, Job, PC, Shape, Ident
  <2>3. Become(p, j) /\ cookie' = IF job[p].sets THEN job[p].cookie ELSE cookie
    BY <1>2, <2>1 DEF Finish
  <2>4. cookie' \in 0..issued /\ j.cookie \in 0..issued
    BY <1>0, <2>2, <2>3
  <2> QED BY <1>2, <2>1, <2>2, <2>3, <2>4
<1> QED BY <1>1, <1>2

(* A request that ends an edit leaves all caches coherent and the browser    *)
(* with a good token, provided that the edit did its part.                   *)
LEMMA FinishStep ==
  ASSUME IInv, NEW p \in Procs, Busy(p), Finish(p), UNCHANGED issued,
         row' \in [Keys -> List \cup {None}], cache' \in [Keys -> List \cup {None}],
         removed' \subseteq 1..MaxTokens, unstored' \subseteq 1..MaxTokens,
         calm' \in BOOLEAN, calm' => calm, faults' \in Nat,
         calm' => \A k \in Keys : cache'[k] \in {None, row'[k]},
         calm' /\ (SigningIn(job[p]) \/ Swapping(job[p]) \/ Ending(job[p])) =>
           Good(job[p].cookie) \/ job[p].cookie \in Ids("session")' \cup unstored',
         calm' => \A t : Good(t) => Good(t)'
  PROVE  IInv'
<1>1. PICK j \in Job :
           /\ Become(p, j) /\ Shape(j) /\ j.cookie \in 0..issued /\ cookie' \in 0..issued
           /\ \/ /\ j.pc = "get" /\ j.plan # <<>> /\ j.plan = Tail(job[p].plan)
                 /\ j.sets = job[p].sets /\ j.cookie = job[p].cookie /\ cookie' = cookie
              \/ /\ j = Idle /\ Tail(job[p].plan) = <<>>
                 /\ cookie' = IF job[p].sets THEN job[p].cookie ELSE cookie
  BY Finished DEF IInv
<1>2. TypeInv'
  <2>1. issued <= issued' /\ issued' \in Ident /\ j.cookie \in 0..issued'
    BY <1>1, ConstantsOK DEF IInv, TypeInv, Tables, Ident
  <2>2. Jobs'
    BY <1>1, <2>1, BecomeTyped DEF IInv
  <2>3. Tables'
    BY <1>1 DEF IInv, TypeInv, Tables
  <2> QED BY <2>2, <2>3 DEF TypeInv
<1>3. j.pc \in {"idle", "get"}
  BY <1>1 DEF Idle
<1>4. ASSUME calm'
      PROVE  CacheInv'
  <2>1. calm /\ TypeInv /\ CacheInv
    BY <1>4 DEF IInv
  <2>2. \A k \in Keys : cache'[k] \in {None, row'[k]}
    BY <1>4
  <2> QED BY <1>1, <1>3, <2>1, <2>2, BecomeFresh
<1>5. ASSUME calm'
      PROVE  SessionInv'
  <2>1. calm /\ TypeInv /\ CacheInv /\ Sessions
    BY <1>5 DEF IInv, SessionInv
  <2>2. Purposeful(job[p]) /\ job[p] \in Job /\ job[p].plan # <<>>
    BY <2>1, NowTyped DEF Sessions
  <2>3. ~Ending(job[p]) => Good(cookie)
    BY <2>1, Alone DEF Sessions, Replacing, Busy
  <2>4. \A t : Good(t) => Good(t)'
    BY <1>5
  <2>5. SigningIn(job[p]) \/ Swapping(job[p]) \/ Ending(job[p]) =>
          \A t : t = job[p].cookie => Good(t)'
    BY <1>5, <2>4 DEF Good
  <2>6. CASE j.pc = "get"
    <3>1. /\ j.plan # <<>> /\ j.plan = Tail(job[p].plan) /\ j.sets = job[p].sets
          /\ j.cookie = job[p].cookie /\ cookie' = cookie
      BY <1>1, <2>6 DEF Idle
    <3>2. Purposeful(j) /\ ~Ending(job[p]) /\ (Ending(j) => Swapping(job[p]))
      BY <2>2, <3>1, PlanTails
    <3>3. Ending(j) => Good(j.cookie)'
      BY <2>5, <3>1, <3>2
    <3>4. Good(cookie)'
      <4>1. PICK t : t = cookie
        OBVIOUS
      <4>2. Good(t)'
        BY <2>3, <2>4, <3>2, <4>1
      <4> QED BY <3>1, <4>1, <4>2 DEF Good
    <3> QED BY <1>1, <2>1, <2>6, <3>2, <3>3, <3>4, BecomeSession
  <2>7. CASE j.pc # "get"
    <3>1. j.pc = "idle" /\ Tail(job[p].plan) = <<>>
          /\ cookie' = IF job[p].sets THEN job[p].cookie ELSE cookie
      BY <1>1, <2>7 DEF Idle
    <3>2. Aside(job[p]) \/ SigningIn(job[p]) \/ Ending(job[p])
      <4>1. PICK e : e = [job[p] EXCEPT !.plan = Tail(job[p].plan)]
        OBVIOUS
      <4>2. e.plan = <<>> /\ e.plan = Tail(job[p].plan)
            /\ e.sets = job[p].sets /\ e.cookie = job[p].cookie
        BY <2>2, <3>1, <4>1 DEF Job
      <4> QED BY <2>2, <4>2, PlanTails
    <3>3. PICK t : t = cookie'
      OBVIOUS
    <3>4. Good(t)'
      <4>1. CASE SigningIn(job[p]) \/ Ending(job[p])
        <5>1. t = job[p].cookie
          BY <3>1, <3>3, <4>1 DEF SigningIn, Ending
        <5> QED BY <2>5, <4>1, <5>1
      <4>2. CASE Aside(job[p])
        <5>1. t = cookie /\ ~Ending(job[p])
          BY <3>1, <3>3, <4>2 DEF Aside, Ending
        <5> QED BY <2>3, <2>4, <5>1
      <4> QED BY <3>2, <4>1, <4>2
    <3>5. Good(cookie)'
      BY <3>3, <3>4 DEF Good
    <3> QED BY <1>1, <2>1, <3>1, <3>5, BecomeSession
  <2> QED BY <2>6, <2>7
<1> QED BY <1>2, <1>4, <1>5 DEF IInv, CacheInv, SessionInv

LEMMA GiveUpStep ==
  ASSUME IInv, NEW p \in Procs, Busy(p), GiveUp(p), calm => ~Ending(job[p]),
         UNCHANGED <<row, issued, removed>>, cache' \in [Keys -> List \cup {None}],
         unstored' \subseteq 1..MaxTokens, unstored \subseteq unstored',
         calm' \in BOOLEAN, calm' => calm, faults' \in Nat,
         calm' => UNCHANGED cache /\ ~At(p, "publish")
  PROVE  IInv'
<1>1. PICK j : j = Idle
  OBVIOUS
<1>2. Become(p, j) /\ cookie' = cookie
  BY <1>1 DEF GiveUp
<1>3. j \in Job /\ Shape(j) /\ j.cookie = 0 /\ j.pc = "idle"
  BY <1>1, Lists, ConstantsOK DEF Idle, Job, PC, Shape, Ident
<1>4. TypeInv'
  <2>1. issued <= issued' /\ issued' \in Ident /\ j.cookie \in 0..issued'
    BY <1>3, ConstantsOK DEF IInv, TypeInv, Tables, Ident
  <2>2. Jobs'
    BY <1>2, <1>3, <2>1, BecomeTyped DEF IInv
  <2>3. Tables'
    BY <1>2 DEF IInv, TypeInv, Tables
  <2> QED BY <2>2, <2>3 DEF TypeInv
<1>5. ASSUME calm'
      PROVE  CacheInv' /\ SessionInv'
  <2>1. calm /\ TypeInv /\ CacheInv /\ Sessions /\ UNCHANGED <<row, cache>>
    BY <1>5 DEF IInv, SessionInv
  <2>2. \A k \in Keys : cache'[k] \in {None, row'[k]}
    BY <1>5, <2>1, Alone DEF CacheInv, Fresh, At, Coherent
  <2>3. CacheInv'
    BY <1>2, <1>3, <2>1, <2>2, BecomeFresh
  <2>4. Good(cookie)
    BY <2>1, Alone DEF Sessions, Replacing, Busy
  <2>5. Good(cookie)'
    BY <1>2, <2>1, <2>4 DEF Good, Ids
  <2> QED BY <1>2, <1>3, <2>1, <2>3, <2>5, BecomeSession
<1> QED BY <1>4, <1>5 DEF IInv, CacheInv, SessionInv

LEMMA CheckedStep ==
  ASSUME IInv, NEW p \in Procs, Checked(p)
  PROVE  IInv'
<1>1. /\ job[p].pc = "checked" /\ (GiveUp(p) \/ Finish(p))
      /\ UNCHANGED <<row, cache, issued, removed, unstored, calm, faults>>
  BY DEF Checked, At
<1>2. Busy(p) /\ ~At(p, "publish")
  BY <1>1 DEF Busy, At
<1>3. Now(p).op = "check" /\ Now(p) = job[p].plan[1]
  BY <1>1, <1>2, NowTyped DEF IInv, Shape, Now
<1>4. ~SigningIn(job[p]) /\ ~Swapping(job[p]) /\ ~Ending(job[p])
  BY <1>3, FirstEdits
<1>5. /\ row' \in [Keys -> List \cup {None}] /\ cache' \in [Keys -> List \cup {None}]
      /\ removed' \subseteq 1..MaxTokens /\ unstored' \subseteq 1..MaxTokens
      /\ calm' \in BOOLEAN /\ (calm' => calm) /\ faults' \in Nat
      /\ UNCHANGED issued /\ unstored \subseteq unstored'
  BY <1>1 DEF IInv, TypeInv, Tables
<1>6. CASE GiveUp(p)
  BY <1>1, <1>2, <1>4, <1>5, <1>6, GiveUpStep
<1>7. CASE Finish(p)
  <2>1. ASSUME calm'
        PROVE  \A k \in Keys : cache'[k] \in {None, row'[k]}
    BY <1>1, <1>2, <2>1, Alone DEF IInv, CacheInv, Fresh, At, Coherent
  <2>2. \A t : Good(t) => Good(t)'
    BY <1>1 DEF Good, Ids
  <2> QED BY <1>2, <1>4, <1>5, <1>7, <2>1, <2>2, FinishStep
<1> QED BY <1>1, <1>6, <1>7

LEMMA UpsertStep ==
  ASSUME IInv, NEW p \in Procs, UpsertUserSetting(p)
  PROVE  IInv'
<1>1. PICK e, new, j : /\ e = Now(p) /\ new = Edited(e, job[p].list)
                       /\ j = [job[p] EXCEPT !.pc = "publish", !.list = new]
  OBVIOUS
<1>2. /\ job[p].pc = "write" /\ Become(p, j) /\ row' = [row EXCEPT ![e.key] = new]
      /\ removed' = IF e.op = "remove" THEN removed \cup {e.id} ELSE removed
      /\ UNCHANGED <<cache, cookie, issued, unstored, calm, faults>>
  BY <1>1 DEF UpsertUserSetting, At
<1>3. Busy(p) /\ ~At(p, "publish")
  BY <1>2 DEF Busy, At
<1>4. /\ job[p] \in Job /\ job[p].list \in List /\ e \in Edits /\ e.op # "check" /\ e.key \in Keys
      /\ e = job[p].plan[1] /\ e = Head(job[p].plan) /\ job[p].plan \in Seq(Edits)
      /\ job[p].plan # <<>>
  BY <1>1, <1>2, <1>3, NowTyped DEF IInv, Shape, Job, Now
<1>5. new \in List
  BY <1>1, <1>4, EditedIds
<1>6. /\ j \in Job /\ Shape(j) /\ j.pc = "publish" /\ j.list = new /\ j.plan = job[p].plan
      /\ j.sets = job[p].sets /\ j.cookie = job[p].cookie
  <2>1. /\ j.pc = "publish" /\ j.list = new /\ j.plan = job[p].plan
        /\ j.sets = job[p].sets /\ j.cookie = job[p].cookie /\ j \in Job
    BY <1>1, <1>4, <1>5 DEF Job, PC
  <2> QED BY <1>4, <2>1 DEF Shape
<1>7. TypeInv'
  <2>1. Jobs'
    <3>1. issued <= issued' /\ issued' \in Ident /\ j.cookie \in 0..issued'
      BY <1>2, <1>6, ConstantsOK DEF IInv, TypeInv, Tables, Jobs, Ident
    <3> QED BY <1>2, <1>6, <3>1, BecomeTyped DEF IInv
  <2>2. e.id \in 1..MaxTokens
    BY <1>4, ConstantsOK DEF Edits, Ident
  <2>3. Tables'
    BY <1>2, <1>5, <2>2 DEF IInv, TypeInv, Tables
  <2> QED BY <2>1, <2>3 DEF TypeInv
<1>8. row'[e.key] = new /\ \A k \in Keys : k # e.key => row'[k] = row[k]
  BY <1>2, <1>4 DEF IInv, TypeInv, Tables
<1>9. ASSUME calm
      PROVE  CacheInv'
  <2>1. TypeInv /\ CacheInv
    BY DEF IInv
  <2>2. \A k \in Keys : Coherent(k)
    BY <1>3, <1>9, Alone DEF IInv, CacheInv, Fresh, At
  <2>3. \A k \in Keys :
          cache'[k] \in {None, row'[k]} \/ (j.pc = "publish" /\ Head(j.plan).key = k)
    BY <1>2, <1>4, <1>6, <1>8, <2>2 DEF Coherent
  <2>4. j.list = row'[Head(j.plan).key]
    BY <1>4, <1>6, <1>8
  <2> QED BY <1>2, <1>3, <1>6, <1>9, <2>1, <2>3, <2>4, BecomeFresh
<1>10. ASSUME calm
       PROVE  SessionInv'
  <2>1. TypeInv /\ CacheInv /\ Sessions
    BY <1>10 DEF IInv, SessionInv
  <2>2. Purposeful(job[p]) /\ (~Ending(job[p]) => Good(cookie))
        /\ (Ending(job[p]) => Good(job[p].cookie))
    BY <1>3, <1>10, <2>1, Alone DEF Sessions, Replacing, Busy
  <2>3. /\ Purposeful(j) /\ (Aside(j) <=> Aside(job[p])) /\ (Ending(j) <=> Ending(job[p]))
        /\ (SigningIn(j) <=> SigningIn(job[p])) /\ (Swapping(j) <=> Swapping(job[p]))
        /\ ~Rotating(job[p])
    <3>1. ~Rotating(job[p])
      BY <1>4, FirstEdits
    <3> QED
      BY <1>6, <2>2, <3>1 DEF Purposeful, Aside, SigningIn, Rotating, Swapping, Ending, Adding
  <2>4. job[p].list = Listed(row[e.key])
    BY <1>1, <1>2, <2>1, <1>10 DEF CacheInv, Fresh, Read
  <2>5. Listed(new) = new
    BY <1>5, Lists DEF Listed
  <2>6. e.key = "session" =>
          /\ e.op = "add" => Ids("session")' = Ids("session") \cup {e.id}
          /\ e.op = "remove" => Ids("session")' = Ids("session") \ {e.id}
    <3>1. ASSUME e.key = "session"
          PROVE  Ids("session")' = DOMAIN new /\ Ids("session") = DOMAIN job[p].list
      BY <1>4, <1>8, <2>4, <2>5, <3>1 DEF Ids
    <3>2. /\ e.op = "add" => DOMAIN new = DOMAIN job[p].list \cup {e.id}
          /\ e.op = "remove" => DOMAIN new = DOMAIN job[p].list \ {e.id}
      BY <1>1, <1>4, EditedIds
    <3> QED BY <3>1, <3>2
  <2>7. e.key # "session" => Ids("session")' = Ids("session")
    BY <1>8 DEF Ids, Keys
  <2>8. CASE Aside(job[p])
    <3>1. e.key # "session"
      <4>1. 1 \in DOMAIN job[p].plan
        BY <1>4
      <4> QED BY <1>4, <2>8, <4>1 DEF Aside
    <3>2. ~Ending(j) /\ ~SigningIn(j) /\ ~Swapping(j)
      BY <2>3, <2>8 DEF Aside, Ending, SigningIn, Swapping
    <3>3. Good(cookie)'
      BY <1>2, <2>2, <2>3, <2>7, <3>1, <3>2 DEF Good
    <3> QED BY <1>2, <1>3, <1>6, <1>10, <2>1, <2>3, <3>2, <3>3, BecomeSession
  <2>9. CASE SigningIn(job[p]) \/ Swapping(job[p])
    <3>1. e.op = "add" /\ e.key = "session" /\ e.id = job[p].cookie
      BY <1>4, <2>9, FirstEdits
    <3>2. ~Ending(job[p])
      BY <1>4, <3>1, FirstEdits
    <3>3. Good(cookie)'
      BY <1>2, <2>2, <2>6, <3>1, <3>2 DEF Good
    <3>4. Good(j.cookie)'
      BY <1>6, <2>6, <3>1 DEF Good
    <3> QED BY <1>2, <1>3, <1>6, <1>10, <2>1, <2>3, <3>2, <3>3, <3>4, BecomeSession
  <2>10. CASE Ending(job[p])
    <3>1. e.op = "remove" /\ e.key = "session" /\ e.id # job[p].cookie
      BY <1>4, <2>10, FirstEdits
    <3>2. Good(j.cookie)'
      BY <1>2, <1>6, <2>2, <2>6, <2>10, <3>1 DEF Good
    <3>3. ~SigningIn(j) /\ ~Swapping(j)
      BY <1>4, <1>6, <3>1, FirstEdits
    <3> QED BY <1>2, <1>3, <1>6, <1>10, <2>1, <2>3, <2>10, <3>2, <3>3, BecomeSession
  <2> QED BY <2>2, <2>3, <2>8, <2>9, <2>10 DEF Purposeful
<1> QED BY <1>2, <1>7, <1>9, <1>10 DEF IInv, CacheInv, SessionInv

LEMMA PublishStep ==
  ASSUME IInv, NEW p \in Procs, Publish(p)
  PROVE  IInv'
<1>1. /\ job[p].pc = "publish" /\ Finish(p) /\ cache' = [cache EXCEPT ![Now(p).key] = job[p].list]
      /\ UNCHANGED <<row, issued, removed, unstored, calm, faults>>
  BY DEF Publish, Published, At
<1>2. Busy(p)
  BY <1>1 DEF Busy, At
<1>3. /\ row' \in [Keys -> List \cup {None}] /\ cache' \in [Keys -> List \cup {None}]
      /\ removed' \subseteq 1..MaxTokens /\ unstored' \subseteq 1..MaxTokens
      /\ calm' \in BOOLEAN /\ (calm' => calm) /\ faults' \in Nat /\ UNCHANGED issued
  BY <1>1, <1>2, NowTyped DEF IInv, TypeInv, Tables, Job
<1>4. ASSUME calm'
      PROVE  \A k \in Keys : cache'[k] \in {None, row'[k]}
  <2>1. \A q \in Procs : At(q, "publish") => q = p
    BY <1>1, <1>2, <1>4, Alone DEF IInv, At
  <2>2. job[p].list = row[Now(p).key] /\ \A k \in Keys : k = Now(p).key \/ Coherent(k)
    BY <1>1, <1>4, <2>1 DEF IInv, CacheInv, Fresh, At
  <2>3. \A k \in Keys : cache'[k] = IF k = Now(p).key THEN job[p].list ELSE cache[k]
    BY <1>1 DEF IInv, TypeInv, Tables
  <2> QED BY <1>1, <2>2, <2>3 DEF Coherent
<1>5. \A t : Good(t) => Good(t)'
  BY <1>1 DEF Good, Ids
<1>6. calm' /\ (SigningIn(job[p]) \/ Swapping(job[p]) \/ Ending(job[p])) => Good(job[p].cookie)
  BY <1>1, <1>2 DEF IInv, SessionInv, Sessions, Stored, Replacing, At
<1> QED BY <1>1, <1>2, <1>3, <1>4, <1>5, <1>6, FinishStep

LEMMA AbandonTyped ==
  ASSUME IInv, NEW p \in Procs, Busy(p), Abandon(p)
  PROVE  /\ cache' \in [Keys -> List \cup {None}] /\ calm' \in BOOLEAN
         /\ calm' => calm /\ UNCHANGED cache
<1>1. CASE UNCHANGED <<cache, calm>>
  BY <1>1 DEF IInv, TypeInv, Tables
<1>2. CASE ~UNCHANGED <<cache, calm>>
  <2>1. /\ At(p, "write") /\ calm' = FALSE
        /\ cache' = [cache EXCEPT ![Now(p).key] = Edited(Now(p), job[p].list)]
    BY <1>2 DEF Abandon
  <2>2. Now(p) \in Edits /\ Now(p).op # "check" /\ job[p].list \in List
    BY <2>1, NowTyped DEF IInv, Shape, At, Job, Now
  <2>3. Edited(Now(p), job[p].list) \in List
    BY <2>2, EditedIds
  <2> QED BY <2>1, <2>3 DEF IInv, TypeInv, Tables
<1> QED BY <1>1, <1>2

LEMMA StatementFailsStep ==
  ASSUME IInv, NEW p \in Procs, StatementFails(p)
  PROVE  IInv'
<1>1. PICK e : e = Now(p)
  OBVIOUS
<1>2. /\ job[p].pc \in {"get", "write"} /\ Abandon(p)
      /\ IF e.fatal THEN GiveUp(p) ELSE Finish(p)
      /\ unstored' = IF e.op = "add" /\ ~e.fatal THEN unstored \cup {e.id} ELSE unstored
      /\ UNCHANGED <<row, issued, removed>> /\ faults' = faults + 1
  BY <1>1 DEF StatementFails, Fault, At
<1>3. Busy(p) /\ ~At(p, "publish")
  BY <1>2 DEF Busy, At
<1>4. /\ e \in Edits /\ e = job[p].plan[1]
      /\ cache' \in [Keys -> List \cup {None}] /\ calm' \in BOOLEAN
      /\ calm' => calm /\ UNCHANGED cache
  BY <1>1, <1>2, <1>3, NowTyped, AbandonTyped DEF IInv
<1>5. /\ row' \in [Keys -> List \cup {None}] /\ removed' \subseteq 1..MaxTokens /\ faults' \in Nat
      /\ unstored' \subseteq 1..MaxTokens /\ unstored \subseteq unstored'
  <2>1. e.op = "add" => e.id \in 1..MaxTokens
    BY <1>4, ConstantsOK DEF Edits, Ident
  <2>2. /\ row \in [Keys -> List \cup {None}] /\ removed \subseteq 1..MaxTokens
        /\ faults \in Nat /\ unstored \subseteq 1..MaxTokens
    BY DEF IInv, TypeInv, Tables
  <2>3. /\ UNCHANGED <<row, removed>> /\ faults' = faults + 1
        /\ unstored' = IF e.op = "add" /\ ~e.fatal THEN unstored \cup {e.id} ELSE unstored
    BY <1>2
  <2>4. unstored' \subseteq 1..MaxTokens /\ unstored \subseteq unstored'
    BY <2>1, <2>2, <2>3
  <2>5. faults' \in Nat
    BY <2>2, <2>3
  <2> QED BY <2>2, <2>3, <2>4, <2>5
<1>6. CASE e.fatal
  <2>1. ~Ending(job[p])
    BY <1>4, <1>6, FirstEdits
  <2>2. GiveUp(p)
    BY <1>2, <1>6
  <2> QED BY <1>2, <1>3, <1>4, <1>5, <2>1, <2>2, GiveUpStep
<1>7. CASE ~e.fatal
  <2>1. Finish(p)
    BY <1>2, <1>7
  <2>2. ASSUME calm'
        PROVE  \A k \in Keys : cache'[k] \in {None, row'[k]}
    BY <1>2, <1>3, <1>4, <2>2, Alone DEF IInv, CacheInv, Fresh, At, Coherent
  <2>3. \A t : Good(t) => Good(t)'
    BY <1>2, <1>5 DEF Good, Ids
  <2>4. ~Swapping(job[p])
    BY <1>4, <1>7, FirstEdits
  <2>5. SigningIn(job[p]) => job[p].cookie \in unstored'
    <3>1. SigningIn(job[p]) => e.op = "add" /\ e.id = job[p].cookie
      BY <1>4, FirstEdits
    <3> QED BY <1>2, <1>7, <3>1
  <2>6. calm' /\ Ending(job[p]) => Good(job[p].cookie)
    BY <1>3, <1>4 DEF IInv, SessionInv, Sessions, Replacing
  <2> QED BY <1>2, <1>3, <1>4, <1>5, <2>1, <2>2, <2>3, <2>4, <2>5, <2>6, FinishStep
<1> QED BY <1>6, <1>7

LEMMA RefuseStep ==
  ASSUME IInv, NEW p \in Procs, Refuse(p)
  PROVE  IInv'
<1>1. /\ job[p].pc = "write" /\ Now(p).key = "shortcut" /\ GiveUp(p)
      /\ UNCHANGED <<cache, calm>> \/ Abandon(p)
      /\ UNCHANGED <<row, issued, removed, unstored, faults>>
  BY DEF Refuse, At
<1>2. Busy(p) /\ ~At(p, "publish")
  BY <1>1 DEF Busy, At
<1>3. /\ cache' \in [Keys -> List \cup {None}] /\ calm' \in BOOLEAN
      /\ calm' => calm /\ UNCHANGED cache
  BY <1>1, <1>2, AbandonTyped DEF IInv, TypeInv, Tables
<1>4. ~Ending(job[p])
  <2>1. Now(p) = job[p].plan[1]
    BY <1>2, NowTyped DEF IInv
  <2> QED BY <1>1, <2>1, FirstEdits
<1>5. unstored' \subseteq 1..MaxTokens /\ unstored \subseteq unstored' /\ faults' \in Nat
  BY <1>1 DEF IInv, TypeInv, Tables
<1> QED BY <1>1, <1>2, <1>3, <1>4, <1>5, GiveUpStep

LEMMA ExpireStep ==
  ASSUME IInv, NEW k \in Keys, Expire(k)
  PROVE  IInv'
<1>1. /\ cache' = [cache EXCEPT ![k] = None]
      /\ UNCHANGED <<row, cookie, issued, job, removed, unstored, calm, faults>>
  BY DEF Expire
<1>2. TypeInv'
  BY <1>1 DEF IInv, TypeInv, Tables, Jobs
<1>3. CacheInv'
  BY <1>1 DEF IInv, TypeInv, Tables, CacheInv, OneAtATime, Fresh, Busy, At, Read, Now, Coherent
<1>4. SessionInv'
  BY <1>1 DEF IInv, SessionInv, Sessions, Replacing, Stored, Good, Ids, Busy, At
<1> QED BY <1>2, <1>3, <1>4 DEF IInv

LEMMA CrashStep ==
  ASSUME IInv, Crash
  PROVE  IInv'
<1>1. /\ job' = [p \in Procs |-> Idle] /\ cache' = [k \in Keys |-> None] /\ calm' = FALSE
      /\ UNCHANGED <<row, cookie, issued, removed, unstored>> /\ faults' = faults + 1
  BY DEF Crash, Fault
<1>2. Idle \in Job /\ Shape(Idle) /\ Idle.cookie = 0
  BY Lists, ConstantsOK DEF Idle, Job, PC, Shape, Ident
<1>3. TypeInv'
  <2>1. Jobs'
    <3>1. 0 \in 0..issued'
      BY <1>1, ConstantsOK DEF IInv, TypeInv, Tables, Ident
    <3>2. \A p \in Procs : job'[p] = Idle
      BY <1>1
    <3>3. job' \in [Procs -> Job]
      BY <1>1, <1>2
    <3> QED BY <1>2, <3>1, <3>2, <3>3 DEF Jobs
  <2>2. cache' \in [Keys -> List \cup {None}] /\ faults' \in Nat
    BY <1>1 DEF IInv, TypeInv, Tables
  <2>3. Tables'
    BY <1>1, <2>2 DEF IInv, TypeInv, Tables
  <2> QED BY <2>1, <2>3 DEF TypeInv
<1> QED BY <1>1, <1>3 DEF IInv, CacheInv, SessionInv

-----------------------------------------------------------------------------
LEMMA InitInv == Init => IInv
<1> SUFFICES ASSUME Init
             PROVE  IInv
  OBVIOUS
<1>1. Idle \in Job /\ Shape(Idle) /\ Idle.cookie = 0 /\ Idle.pc = "idle"
  BY Lists, ConstantsOK DEF Idle, Job, PC, Shape, Ident
<1>2. TypeInv
  BY <1>1, ConstantsOK DEF Init, TypeInv, Tables, Jobs, Ident
<1>3. \A p \in Procs : job[p].pc = "idle"
  BY <1>1 DEF Init
<1>4. CacheInv
  BY <1>3 DEF Init, CacheInv, OneAtATime, Fresh, Busy, At, Read, Coherent
<1>5. SessionInv
  BY <1>3 DEF Init, SessionInv, Sessions, Replacing, Stored, Good, Busy, At
<1> QED BY <1>2, <1>4, <1>5 DEF IInv

LEMMA NextInv == IInv /\ [Next]_vars => IInv'
<1> SUFFICES ASSUME IInv, [Next]_vars
             PROVE  IInv'
  OBVIOUS
<1>1. ASSUME NEW p \in Procs, Request(p) \/ Go(p)
      PROVE  IInv'
  BY <1>1, RequestStep, GetCachedStep, GetRowStep, FillStep, CheckedStep, UpsertStep,
     PublishStep, StatementFailsStep, RefuseStep DEF Go
<1>2. CASE UNCHANGED vars
  <2>1. TypeInv'
    BY <1>2 DEF vars, IInv, TypeInv, Tables, Jobs
  <2>2. CacheInv'
    BY <1>2 DEF vars, IInv, CacheInv, OneAtATime, Fresh, Busy, At, Read, Now, Coherent
  <2>3. SessionInv'
    BY <1>2 DEF vars, IInv, SessionInv, Sessions, Replacing, Stored, Good, Ids, Busy, At
  <2> QED BY <2>1, <2>2, <2>3 DEF IInv
<1> QED BY <1>1, <1>2, ExpireStep, CrashStep DEF Next

LEMMA InvHolds == Spec => []IInv
BY InitInv, NextInv, PTL DEF Spec

(* Every variable holds what the code can store in it: row, cache and job of *)
(* any number of requests.                                                   *)
THEOREM TypeCorrect == Spec => []TypeOK
<1>1. IInv => TypeOK
  <2> SUFFICES ASSUME IInv
               PROVE  TypeOK
    OBVIOUS
  <2>1. ASSUME NEW p \in Procs
        PROVE  job[p].list \in List /\ \A i \in DOMAIN job[p].plan : job[p].plan[i] \in Edit
    <3>1. job[p].list \in List /\ job[p].plan \in Seq(Edits)
      BY DEF IInv, TypeInv, Jobs, Job
    <3>2. \A i \in DOMAIN job[p].plan : job[p].plan[i] \in Edits
      BY <3>1, ElementOfSeq, LenProperties
    <3> QED BY <3>1, <3>2 DEF Edits
  <2> QED BY <2>1, ConstantsOK DEF IInv, TypeInv, Tables, TypeOK, Ident
<1> QED BY <1>1, InvHolds, PTL

(* While requests come one at a time the setting cache says what the row     *)
(* says, whichever statements of GetUserSetting and UpsertUserSetting fail   *)
(* in between.                                                               *)
THEOREM CachesAreCoherent == Spec => []CacheCoherent
<1>1. IInv => CacheCoherent
  BY DEF IInv, CacheInv, Fresh, CacheCoherent, AllIdle, At, Coherent
<1> QED BY <1>1, InvHolds, PTL

(* While requests come one at a time no step of a rotation that the database *)
(* refuses costs the browser its session (RefreshToken, doSignIn).           *)
THEOREM SessionsLive == Spec => []SessionLives
<1>1. IInv => SessionLives
  BY DEF IInv, SessionInv, Sessions, SessionLives, AllIdle, Replacing, Busy, At, Good
<1> QED BY <1>1, InvHolds, PTL
=============================================================================
