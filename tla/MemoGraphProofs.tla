-------------------------- MODULE MemoGraphProofs --------------------------
(***************************************************************************)
(* Types of MemoGraph, and LinksAlive: however deletions of memos overlap  *)
(* and wherever they break off, nothing points at a memo that is gone. A   *)
(* statement is safe because of those before it in its list, so the        *)
(* invariant says of each list that its statements come in a safe order    *)
(* (Prepared), given the tables as they are when its first is carried out. *)
(* CommentsGo, whatever overlaps with the deletion of a memo, by what is   *)
(* said of each comment in the same way (WellHeard).                       *)
(***************************************************************************)
EXTENDS MemoGraph, FiniteSetTheorems, TLAPS

-----------------------------------------------------------------------------
(* Types *)

(* A statement's operands are of the kind its table wants. *)
Fits(s) ==
  /\ s.memo \in 0..MaxMemos
  /\ s.do \in {"insert", "refer", "comment"} => s.memo \in Ids
  /\ s.do \in {"refer", "comment", "comments"} => s.on \subseteq Ids
  /\ s.do \in {"upload", "listed", "attach", "remove"} => s.on \subseteq Attachments

Linking == {"insert", "upload", "listed", "attach", "unrefer", "refer", "comment", "remove"}
Deleting == {"comments", "from", "to", "attachments", "remove", "row"}
Kind(links) == {s \in Statement : s.do \in (IF links THEN Linking ELSE Deleting) /\ Fits(s)}

(* The ids of memos yet to be inserted were given out. *)
Given == {s \in Statement : s.do = "insert" => s.memo =< made}

JobsTyped ==
  /\ job \in [Procs -> [todo: Seq(Statement), links: BOOLEAN]]
  /\ \A p \in Procs : job[p].todo \in Seq(Kind(job[p].links)) /\ job[p].todo \in Seq(Given)

TablesTyped ==
  /\ memos \subseteq 1..made /\ made \in 0..MaxMemos
  /\ relations \subseteq Ids \X Ids \X Kinds
  /\ owner \in [Attachments -> (0..MaxMemos) \cup {None}]
  /\ under \in [Ids -> (0..MaxMemos) \cup {None}]

TypeInv == TablesTyped /\ JobsTyped

LEMMA TypesFollow == TypeInv => TypeOK
BY DEF TypeInv, TablesTyped, JobsTyped, TypeOK

LEMMA SeqBasics ==
  ASSUME NEW S
  PROVE  /\ <<>> \in Seq(S)
         /\ \A x \in S : <<x>> \in Seq(S)
         /\ \A u, v \in Seq(S) : u \o v \in Seq(S)
         /\ \A u \in Seq(S) : u # <<>> => Head(u) \in S /\ Tail(u) \in Seq(S)
OBVIOUS

LEMMA SeqGrows ==
  ASSUME NEW S, NEW T, S \subseteq T
  PROVE  Seq(S) \subseteq Seq(T)
OBVIOUS

LEMMA SeqAssociates ==
  ASSUME NEW S, NEW x \in S, NEW v \in Seq(S), NEW w \in Seq(S)
  PROVE  (<<x>> \o v) \o w = <<x>> \o (v \o w)
OBVIOUS

LEMMA DoIs ==
  ASSUME NEW do, NEW m, NEW on
  PROVE  /\ Do(do, m, on).do = do /\ Do(do, m, on).memo = m /\ Do(do, m, on).on = on
         /\ do \in Linking \cup Deleting /\ m \in Nat /\ on \subseteq Nat \cup Attachments =>
              Do(do, m, on) \in Statement
BY DEF Do, Statement, Linking, Deleting

LEMMA KindIs == \A links \in BOOLEAN : Kind(links) \subseteq Statement
BY DEF Kind

LEMMA GivenGrows ==
  ASSUME TablesTyped, made' \in Nat, made =< made'
  PROVE  Seq(Given) \subseteq Seq(Given)'
<1>1. Given \subseteq Given'
  BY DEF Given, TablesTyped, Statement
<1> QED BY <1>1

LEMMA JobIs ==
  ASSUME TypeInv, NEW p \in Procs
  PROVE  /\ job[p].todo \in Seq(Kind(job[p].links)) /\ job[p].links \in BOOLEAN
         /\ job[p] \in [todo: Seq(Statement), links: BOOLEAN] /\ job[p].todo \in Seq(Given)
BY DEF TypeInv, JobsTyped

LEMMA NowIs ==
  ASSUME TypeInv, NEW p \in Procs, Busy(p)
  PROVE  /\ Now(p) \in Kind(job[p].links) /\ Rest(p) \in Seq(Kind(job[p].links))
         /\ Now(p) \in Given /\ Rest(p) \in Seq(Given)
<1>1. PICK S, t : S = Kind(job[p].links) /\ t = job[p].todo
  OBVIOUS
<1>2. t \in Seq(S) /\ t \in Seq(Given) /\ t # <<>>
  BY <1>1, JobIs DEF Busy
<1>3. Head(t) \in S /\ Tail(t) \in Seq(S) /\ Head(t) \in Given /\ Tail(t) \in Seq(Given)
  BY <1>2, SeqBasics
<1> QED BY <1>1, <1>3 DEF Now, Rest

(* A request that goes on with a list of statements of its kind. *)
LEMMA ContinueType ==
  ASSUME TypeInv, NEW p \in Procs, NEW todo \in Seq(Kind(job[p].links)), todo \in Seq(Given),
         Continue(p, todo), UNCHANGED made
  PROVE  JobsTyped'
<1>1. Given' = Given
  BY DEF Given
<1>2. todo \in Seq(Statement)
  BY DEF Given
<1>3. ASSUME NEW q \in Procs
      PROVE  /\ job'[q] \in [todo: Seq(Statement), links: BOOLEAN]
             /\ job'[q].todo \in Seq(Kind(job'[q].links)) /\ job'[q].todo \in Seq(Given)
  <2>1. CASE q # p
    BY <2>1, JobIs DEF Continue, TypeInv, JobsTyped
  <2>2. CASE q = p /\ todo = <<>>
    <3>1. job'[q] = Idle
      BY <2>2 DEF Continue, TypeInv, JobsTyped
    <3> QED BY <3>1 DEF Idle
  <2>3. CASE q = p /\ todo # <<>>
    <3>1. job'[q] = [job[p] EXCEPT !.todo = todo]
      BY <2>3 DEF Continue, TypeInv, JobsTyped
    <3>2. job'[q].todo = todo /\ job'[q].links = job[p].links
      BY <3>1, JobIs
    <3>3. job'[q] \in [todo: Seq(Statement), links: BOOLEAN]
      BY <1>2, <3>1, JobIs
    <3> QED BY <3>2, <3>3
  <2> QED BY <2>1, <2>2, <2>3
<1>4. job' \in [Procs -> [todo: Seq(Statement), links: BOOLEAN]]
  BY <1>3 DEF Continue, TypeInv, JobsTyped
<1> QED BY <1>1, <1>3, <1>4 DEF JobsTyped

LEMMA BeginType ==
  ASSUME TypeInv, NEW p \in Procs, NEW links \in BOOLEAN, NEW todo \in Seq(Kind(links)),
         todo \in Seq(Given)', made' \in Nat, made =< made', Begin(p, links, todo)
  PROVE  JobsTyped'
<1>1. Seq(Given) \subseteq Seq(Given)'
  BY GivenGrows DEF TypeInv
<1>2. todo \in Seq(Statement)
  BY DEF Given
<1>3. ASSUME NEW q \in Procs
      PROVE  /\ job'[q] \in [todo: Seq(Statement), links: BOOLEAN]
             /\ job'[q].todo \in Seq(Kind(job'[q].links)) /\ job'[q].todo \in Seq(Given)'
  <2>1. CASE q # p
    BY <1>1, <2>1, JobIs DEF Begin, TypeInv, JobsTyped
  <2>2. CASE q = p
    <3>1. job'[q] = [todo |-> todo, links |-> links]
      BY <2>2 DEF Begin, TypeInv, JobsTyped
    <3> QED BY <1>2, <3>1
  <2> QED BY <2>1, <2>2
<1>4. job' \in [Procs -> [todo: Seq(Statement), links: BOOLEAN]]
  BY <1>3 DEF Begin, TypeInv, JobsTyped
<1> QED BY <1>3, <1>4 DEF JobsTyped
-----------------------------------------------------------------------------
(* What requests consist of *)

Plain(links) == {s \in Kind(links) : s.do # "insert"}

LEMMA PlainIs ==
  ASSUME NEW links \in BOOLEAN
  PROVE  /\ Seq(Plain(links)) \subseteq Seq(Kind(links))
         /\ Seq(Plain(links)) \subseteq Seq(Given) /\ Seq(Plain(links)) \subseteq Seq(Given)'
<1>1. Plain(links) \subseteq Kind(links) /\ Plain(links) \subseteq Given
      /\ Plain(links) \subseteq Given'
  BY DEF Plain, Kind, Given
<1> QED BY <1>1

(* Statements about memo m that link it to what it names. *)
About(m) == {s \in Plain(TRUE) : s.memo = m /\ s.do \notin {"upload", "comment"}}

LEMMA SettingIs ==
  ASSUME NEW m \in Ids, NEW as \in SUBSET Attachments, NEW ms \in SUBSET Ids
  PROVE  SetMemoAttachments(m, as) \in Seq(About(m)) /\ SetMemoRelations(m, ms) \in Seq(About(m))
<1>0. MaxMemos \in Nat /\ m \in Nat /\ m \in 0..MaxMemos /\ ms \ {m} \subseteq Ids
  BY ConstantsOK DEF Ids
<1>1. Do("listed", m, as) \in About(m) /\ Do("attach", m, as) \in About(m)
  <2>1. as \subseteq Nat \cup Attachments
    OBVIOUS
  <2>2. ASSUME NEW do \in {"listed", "attach"} PROVE Do(do, m, as) \in About(m)
    <3> DEFINE s == Do(do, m, as)
    <3>1. s.do = do /\ s.memo = m /\ s.on = as
      BY DEF Do
    <3>2. s \in Statement
      BY <1>0, <2>1, DoIs DEF Linking
    <3> HIDE DEF s
    <3>3. Fits(s) /\ s.do \in Linking
      BY <1>0, <3>1 DEF Fits, Linking
    <3>4. s \in About(m)
      BY <3>1, <3>2, <3>3 DEF About, Plain, Kind
    <3> QED BY <3>4 DEF s
  <2> QED BY <2>2
<1>2. Do("unrefer", m, {}) \in About(m)
  BY <1>0, DoIs DEF About, Plain, Kind, Fits, Linking
<1>3. Do("refer", m, ms \ {m}) \in About(m)
  <2>1. ms \ {m} \subseteq Nat \cup Attachments /\ ms \ {m} \subseteq Ids
    BY <1>0 DEF Ids
  <2> DEFINE s == Do("refer", m, ms \ {m})
  <2>2. s.do = "refer" /\ s.memo = m /\ s.on = ms \ {m}
    BY DoIs
  <2>3. s \in Statement
    BY <1>0, <2>1, DoIs DEF Linking
  <2> HIDE DEF s
  <2>4. Fits(s) /\ s.do \in Linking
    BY <1>0, <2>1, <2>2 DEF Fits, Linking
  <2>5. s \in About(m)
    BY <2>2, <2>3, <2>4 DEF About, Plain, Kind
  <2> QED BY <2>5 DEF s
<1> DEFINE S == About(m)
           a == Do("listed", m, as)
           b == Do("attach", m, as)
           c == Do("unrefer", m, {})
           d == Do("refer", m, ms \ {m})
<1>4. a \in S /\ b \in S /\ c \in S /\ d \in S
  BY <1>1, <1>2, <1>3
<1>5. SetMemoAttachments(m, as) = <<a>> \o (IF as = {} THEN <<>> ELSE <<b>>)
  BY DEF SetMemoAttachments, If
<1>6. SetMemoRelations(m, ms) = <<c>> \o (IF ms \ {m} = {} THEN <<>> ELSE <<d>>)
  BY DEF SetMemoRelations, If
<1> HIDE DEF S, a, b, c, d
<1>7. /\ <<a>> \in Seq(S) /\ <<b>> \in Seq(S) /\ <<c>> \in Seq(S) /\ <<d>> \in Seq(S)
      /\ <<>> \in Seq(S) /\ \A u, v \in Seq(S) : u \o v \in Seq(S)
  BY <1>4, SeqBasics
<1>8. SetMemoAttachments(m, as) \in Seq(S) /\ SetMemoRelations(m, ms) \in Seq(S)
  BY <1>5, <1>6, <1>7
<1> QED BY <1>8 DEF S

LEMMA AboutIs ==
  ASSUME NEW m
  PROVE  Seq(About(m)) \subseteq Seq(Plain(TRUE))
<1>1. About(m) \subseteq Plain(TRUE)
  BY DEF About
<1> QED BY <1>1, SeqGrows

LEMMA CreatingIs ==
  ASSUME TypeInv, made < MaxMemos, NEW as \in SUBSET Attachments, NEW ms \in SUBSET (1..made)
  PROVE  /\ New \in Ids
         /\ Do("insert", New, {}) \in Kind(TRUE)
         /\ \E u \in Seq(About(New)) : CreateMemoBody(as, ms) = <<Do("insert", New, {})>> \o u
<1>1. New \in Ids /\ New \in Nat /\ New \in 0..MaxMemos /\ ms \in SUBSET Ids
  BY ConstantsOK DEF New, Ids, TypeInv, TablesTyped
<1>2. Do("insert", New, {}) \in Kind(TRUE)
  BY <1>1, DoIs DEF Kind, Fits, Linking
<1> DEFINE S == About(New)
           i == Do("insert", New, {})
           A == SetMemoAttachments(New, as)
           R == SetMemoRelations(New, ms)
<1>3. A \in Seq(S) /\ R \in Seq(S)
  BY <1>1, SettingIs
<1>4. CreateMemoBody(as, ms)
        = <<i>> \o (IF as = {} THEN <<>> ELSE A) \o (IF ms = {} THEN <<>> ELSE R)
  BY DEF CreateMemoBody, If
<1>5. i \in Kind(TRUE) \cup S
  BY <1>2
<1> HIDE DEF A, R, i, S
<1>6. ASSUME NEW v \in Seq(S), NEW w \in Seq(S)
      PROVE  (<<i>> \o v) \o w = <<i>> \o (v \o w) /\ v \o w \in Seq(S)
  <2> DEFINE T == Kind(TRUE) \cup S
  <2>1. i \in T /\ S \subseteq T
    BY <1>5
  <2> HIDE DEF T
  <2>2. v \in Seq(T) /\ w \in Seq(T)
    BY <1>6, <2>1, SeqGrows
  <2> QED BY <1>6, <2>1, <2>2, SeqAssociates, SeqBasics
<1>7. <<>> \in Seq(S)
  BY SeqBasics
<1> DEFINE v == IF as = {} THEN <<>> ELSE A
           w == IF ms = {} THEN <<>> ELSE R
<1>8. v \in Seq(S) /\ w \in Seq(S) /\ CreateMemoBody(as, ms) = (<<i>> \o v) \o w
  BY <1>3, <1>4, <1>7
<1> HIDE DEF v, w
<1>9. v \o w \in Seq(S) /\ CreateMemoBody(as, ms) = <<i>> \o (v \o w)
  BY <1>6, <1>8
<1> QED BY <1>1, <1>2, <1>9 DEF i, S

LEMMA DeletingIs ==
  ASSUME NEW m \in 0..MaxMemos
  PROVE  /\ StoreDeleteMemo(m) \in Seq(Plain(FALSE)) /\ WithComments(m) \in Seq(Plain(FALSE))
         /\ Do("comments", m, {}) \in Plain(FALSE)
<1>1. MaxMemos \in Nat /\ m \in Nat
  BY ConstantsOK
<1> DEFINE S == Plain(FALSE)
           a == Do("from", m, {})
           b == Do("to", m, {})
           c == Do("attachments", m, {})
           d == Do("row", m, {})
           e == Do("comments", m, {})
<1>2. a \in S /\ b \in S /\ c \in S
  BY <1>1, DoIs DEF Plain, Kind, Fits, Deleting
<1>3. d \in S /\ e \in S
  BY <1>1, DoIs DEF Plain, Kind, Fits, Deleting
<1>4. StoreDeleteMemo(m) = <<a, b, c, d>> /\ WithComments(m) = <<e>> \o StoreDeleteMemo(m)
  BY DEF StoreDeleteMemo, WithComments
<1> HIDE DEF S, a, b, c, d, e
<1>5. <<a, b, c, d>> \in Seq(S) /\ <<e>> \in Seq(S)
  BY <1>2, <1>3
<1>6. <<e>> \o <<a, b, c, d>> \in Seq(S)
  BY <1>5
<1> QED BY <1>3, <1>4, <1>5, <1>6 DEF S, e
LEMMA CommentIs ==
  ASSUME NEW c \in Ids, NEW m \in Ids
  PROVE  Do("comment", c, {m}) \in Plain(TRUE)
<1> DEFINE s == Do("comment", c, {m})
<1>1. s.do = "comment" /\ s.memo = c /\ s.on = {m}
  BY DEF Do
<1>2. MaxMemos \in Nat /\ Ids \subseteq Nat /\ {m} \subseteq Nat \cup Attachments /\ c \in 0..MaxMemos
  BY ConstantsOK DEF Ids
<1>3. s \in Statement
  BY <1>2, DoIs DEF Linking
<1> HIDE DEF s
<1>4. Fits(s) /\ s.do \in Linking
  BY <1>1, <1>2 DEF Fits, Linking
<1>5. s \in Plain(TRUE)
  BY <1>1, <1>3, <1>4 DEF Plain, Kind
<1> QED BY <1>5 DEF s

LEMMA RemoveIs ==
  ASSUME NEW links \in BOOLEAN, NEW as \in SUBSET Attachments
  PROVE  <<Do("remove", 0, as)>> \in Seq(Plain(links))
<1> DEFINE s == Do("remove", 0, as)
<1>0. 0 \in 0..MaxMemos
  BY ConstantsOK
<1>1. s.do = "remove" /\ s.memo \in 0..MaxMemos /\ s.on = as
  BY <1>0 DEF Do
<1>2. MaxMemos \in Nat /\ as \subseteq Nat \cup Attachments
  BY ConstantsOK
<1>3. s \in Statement
  BY <1>2, DoIs DEF Linking
<1> HIDE DEF s
<1>4. Fits(s)
  BY <1>1 DEF Fits
<1>5. s.do \in Linking /\ s.do \in Deleting
  BY <1>1 DEF Linking, Deleting
<1>6. s \in Plain(links)
  BY <1>1, <1>3, <1>4, <1>5 DEF Plain, Kind
<1> QED BY <1>6, SeqBasics DEF s

LEMMA UploadIs ==
  ASSUME NEW m \in 0..MaxMemos, NEW a \in Attachments
  PROVE  <<Do("upload", m, {a})>> \in Seq(Plain(TRUE))
<1> DEFINE s == Do("upload", m, {a})
<1>1. s.do = "upload" /\ s.memo = m /\ s.on = {a}
  BY DEF Do
<1>2. m \in Nat /\ {a} \subseteq Nat \cup Attachments
  BY ConstantsOK
<1>3. s \in Statement
  BY <1>2, DoIs DEF Linking
<1> HIDE DEF s
<1>4. Fits(s) /\ s.do \in Linking
  BY <1>1 DEF Fits, Linking
<1>5. s \in Plain(TRUE)
  BY <1>1, <1>3, <1>4 DEF Plain, Kind
<1> QED BY <1>5, SeqBasics DEF s

-----------------------------------------------------------------------------
(* Type correctness *)

LEMMA RequestType ==
  ASSUME TypeInv, NEW p \in Procs, Request(p)
  PROVE  TypeInv'
<1>0. /\ MaxMemos \in Nat /\ made \in 0..MaxMemos /\ memos \subseteq 1..made /\ memos \subseteq Ids
      /\ 1..made \subseteq Ids
  BY ConstantsOK DEF TypeInv, TablesTyped, Ids
<1>1. ASSUME NEW links \in BOOLEAN, NEW todo, Begin(p, links, todo)
      PROVE  UNCHANGED <<memos, relations, owner>>
  BY <1>1 DEF Begin
<1>2. ASSUME NEW links \in BOOLEAN, NEW todo \in Seq(Plain(links)), Begin(p, links, todo),
             UNCHANGED made, UNCHANGED under
      PROVE  TypeInv'
  <2>1. JobsTyped'
    BY <1>0, <1>2, PlainIs, BeginType
  <2>2. TablesTyped'
    BY <1>1, <1>2 DEF TypeInv, TablesTyped
  <2> QED BY <2>1, <2>2 DEF TypeInv
<1>3. ASSUME NEW v \in Seq(Plain(TRUE)), made < MaxMemos, made' = New, UNCHANGED under,
             Do("insert", New, {}) \in Kind(TRUE), NEW todo,
             todo = <<Do("insert", New, {})>> \o v, Begin(p, TRUE, todo)
      PROVE  TypeInv'
  <2>1. made' \in Nat /\ made =< made' /\ made' \in 0..MaxMemos
    BY <1>0, <1>3 DEF New
  <2> DEFINE i == Do("insert", New, {})
  <2>2. i \in Kind(TRUE) /\ i \in Given'
    BY <1>3, <2>1 DEF Given, Do, New, Kind
  <2>3. v \in Seq(Kind(TRUE)) /\ v \in Seq(Given)'
    BY <1>3, PlainIs
  <2>4. todo = <<i>> \o v
    BY <1>3
  <2> HIDE DEF i
  <2> DEFINE K == Kind(TRUE)
             G == Given'
  <2>11. i \in K /\ i \in G /\ v \in Seq(K) /\ v \in Seq(G)
    BY <2>2, <2>3
  <2> HIDE DEF K, G
  <2>5. /\ <<i>> \in Seq(K) /\ <<i>> \in Seq(G)
        /\ <<i>> \o v \in Seq(K) /\ <<i>> \o v \in Seq(G)
    BY <2>11, SeqBasics
  <2> USE DEF K, G
  <2>6. todo \in Seq(Kind(TRUE))
    BY <2>4, <2>5
  <2>7. todo \in Seq(Given)'
    BY <2>4, <2>5
  <2>8. JobsTyped'
    BY <1>3, <2>1, <2>6, <2>7, BeginType
  <2>9. TablesTyped'
    <3>1. memos' \subseteq 1..made'
      <4>1. memos' = memos
        BY <1>3 DEF Begin
      <4>2. memos \subseteq 1..made /\ made \in Nat
        BY <1>0
      <4> QED BY <2>1, <4>1, <4>2
    <3> QED BY <1>1, <1>3, <2>1, <3>1 DEF TypeInv, TablesTyped
  <2> QED BY <2>8, <2>9 DEF TypeInv
<1>4. CASE CreateMemo(p)
  <2>1. PICK as \in SUBSET Attachments, ms \in SUBSET (1..made) :
          Begin(p, TRUE, CreateMemoBody(as, ms))
    BY <1>4 DEF CreateMemo
  <2>2. PICK u \in Seq(About(New)) : CreateMemoBody(as, ms) = <<Do("insert", New, {})>> \o u
    BY <1>4, CreatingIs DEF CreateMemo
  <2>3. u \in Seq(Plain(TRUE)) /\ Do("insert", New, {}) \in Kind(TRUE)
    BY <1>4, AboutIs, CreatingIs DEF CreateMemo
  <2> QED BY <1>3, <1>4, <2>1, <2>2, <2>3 DEF CreateMemo
<1>5. ASSUME NEW m \in memos, CreateMemoComment(p, m) PROVE TypeInv'
  <2>1. PICK as \in SUBSET Attachments, ms \in SUBSET (1..made) :
          Begin(p, TRUE, CreateMemoBody(as, ms) \o <<Do("comment", New, {m})>>)
    BY <1>5 DEF CreateMemoComment
  <2>2. PICK u \in Seq(About(New)) : CreateMemoBody(as, ms) = <<Do("insert", New, {})>> \o u
    BY <1>5, CreatingIs DEF CreateMemoComment
  <2> DEFINE i == Do("insert", New, {})
             c == Do("comment", New, {m})
  <2>3. i \in Kind(TRUE) /\ New \in Ids
    BY <1>5, CreatingIs DEF CreateMemoComment
  <2>4. c \in Plain(TRUE)
    BY <1>0, <2>3, CommentIs
  <2>5. u \in Seq(Plain(TRUE))
    BY AboutIs
  <2> HIDE DEF i, c
  <2>6. u \o <<c>> \in Seq(Plain(TRUE))
    BY <2>4, <2>5, SeqBasics
  <2>7. (<<i>> \o u) \o <<c>> = <<i>> \o (u \o <<c>>)
    <3>1. u \in Seq(Kind(TRUE)) /\ c \in Kind(TRUE)
      BY <2>4, <2>5, PlainIs DEF Plain
    <3>2. <<c>> \in Seq(Kind(TRUE))
      BY <3>1, SeqBasics
    <3> QED BY <2>3, <3>1, <3>2, SeqAssociates
  <2> QED BY <1>3, <1>5, <2>1, <2>2, <2>3, <2>6, <2>7 DEF CreateMemoComment, i, c
<1>6. ASSUME NEW m \in memos, SetMemo(p, m) PROVE TypeInv'
  <2>1. m \in Ids
    BY <1>0
  <2>2. ASSUME NEW as \in SUBSET Attachments
        PROVE  SetMemoAttachments(m, as) \in Seq(Plain(TRUE))
    BY <2>1, SettingIs, AboutIs
  <2>3. ASSUME NEW ms \in SUBSET (1..made) PROVE SetMemoRelations(m, ms) \in Seq(Plain(TRUE))
    BY <1>0, <2>1, SettingIs, AboutIs
  <2> QED BY <1>2, <1>6, <2>2, <2>3 DEF SetMemo
<1>7. ASSUME NEW m \in memos, DeleteMemo(p, m) \/ DeleteMemoByMCP(p, m) PROVE TypeInv'
  <2>1. m \in 0..MaxMemos
    BY <1>0
  <2>2. WithComments(m) \in Seq(Plain(FALSE)) /\ StoreDeleteMemo(m) \in Seq(Plain(FALSE))
    BY <2>1, DeletingIs
  <2>3. CASE DeleteMemo(p, m)
    BY <1>2, <2>2, <2>3 DEF DeleteMemo
  <2>4. CASE DeleteMemoByMCP(p, m)
    <3> DEFINE t == StoreDeleteMemo(m)
    <3>0. /\ Begin(p, FALSE, t) /\ made' = made
          /\ t \in Seq(Kind(FALSE)) /\ t \in Seq(Given)'
      BY <2>2, <2>4, PlainIs DEF DeleteMemoByMCP
    <3> HIDE DEF t
    <3>1. JobsTyped'
      <4>1. made' \in Nat /\ made =< made'
        BY <1>0, <3>0
      <4> QED BY <3>0, <4>1, BeginType
    <3>2. under' \in [Ids -> (0..MaxMemos) \cup {None}]
      BY <1>0, <2>4 DEF DeleteMemoByMCP, TypeInv, TablesTyped
    <3>3. TablesTyped'
      BY <1>1, <3>0, <3>2 DEF TypeInv, TablesTyped
    <3> QED BY <3>1, <3>3 DEF TypeInv
  <2> QED BY <1>7, <2>3, <2>4
<1>8. ASSUME NEW a \in Attachments, DeleteAttachment(p, a) PROVE TypeInv'
  <2>1. <<Do("remove", 0, {a})>> \in Seq(Plain(FALSE))
    BY RemoveIs
  <2> QED BY <1>2, <1>8, <2>1 DEF DeleteAttachment
<1>9. ASSUME NEW a \in Attachments, NEW m \in memos \cup {Loose}, CreateAttachment(p, a, m)
      PROVE  TypeInv'
  <2>1. <<Do("upload", m, {a})>> \in Seq(Plain(TRUE))
    <3>1. m \in 0..MaxMemos
      BY <1>0 DEF Loose, Ids
    <3> QED BY <3>1, UploadIs
  <2> QED BY <1>2, <1>9, <2>1 DEF CreateAttachment
<1> QED BY <1>4, <1>5, <1>6, <1>7, <1>8, <1>9 DEF Request

(* A request that goes on with what is left, perhaps after something else. *)
LEMMA ResumeType ==
  ASSUME TypeInv, NEW p \in Procs, Busy(p), UNCHANGED made,
         NEW u \in Seq(Kind(job[p].links)), u \in Seq(Given), Continue(p, u \o Rest(p))
  PROVE  JobsTyped'
<1> DEFINE K == Kind(job[p].links)
           r == Rest(p)
<1>1. r \in Seq(K) /\ r \in Seq(Given) /\ u \in Seq(K) /\ u \in Seq(Given)
  BY NowIs
<1> HIDE DEF K, r
<1>2. u \o r \in Seq(K) /\ u \o r \in Seq(Given)
  BY <1>1, SeqBasics
<1> QED BY <1>2, ContinueType DEF K, r

LEMMA RestType ==
  ASSUME TypeInv, NEW p \in Procs, Busy(p), UNCHANGED made, GoOn(p) \/ BreakOff(p)
  PROVE  JobsTyped'
<1>1. CASE GoOn(p)
  BY <1>1, NowIs, ContinueType DEF GoOn
<1>2. CASE BreakOff(p)
  BY <1>2, SeqBasics, ContinueType DEF BreakOff
<1> QED BY <1>1, <1>2

LEMMA AgainIs ==
  ASSUME TypeInv, NEW p \in Procs, Busy(p), NEW on,
         on \subseteq Now(p).on \/ (Now(p).do = "comments" /\ on \subseteq Ids)
  PROVE  /\ [Now(p) EXCEPT !.on = on] \in Kind(job[p].links)
         /\ [Now(p) EXCEPT !.on = on] \in Given
         /\ [Now(p) EXCEPT !.on = on].do = Now(p).do
         /\ [Now(p) EXCEPT !.on = on].memo = Now(p).memo
         /\ [Now(p) EXCEPT !.on = on].on = on
<1> DEFINE n == Now(p)
           s == [n EXCEPT !.on = on]
<1>1. n \in Statement /\ Fits(n) /\ n \in Given /\ n \in Kind(job[p].links)
  BY NowIs DEF Kind
<1>2. Ids \subseteq Nat
  BY ConstantsOK DEF Ids
<1> HIDE DEF n
<1>3. s.do = n.do /\ s.memo = n.memo /\ s.on = on
  BY <1>1 DEF Statement
<1>4. on \subseteq Nat \cup Attachments
  BY <1>1, <1>2 DEF Statement, n
<1>5. s \in Statement
  BY <1>1, <1>4 DEF Statement
<1> HIDE DEF s
<1>6. CASE on \subseteq n.on
  <2>1. Fits(s)
    BY <1>1, <1>3, <1>6 DEF Fits
  <2> QED BY <1>1, <1>3, <1>5, <2>1 DEF Kind, Given, s, n
<1>7. CASE n.do = "comments" /\ on \subseteq Ids
  <2>1. Fits(s)
    BY <1>1, <1>3, <1>7 DEF Fits
  <2> QED BY <1>1, <1>3, <1>5, <2>1 DEF Kind, Given, s, n
<1> QED BY <1>6, <1>7 DEF n

LEMMA IfIs ==
  ASSUME NEW S, NEW on, NEW s, on = {} \/ s \in S
  PROVE  If(on, <<s>>) \in Seq(S)
BY SeqBasics DEF If

LEMMA OthersType ==
  ASSUME TypeInv, NEW p \in Procs, Busy(p), UNCHANGED made, NEW x, Continue(p, Others(p, x))
  PROVE  JobsTyped'
<1> DEFINE on == Now(p).on \ {x}
           s == [Now(p) EXCEPT !.on = on]
           u == If(on, <<s>>)
<1>0. on \subseteq Now(p).on
  OBVIOUS
<1> HIDE DEF on
<1>1. s \in Kind(job[p].links) /\ s \in Given
  BY <1>0, AgainIs
<1>2. u \in Seq(Kind(job[p].links)) /\ u \in Seq(Given)
  BY <1>1, IfIs
<1>3. Continue(p, u \o Rest(p))
  BY DEF Others, on
<1> HIDE DEF u
<1> QED BY <1>2, <1>3, ResumeType

(* Only deletions go after comments and rows. *)
LEMMA ByKind ==
  ASSUME TypeInv, NEW p \in Procs, Busy(p)
  PROVE  /\ Now(p).do \in Deleting \ {"remove"} => job[p].links = FALSE
         /\ Now(p).do \in Linking \ {"remove"} => job[p].links = TRUE
<1>1. Now(p) \in Kind(job[p].links) /\ job[p].links \in BOOLEAN
  BY JobIs, NowIs
<1>2. Now(p).do \in (IF job[p].links THEN Linking ELSE Deleting)
  BY <1>1 DEF Kind
<1> QED BY <1>1, <1>2 DEF Deleting, Linking

(* The statement at hand, and what is typed about it. *)
LEMMA NowFits ==
  ASSUME TypeInv, NEW p \in Procs, Busy(p)
  PROVE  /\ Now(p) \in Statement /\ Now(p).memo \in 0..MaxMemos
         /\ Now(p).do \in {"insert", "refer", "comment"} => Now(p).memo \in Ids
         /\ Now(p).do \in {"refer", "comment", "comments"} => Now(p).on \subseteq Ids
         /\ Now(p).do \in {"upload", "listed", "attach", "remove"} => Now(p).on \subseteq Attachments
         /\ Now(p).do = "insert" => Now(p).memo \in 1..made
<1>1. Now(p) \in Statement /\ Fits(Now(p)) /\ Now(p) \in Given
  BY NowIs DEF Kind
<1>2. MaxMemos \in Nat /\ made \in Nat
  BY ConstantsOK DEF TypeInv, TablesTyped
<1>3. Now(p).do = "insert" => Now(p).memo \in Ids /\ Now(p).memo =< made
  BY <1>1 DEF Fits, Given
<1> QED BY <1>1, <1>2, <1>3 DEF Fits, Ids

LEMMA ExecuteType ==
  ASSUME TypeInv, NEW p \in Procs, Execute(p)
  PROVE  TypeInv'
<1> USE DEF TypeInv
<1>0. /\ Busy(p) /\ MaxMemos \in Nat /\ TablesTyped /\ Ids \subseteq 0..MaxMemos
      /\ made \in 0..MaxMemos
  BY ConstantsOK DEF Execute, Ids, TablesTyped
<1>1. CASE InsertMemo(p)
  <2>1. JobsTyped'
    BY <1>0, <1>1, RestType DEF InsertMemo
  <2>2. Now(p).memo \in 1..made
    BY <1>0, <1>1, NowFits DEF InsertMemo, At
  <2>3. memos' \subseteq 1..made
    BY <1>0, <1>1, <2>2 DEF InsertMemo, TablesTyped
  <2> QED BY <1>0, <1>1, <2>1, <2>3 DEF InsertMemo, TablesTyped
<1>2. CASE InsertAttachment(p)
  <2>1. PICK a \in Now(p).on :
          \/ owner[a] = None /\ owner' = [owner EXCEPT ![a] = Now(p).memo] /\ GoOn(p)
          \/ owner[a] # None /\ UNCHANGED owner /\ BreakOff(p)
    BY <1>2 DEF InsertAttachment
  <2>2. UNCHANGED <<memos, made, relations, under>>
    BY <1>2 DEF InsertAttachment
  <2>3. JobsTyped'
    BY <1>0, <2>1, <2>2, RestType
  <2>4. Now(p).memo \in 0..MaxMemos
    BY <1>0, NowFits
  <2> QED BY <1>0, <2>1, <2>2, <2>3, <2>4 DEF TablesTyped
<1>3. CASE ListForUpdate(p)
  <2>1. PICK L \in Listings(Now(p).memo) :
          Continue(p, If(L \ Now(p).on, <<Do("remove", 0, L \ Now(p).on)>>) \o Rest(p))
    BY <1>3 DEF ListForUpdate
  <2> DEFINE on == L \ Now(p).on
             u == If(on, <<Do("remove", 0, on)>>)
  <2>2. on \in SUBSET Attachments
    BY DEF Listings
  <2> HIDE DEF on
  <2>3. u \in Seq(Kind(job[p].links)) /\ u \in Seq(Given)
    BY <1>0, <2>2, RemoveIs, PlainIs, JobIs, SeqBasics DEF If
  <2>4. Continue(p, u \o Rest(p))
    BY <2>1 DEF on
  <2> HIDE DEF u
  <2>5. JobsTyped'
    BY <1>0, <1>3, <2>3, <2>4, ResumeType DEF ListForUpdate
  <2> QED BY <1>0, <1>3, <2>5 DEF ListForUpdate, TablesTyped
<1>4. CASE UpdateAttachment(p)
  <2>1. PICK a \in Now(p).on :
          \/ /\ owner[a] # None /\ owner' = [owner EXCEPT ![a] = Now(p).memo]
             /\ Continue(p, Others(p, a))
          \/ owner[a] = None /\ UNCHANGED owner /\ BreakOff(p)
    BY <1>4 DEF UpdateAttachment
  <2>2. UNCHANGED <<memos, made, relations, under>>
    BY <1>4 DEF UpdateAttachment
  <2>3. JobsTyped'
    BY <1>0, <2>1, <2>2, RestType, OthersType
  <2>4. Now(p).memo \in 0..MaxMemos
    BY <1>0, NowFits
  <2> QED BY <1>0, <2>1, <2>2, <2>3, <2>4 DEF TablesTyped
<1>5. CASE DeleteReferences(p)
  <2>1. JobsTyped'
    BY <1>0, <1>5, RestType DEF DeleteReferences
  <2> QED BY <1>0, <1>5, <2>1 DEF DeleteReferences, TablesTyped
<1>6. CASE InsertReference(p)
  <2>1. PICK m \in Now(p).on :
          \/ /\ m \in memos /\ relations' = relations \cup {<<Now(p).memo, m, "REFERENCE">>}
             /\ Continue(p, Others(p, m))
          \/ m \notin memos /\ UNCHANGED relations /\ BreakOff(p)
    BY <1>6 DEF InsertReference
  <2>2. UNCHANGED <<memos, made, owner, under>> /\ Now(p).do = "refer"
    BY <1>6 DEF InsertReference, At
  <2>3. JobsTyped'
    BY <1>0, <2>1, <2>2, RestType, OthersType
  <2>4. Now(p).memo \in Ids /\ m \in Ids
    BY <1>0, <2>2, NowFits
  <2>5. relations' \subseteq Ids \X Ids \X Kinds
    BY <1>0, <2>1, <2>4 DEF TablesTyped, Kinds
  <2> QED BY <1>0, <2>2, <2>3, <2>5 DEF TablesTyped
<1>7. CASE InsertComment(p)
  <2> DEFINE c == Now(p).memo
  <2>1. PICK m \in Now(p).on :
          \/ /\ relations' = relations \cup {<<c, m, "COMMENT">>}
             /\ under' = [under EXCEPT ![c] = IF under[m] = 0 THEN m ELSE None]
             /\ GoOn(p)
          \/ UNCHANGED <<relations, under>> /\ BreakOff(p)
    BY <1>7 DEF InsertComment
  <2>2. UNCHANGED <<memos, made, owner>> /\ Now(p).do = "comment"
    BY <1>7 DEF InsertComment, At
  <2>3. JobsTyped'
    BY <1>0, <2>1, <2>2, RestType
  <2>4. c \in Ids /\ m \in Ids
    BY <1>0, <2>2, NowFits
  <2> HIDE DEF c
  <2>5. relations' \subseteq Ids \X Ids \X Kinds
    BY <1>0, <2>1, <2>4 DEF TablesTyped, Kinds
  <2>6. under' \in [Ids -> (0..MaxMemos) \cup {None}]
    BY <1>0, <2>1, <2>4 DEF TablesTyped
  <2> QED BY <1>0, <2>2, <2>3, <2>5, <2>6 DEF TablesTyped
<1>8. CASE ListComments(p)
  <2> DEFINE cs == Comments(Now(p).memo)
             n == [Now(p) EXCEPT !.on = cs]
             u == If(cs, <<n>>)
  <2>1. cs \subseteq Ids
    BY <1>0 DEF Comments, TablesTyped
  <2>2. Now(p).do = "comments" /\ Continue(p, u \o Rest(p))
        /\ UNCHANGED <<memos, made, relations, owner, under>>
    BY <1>8 DEF ListComments, At
  <2> HIDE DEF cs
  <2>3. n \in Kind(job[p].links) /\ n \in Given
    BY <1>0, <2>1, <2>2, AgainIs
  <2>4. u \in Seq(Kind(job[p].links)) /\ u \in Seq(Given)
    BY <2>3, IfIs
  <2> HIDE DEF u
  <2>5. JobsTyped'
    BY <1>0, <2>2, <2>4, ResumeType
  <2> QED BY <1>0, <2>2, <2>5 DEF TablesTyped
<1>9. CASE DeleteComment(p)
  <2>1. PICK c \in Now(p).on : Continue(p, StoreDeleteMemo(c) \o Others(p, c))
    BY <1>9 DEF DeleteComment
  <2>2. Now(p).do = "comments" /\ UNCHANGED <<memos, made, relations, owner, under>>
    BY <1>9 DEF DeleteComment, At
  <2>3. c \in 0..MaxMemos /\ job[p].links = FALSE
    BY <1>0, <2>2, NowFits, ByKind DEF Deleting
  <2> DEFINE K == Kind(FALSE)
             on == Now(p).on \ {c}
             n == [Now(p) EXCEPT !.on = on]
             v == If(on, <<n>>)
             r == Rest(p)
             d == StoreDeleteMemo(c)
  <2>4. on \subseteq Now(p).on
    OBVIOUS
  <2> HIDE DEF on
  <2>5. n \in K /\ n \in Given
    BY <1>0, <2>3, <2>4, AgainIs
  <2>6. v \in Seq(K) /\ v \in Seq(Given)
    BY <2>5, IfIs
  <2>7. d \in Seq(K) /\ d \in Seq(Given)
    BY <2>3, DeletingIs, PlainIs
  <2>8. r \in Seq(K) /\ r \in Seq(Given)
    BY <1>0, <2>3, NowIs
  <2>9. Others(p, c) = v \o r
    BY DEF Others, on
  <2> HIDE DEF K, v, r, d
  <2>10. d \o (v \o r) \in Seq(K) /\ d \o (v \o r) \in Seq(Given)
    BY <2>6, <2>7, <2>8, SeqBasics
  <2>11. JobsTyped'
    BY <1>0, <2>1, <2>2, <2>3, <2>9, <2>10, ContinueType DEF K, d
  <2> QED BY <1>0, <2>2, <2>11 DEF TablesTyped
<1>10. CASE DeleteRelations(p)
  <2>1. JobsTyped'
    BY <1>0, <1>10, RestType DEF DeleteRelations
  <2> QED BY <1>0, <1>10, <2>1 DEF DeleteRelations, TablesTyped
<1>11. CASE ListForDelete(p)
  <2>1. PICK L \in Listings(Now(p).memo) :
          Continue(p, If(L, <<Do("remove", 0, L)>>) \o Rest(p))
    BY <1>11 DEF ListForDelete
  <2> DEFINE u == If(L, <<Do("remove", 0, L)>>)
  <2>2. L \in SUBSET Attachments
    BY DEF Listings
  <2>3. u \in Seq(Kind(job[p].links)) /\ u \in Seq(Given)
    BY <1>0, <2>2, RemoveIs, PlainIs, JobIs, SeqBasics DEF If
  <2> HIDE DEF u
  <2>4. JobsTyped'
    BY <1>0, <1>11, <2>1, <2>3, ResumeType DEF ListForDelete, u
  <2> QED BY <1>0, <1>11, <2>4 DEF ListForDelete, TablesTyped
<1>12. CASE RemoveAttachment(p)
  <2>1. PICK a \in Now(p).on :
          \/ /\ owner[a] # None /\ owner' = [owner EXCEPT ![a] = None]
             /\ Continue(p, Others(p, a))
          \/ owner[a] = None /\ UNCHANGED owner /\ BreakOff(p)
    BY <1>12 DEF RemoveAttachment
  <2>2. UNCHANGED <<memos, made, relations, under>>
    BY <1>12 DEF RemoveAttachment
  <2>3. JobsTyped'
    BY <1>0, <2>1, <2>2, RestType, OthersType
  <2> QED BY <1>0, <2>1, <2>2, <2>3 DEF TablesTyped
<1>13. CASE DeleteRow(p)
  <2>1. JobsTyped'
    BY <1>0, <1>13, RestType DEF DeleteRow
  <2> QED BY <1>0, <1>13, <2>1 DEF DeleteRow, TablesTyped
<1>14. CASE StatementFails(p)
  <2>1. JobsTyped'
    BY <1>0, <1>14, RestType DEF StatementFails
  <2> QED BY <1>0, <1>14, <2>1 DEF StatementFails, TablesTyped
<1> QED BY <1>1, <1>2, <1>3, <1>4, <1>5, <1>6, <1>7, <1>8, <1>9, <1>10, <1>11, <1>12, <1>13,
           <1>14 DEF Execute

LEMMA InitType == Init => TypeInv
<1> SUFFICES ASSUME Init PROVE TypeInv
  OBVIOUS
<1>1. MaxMemos \in Nat /\ Ids \subseteq Nat
  BY ConstantsOK DEF Ids
<1>2. TablesTyped
  BY <1>1 DEF Init, TablesTyped
<1>3. Idle \in [todo: Seq(Statement), links: BOOLEAN] /\ Idle.todo = <<>>
  BY SeqBasics DEF Idle
<1>4. JobsTyped
  BY <1>3, SeqBasics DEF Init, JobsTyped
<1> QED BY <1>2, <1>4 DEF TypeInv

LEMMA NextType == TypeInv /\ [Next]_vars => TypeInv'
<1> SUFFICES ASSUME TypeInv, [Next]_vars PROVE TypeInv'
  OBVIOUS
<1>1. CASE UNCHANGED vars
  BY <1>1 DEF vars, TypeInv, TablesTyped, JobsTyped, Given
<1>2. CASE Crash
  <2>1. Idle \in [todo: Seq(Statement), links: BOOLEAN] /\ Idle.todo = <<>>
    BY SeqBasics DEF Idle
  <2>2. JobsTyped'
    BY <1>2, <2>1, SeqBasics DEF Crash, JobsTyped
  <2>3. TablesTyped'
    BY <1>2 DEF Crash, TypeInv, TablesTyped
  <2> QED BY <2>2, <2>3 DEF TypeInv
<1>3. ASSUME NEW p \in Procs, Request(p) PROVE TypeInv'
  BY <1>3, RequestType
<1>4. ASSUME NEW p \in Procs, Execute(p) PROVE TypeInv'
  BY <1>4, ExecuteType
<1> QED BY <1>1, <1>2, <1>3, <1>4 DEF Next

(* In every reachable state the variables hold what the code can store in    *)
(* them, however requests interleave and break off.                          *)
THEOREM TypeCorrect == Spec => []TypeOK
<1>1. Spec => []TypeInv
  BY InitType, NextType, PTL DEF Spec
<1> QED BY <1>1, TypesFollow, PTL

-----------------------------------------------------------------------------
(* LinksAlive *)

(* Whoever makes links is alone. *)
Apart == \A p, q \in Procs : Busy(p) /\ job[p].links /\ Busy(q) => p = q

(* A statement may be reached after those of B: a link is made from a memo   *)
(* that is there, or will be, to one that is there; a row goes after what    *)
(* hangs on it.                                                              *)
LinkReady(s, B) ==
  /\ s.do \in {"attach", "refer", "comment"} =>
       s.memo \in memos \/ \E b \in B : b.do = "insert" /\ b.memo = s.memo
  /\ s.do = "upload" => s.memo \in memos \cup {Loose}
  /\ s.do = "comment" => s.on \subseteq memos

NoneFrom(m, B) == (\A r \in relations : r[1] # m) \/ \E b \in B : b.do = "from" /\ b.memo = m
NoneTo(m, B) == (\A r \in relations : r[2] # m) \/ \E b \in B : b.do = "to" /\ b.memo = m
NoneOn(m, B) ==
  \/ \E b \in B : b.do = "attachments" /\ b.memo = m
  \/ \A a \in Attachments : owner[a] = m => \E b \in B : b.do = "remove" /\ a \in b.on
RowReady(s, B) ==
  s.do = "row" => NoneFrom(s.memo, B) /\ NoneTo(s.memo, B) /\ NoneOn(s.memo, B)

Ready(s, B) == LinkReady(s, B) /\ RowReady(s, B)

Before(t, i) == {t[j] : j \in 1..(i - 1)}
All(t) == {t[j] : j \in DOMAIN t}
Prepared(t) == \A i \in DOMAIN t : Ready(t[i], Before(t, i))

AllPrepared == \A q \in Procs : Prepared(job[q].todo)

LinksInv == TypeInv /\ LinksAlive /\ Apart /\ AllPrepared

(* Where the statements of a list are found when it replaces the first of    *)
(* another.                                                                  *)
Placed(w, i, t, u) ==
  \/ i \in DOMAIN u /\ w[i] = u[i] /\ Before(w, i) = Before(u, i)
  \/ \E k \in DOMAIN t : /\ w[i] = t[k]
                         /\ Before(t, k) \subseteq {Head(t)} \cup Before(w, i)
                         /\ All(u) \subseteq Before(w, i)

LEMMA Positions ==
  ASSUME NEW S, NEW t \in Seq(S), t # <<>>, NEW u \in Seq(S), NEW w, w = u \o Tail(t),
         NEW i \in DOMAIN w
  PROVE  Placed(w, i, t, u)
<1>1. /\ Len(t) \in Nat /\ Len(t) > 0 /\ DOMAIN t = 1..Len(t) /\ Len(u) \in Nat
      /\ DOMAIN u = 1..Len(u) /\ Head(t) = t[1]
  OBVIOUS
<1>2. /\ Tail(t) \in Seq(S) /\ Len(Tail(t)) = Len(t) - 1
      /\ \A k \in 1..(Len(t) - 1) : Tail(t)[k] = t[k + 1]
  OBVIOUS
<1> DEFINE r == Tail(t)
<1>3. r \in Seq(S) /\ Len(r) = Len(t) - 1 /\ \A k \in 1..(Len(t) - 1) : r[k] = t[k + 1]
  BY <1>2
<1>4. w = u \o r
  OBVIOUS
<1> HIDE DEF r
<1>5. /\ Len(w) = Len(u) + Len(r) /\ DOMAIN w = 1..Len(w) /\ i \in 1..(Len(u) + Len(r))
      /\ \A k \in 1..(Len(u) + Len(r)) : w[k] = IF k =< Len(u) THEN u[k] ELSE r[k - Len(u)]
  BY <1>3, <1>4
<1>6. CASE i =< Len(u)
  <2>1. \A j \in 1..i : w[j] = u[j]
    BY <1>1, <1>3, <1>5, <1>6
  <2>2. Before(w, i) = Before(u, i) /\ i \in DOMAIN u
    BY <1>1, <1>5, <1>6, <2>1 DEF Before
  <2> QED BY <1>1, <1>5, <2>1, <2>2 DEF Placed
<1>7. CASE i > Len(u)
  <2> DEFINE k == i - Len(u) + 1
  <2>1. k \in 2..Len(t) /\ k \in DOMAIN t
    BY <1>1, <1>3, <1>5, <1>7
  <2>2. w[i] = t[k]
    <3>1. w[i] = r[i - Len(u)] /\ i - Len(u) \in 1..(Len(t) - 1)
      BY <1>1, <1>3, <1>5, <1>7
    <3> QED BY <1>3, <3>1
  <2>3. ASSUME NEW j \in 1..(k - 1) PROVE t[j] \in {Head(t)} \cup Before(w, i)
    <3>1. CASE j = 1
      BY <1>1, <3>1
    <3>2. CASE j > 1
      <4> DEFINE l == Len(u) + j - 1
      <4>1. l \in 1..(i - 1) /\ l > Len(u) /\ l - Len(u) = j - 1 /\ j - 1 \in 1..(Len(t) - 1)
            /\ l \in 1..(Len(u) + Len(r))
        BY <1>1, <1>3, <1>5, <1>7, <2>1, <3>2
      <4> HIDE DEF l
      <4>2. w[l] = r[j - 1]
        <5>1. w[l] = r[l - Len(u)]
          BY <1>1, <1>3, <1>5, <4>1, SMTT(60)
        <5> QED BY <4>1, <5>1
      <4>3. r[j - 1] = t[j]
        BY <1>1, <1>3, <4>1
      <4> QED BY <4>1, <4>2, <4>3 DEF Before
    <3> QED BY <1>1, <3>1, <3>2
  <2>4. Before(t, k) \subseteq {Head(t)} \cup Before(w, i)
    BY <2>3 DEF Before
  <2>5. All(u) \subseteq Before(w, i)
    <3>1. ASSUME NEW j \in DOMAIN u PROVE u[j] \in Before(w, i)
      <4>1. j \in 1..(i - 1) /\ w[j] = u[j]
        BY <1>1, <1>3, <1>5, <1>7
      <4> QED BY <4>1 DEF Before
    <3> QED BY <3>1 DEF All
  <2> HIDE DEF k
  <2> QED BY <2>1, <2>2, <2>4, <2>5 DEF Placed
<1> QED BY <1>1, <1>5, <1>6, <1>7

LEMMA FirstReady ==
  ASSUME TypeInv, NEW p \in Procs, Busy(p), Prepared(job[p].todo)
  PROVE  Ready(Now(p), {})
<1>1. PICK t : t = job[p].todo
  OBVIOUS
<1>2. t \in Seq(Statement) /\ t # <<>> /\ Prepared(t)
  BY <1>1, JobIs DEF Busy
<1>3. 1 \in DOMAIN t /\ Head(t) = t[1]
  BY <1>2
<1>4. Before(t, 1) = {}
  BY DEF Before
<1> QED BY <1>1, <1>2, <1>3, <1>4 DEF Prepared, Now

LEMMA ContinueIs ==
  ASSUME TypeInv, NEW p \in Procs, NEW todo, Continue(p, todo)
  PROVE  /\ job'[p].todo = todo
         /\ todo # <<>> => job'[p].links = job[p].links
         /\ \A q \in Procs \ {p} : job'[q] = job[q]
<1>1. job \in [Procs -> [todo: Seq(Statement), links: BOOLEAN]]
  BY DEF TypeInv, JobsTyped
<1>2. CASE todo = <<>>
  BY <1>1, <1>2 DEF Continue, Idle
<1>3. CASE todo # <<>>
  BY <1>1, <1>3 DEF Continue
<1> QED BY <1>2, <1>3

LEMMA ResumeReady ==
  ASSUME TypeInv, NEW p \in Procs, Busy(p), Prepared(job[p].todo),
         NEW u \in Seq(Statement), Continue(p, u \o Rest(p)),
         \A s \in Kind(job[p].links), B, C \in SUBSET Statement :
           Ready(s, B) /\ B \subseteq {Now(p)} \cup C /\ All(u) \subseteq C => Ready(s, C)',
         \A i \in DOMAIN u : Ready(u[i], Before(u, i))'
  PROVE  Prepared(job[p].todo)'
<1>1. PICK t, w, n, K :
        t = job[p].todo /\ w = u \o Rest(p) /\ n = Now(p) /\ K = Kind(job[p].links)
  OBVIOUS
<1>2. /\ t \in Seq(Statement) /\ t # <<>> /\ Prepared(t) /\ t \in Seq(K) /\ w = u \o Tail(t)
      /\ n = Head(t) /\ K \subseteq Statement
  BY <1>1, JobIs, KindIs DEF Busy, Rest, Now
<1>3. job'[p].todo = w
  BY <1>1, ContinueIs
<1>4. w \in Seq(Statement)
  BY <1>2, SeqBasics
<1>5. ASSUME NEW i \in DOMAIN w PROVE Ready(w[i], Before(w, i))'
  <2>1. CASE i \in DOMAIN u /\ w[i] = u[i] /\ Before(w, i) = Before(u, i)
    BY <2>1
  <2>2. ASSUME NEW k \in DOMAIN t, w[i] = t[k],
               Before(t, k) \subseteq {Head(t)} \cup Before(w, i), All(u) \subseteq Before(w, i)
        PROVE  Ready(w[i], Before(w, i))'
    <3>1. PICK B, C : B = Before(t, k) /\ C = Before(w, i)
      OBVIOUS
    <3>2. B \in SUBSET Statement /\ C \in SUBSET Statement
      <4>1. \A j \in 1..(k - 1) : t[j] \in Statement
        BY <1>2
      <4>2. \A j \in 1..(i - 1) : w[j] \in Statement
        BY <1>4
      <4> QED BY <3>1, <4>1, <4>2 DEF Before
    <3>3. Ready(t[k], B) /\ t[k] \in K
      BY <1>2, <3>1 DEF Prepared
    <3>4. Ready(t[k], C)'
      BY <1>1, <1>2, <2>2, <3>1, <3>2, <3>3
    <3> QED BY <2>2, <3>1, <3>4
  <2>3. Placed(w, i, t, u)
    BY <1>2, Positions
  <2> QED BY <2>1, <2>2, <2>3 DEF Placed
<1> QED BY <1>3, <1>5 DEF Prepared

LEMMA OthersReady ==
  ASSUME TypeInv, NEW q \in Procs, job'[q] = job[q], Prepared(job[q].todo),
         \A s \in Kind(job[q].links), B \in SUBSET Statement : Ready(s, B) => Ready(s, B)'
  PROVE  Prepared(job[q].todo)'
<1>1. PICK t, K : t = job[q].todo /\ K = Kind(job[q].links)
  OBVIOUS
<1>2. t \in Seq(Statement) /\ t \in Seq(K) /\ Prepared(t)
  BY <1>1, JobIs
<1>3. ASSUME NEW i \in DOMAIN t PROVE Ready(t[i], Before(t, i))'
  <2>1. PICK B : B = Before(t, i)
    OBVIOUS
  <2>2. \A j \in 1..(i - 1) : t[j] \in Statement
    BY <1>2
  <2>3. B \in SUBSET Statement /\ t[i] \in K /\ Ready(t[i], B)
    BY <1>2, <2>1, <2>2 DEF Before, Prepared
  <2> QED BY <1>1, <2>1, <2>3
<1> QED BY <1>1, <1>3 DEF Prepared

LEMMA KindsDiffer ==
  /\ \A s \in Kind(TRUE) : s.do # "row"
  /\ \A s \in Kind(FALSE) : s.do \notin {"attach", "refer", "comment", "upload"}
BY DEF Kind, Linking, Deleting

LEMMA IdleReady ==
  ASSUME NEW q \in Procs, job[q].todo = <<>>
  PROVE  Prepared(job[q].todo)
BY DEF Prepared

(* How what is ready stays so under a step that makes links. *)
LEMMA LinkStep ==
  ASSUME TypeInv, NEW n, memos \subseteq memos', n.do = "insert" => n.memo \in memos',
         NEW s \in Kind(TRUE), NEW B, NEW C, B \subseteq {n} \cup C, Ready(s, B)
  PROVE  Ready(s, C)'
<1>1. s.do # "row"
  BY KindsDiffer
<1>2. LinkReady(s, C)'
  <2>1. ASSUME s.memo \in memos \/ \E b \in B : b.do = "insert" /\ b.memo = s.memo
        PROVE  s.memo \in memos' \/ \E b \in C : b.do = "insert" /\ b.memo = s.memo
    BY <2>1
  <2> QED BY <2>1 DEF Ready, LinkReady
<1> QED BY <1>1, <1>2 DEF Ready, RowReady

(* And under one that deletes, with u put in the place of the first. *)
Shrinks == relations' \subseteq relations /\ \A a \in Attachments : owner'[a] \in {owner[a], None}

RowEffect(n, A) ==
  /\ n.do = "from" => \A r \in relations' : r[1] # n.memo
  /\ n.do = "to" => \A r \in relations' : r[2] # n.memo
  /\ n.do = "attachments" => \A a \in Attachments :
       owner[a] = n.memo => \E b \in A : b.do = "remove" /\ a \in b.on
  /\ n.do = "remove" => \A a \in n.on :
       owner'[a] = None \/ \E b \in A : b.do = "remove" /\ a \in b.on

LEMMA RowStep ==
  ASSUME TypeInv, Shrinks, NEW n, NEW A, RowEffect(n, A),
         NEW s \in Kind(FALSE), NEW B, NEW C, B \subseteq {n} \cup C, A \subseteq C, Ready(s, B)
  PROVE  Ready(s, C)'
<1>1. s.do \notin {"attach", "refer", "comment", "upload"} /\ s.memo \in 0..MaxMemos
  BY KindsDiffer DEF Kind, Fits
<1>2. s.memo # None
  BY <1>1, ConstantsOK
<1> DEFINE m == s.memo
<1>3. ASSUME s.do = "row" PROVE RowReady(s, C)'
  <2>1. NoneFrom(m, B) /\ NoneTo(m, B) /\ NoneOn(m, B)
    BY <1>3 DEF Ready, RowReady
  <2>2. NoneFrom(m, C)'
    BY <2>1 DEF NoneFrom, Shrinks, RowEffect
  <2>3. NoneTo(m, C)'
    BY <2>1 DEF NoneTo, Shrinks, RowEffect
  <2>4. NoneOn(m, C)'
    <3>1. CASE \E b \in C : b.do = "attachments" /\ b.memo = m
      BY <3>1 DEF NoneOn
    <3>2. CASE n.do = "attachments" /\ n.memo = m
      <4>1. \A a \in Attachments : owner'[a] = m => owner[a] = m
        BY <1>2 DEF Shrinks
      <4> QED BY <3>2, <4>1 DEF RowEffect, NoneOn
    <3>3. CASE \A a \in Attachments : owner[a] = m => \E b \in B : b.do = "remove" /\ a \in b.on
      <4>1. ASSUME NEW a \in Attachments, owner'[a] = m
            PROVE  \E b \in C : b.do = "remove" /\ a \in b.on
        <5>1. owner[a] = m
          BY <1>2, <4>1 DEF Shrinks
        <5>2. PICK b \in B : b.do = "remove" /\ a \in b.on
          BY <3>3, <5>1
        <5>3. CASE b \in C
          BY <5>2, <5>3
        <5>4. CASE b = n
          BY <1>2, <4>1, <5>2, <5>4 DEF RowEffect
        <5> QED BY <5>3, <5>4
      <4> QED BY <4>1 DEF NoneOn
    <3> QED BY <2>1, <3>1, <3>2, <3>3 DEF NoneOn
  <2> QED BY <2>2, <2>3, <2>4 DEF RowReady
<1>4. RowReady(s, C)'
  BY <1>3 DEF RowReady
<1> QED BY <1>1, <1>4 DEF Ready, LinkReady

LEMMA ApartContinues ==
  ASSUME TypeInv, Apart, NEW p \in Procs, Busy(p), NEW todo, Continue(p, todo)
  PROVE  Apart'
<1>1. ASSUME NEW q \in Procs, Busy(q)'
      PROVE  Busy(q) /\ job'[q].links = job[q].links
  <2>1. CASE q = p
    BY <1>1, <2>1, ContinueIs DEF Busy
  <2>2. CASE q # p
    BY <1>1, <2>2, ContinueIs DEF Busy
  <2> QED BY <2>1, <2>2
<1> QED BY <1>1 DEF Apart

LEMMA LinkResume ==
  ASSUME TypeInv, Apart, AllPrepared, NEW p \in Procs, Busy(p), job[p].links,
         memos \subseteq memos', Now(p).do = "insert" => Now(p).memo \in memos',
         NEW u \in Seq(Statement), Continue(p, u \o Rest(p)),
         \A i \in DOMAIN u : Ready(u[i], Before(u, i))'
  PROVE  AllPrepared'
<1>1. ASSUME NEW s \in Kind(job[p].links), NEW B \in SUBSET Statement,
             NEW C \in SUBSET Statement, Ready(s, B), B \subseteq {Now(p)} \cup C
      PROVE  Ready(s, C)'
  <2>1. s \in Kind(TRUE)
    BY JobIs
  <2> QED BY <1>1, <2>1, LinkStep
<1>2. Prepared(job[p].todo)'
  BY <1>1, ResumeReady DEF AllPrepared
<1>3. ASSUME NEW q \in Procs, q # p PROVE Prepared(job[q].todo)'
  <2>1. job'[q].todo = <<>>
    BY <1>3, ContinueIs DEF Apart, Busy
  <2> QED BY <2>1, IdleReady DEF Prepared
<1> QED BY <1>2, <1>3 DEF AllPrepared

LEMMA RowResume ==
  ASSUME TypeInv, Apart, AllPrepared, NEW p \in Procs, Busy(p), job[p].links = FALSE, Shrinks,
         NEW u \in Seq(Statement), Continue(p, u \o Rest(p)), RowEffect(Now(p), All(u)),
         \A i \in DOMAIN u : Ready(u[i], Before(u, i))'
  PROVE  AllPrepared'
<1>1. ASSUME NEW s \in Kind(job[p].links), NEW B \in SUBSET Statement,
             NEW C \in SUBSET Statement, Ready(s, B), B \subseteq {Now(p)} \cup C,
             All(u) \subseteq C
      PROVE  Ready(s, C)'
  BY <1>1, RowStep
<1>2. Prepared(job[p].todo)'
  BY <1>1, ResumeReady DEF AllPrepared
<1>3. ASSUME NEW q \in Procs, q # p PROVE Prepared(job[q].todo)'
  <2>1. CASE ~Busy(q)
    <3>1. job'[q].todo = <<>>
      BY <1>3, <2>1, ContinueIs DEF Busy
    <3> QED BY <3>1 DEF Prepared
  <2>2. CASE Busy(q)
    <3>1. job[q].links = FALSE /\ job'[q] = job[q] /\ Prepared(job[q].todo)
      BY <1>3, <2>2, JobIs, ContinueIs DEF Apart, AllPrepared
    <3>2. ASSUME NEW s \in Kind(job[q].links), NEW B \in SUBSET Statement, Ready(s, B)
          PROVE  Ready(s, B)'
      <4>1. PICK n : n.do = "none"
        BY DoIs
      <4>2. PICK A : A = {} /\ RowEffect(n, A)
        BY <4>1 DEF RowEffect
      <4>3. B \subseteq {n} \cup B /\ A \subseteq B /\ s \in Kind(FALSE)
        BY <3>1, <4>2
      <4> QED BY <3>2, <4>2, <4>3, RowStep
    <3> QED BY <3>1, <3>2, OthersReady
  <2> QED BY <2>1, <2>2
<1> QED BY <1>2, <1>3 DEF AllPrepared

LEMMA StopReady ==
  ASSUME TypeInv, AllPrepared, NEW p \in Procs, Continue(p, <<>>),
         UNCHANGED <<memos, relations, owner>>
  PROVE  AllPrepared'
<1>1. Prepared(job[p].todo)'
  BY ContinueIs DEF Prepared
<1>2. ASSUME NEW q \in Procs, q # p PROVE Prepared(job[q].todo)'
  <2>1. job'[q] = job[q]
    BY <1>2, ContinueIs
  <2>2. \A s, B : Ready(s, B) => Ready(s, B)'
    BY DEF Ready, LinkReady, RowReady, NoneFrom, NoneTo, NoneOn
  <2> QED BY <2>1, <2>2, OthersReady DEF AllPrepared
<1> QED BY <1>1, <1>2 DEF AllPrepared

(* One statement, or none, to be put in the place of the first. *)
LEMMA OneReady ==
  ASSUME NEW on, NEW n, on # {} => Ready(n, {})'
  PROVE  /\ \A i \in DOMAIN If(on, <<n>>) : Ready(If(on, <<n>>)[i], Before(If(on, <<n>>), i))'
         /\ on # {} => All(If(on, <<n>>)) = {n}
<1>1. CASE on = {}
  BY <1>1 DEF If
<1>2. CASE on # {}
  <2> DEFINE u == <<n>>
  <2>1. If(on, u) = u /\ DOMAIN u = {1} /\ u[1] = n
    BY <1>2 DEF If
  <2> HIDE DEF u
  <2>2. Before(u, 1) = {} /\ All(u) = {n}
    BY <2>1 DEF Before, All
  <2>3. \A i \in DOMAIN u : Ready(u[i], Before(u, i))'
    BY <1>2, <2>1, <2>2
  <2> QED BY <1>2, <2>1, <2>2, <2>3 DEF u
<1> QED BY <1>1, <1>2

-----------------------------------------------------------------------------
(* Statements *)

(* Short lists are listed whole. *)
LEMMA ListedWhole ==
  ASSUME IsFiniteSet(Attachments), Cardinality(Attachments) =< ListLimit,
         NEW m, NEW L \in Listings(m)
  PROVE  L = {a \in Attachments : owner[a] = m}
<1> DEFINE own == {a \in Attachments : owner[a] = m}
<1>1. IsFiniteSet(own) /\ Cardinality(own) =< Cardinality(Attachments)
  BY FS_Subset
<1>2. Cardinality(own) \in Nat /\ Cardinality(Attachments) \in Nat /\ ListLimit \in Nat
  BY <1>1, FS_CardinalityType, ConstantsOK
<1>3. L \subseteq own /\ Cardinality(L) = Min(ListLimit, Cardinality(own))
  BY DEF Listings
<1> HIDE DEF own
<1>4. Cardinality(L) = Cardinality(own)
  BY <1>1, <1>2, <1>3 DEF Min
<1>5. L = own
  BY <1>1, <1>3, <1>4, FS_Subset
<1> QED BY <1>5 DEF own

LEMMA EmptyReady ==
  /\ <<>> \in Seq(Statement) /\ All(<<>>) = {}
  /\ \A i \in DOMAIN <<>> : Ready(<<>>[i], Before(<<>>, i))'
  /\ \A r \in Seq(Statement) : <<>> \o r = r
BY DEF All

(* A statement that makes links is done: nothing is to be put in its place. *)
LEMMA LinkGoesOn ==
  ASSUME TypeInv, Apart, AllPrepared, NEW p \in Procs, Busy(p), job[p].links,
         memos \subseteq memos', Now(p).do = "insert" => Now(p).memo \in memos', GoOn(p)
  PROVE  AllPrepared'
<1>1. Rest(p) \in Seq(Statement)
  BY NowIs, KindIs, JobIs, SeqGrows
<1>2. Continue(p, <<>> \o Rest(p))
  BY <1>1, EmptyReady DEF GoOn
<1> QED BY <1>2, EmptyReady, LinkResume

LEMMA RowGoesOn ==
  ASSUME TypeInv, Apart, AllPrepared, NEW p \in Procs, Busy(p), job[p].links = FALSE, Shrinks,
         RowEffect(Now(p), {}), GoOn(p)
  PROVE  AllPrepared'
<1>1. Rest(p) \in Seq(Statement)
  BY NowIs, KindIs, JobIs, SeqGrows
<1>2. Continue(p, <<>> \o Rest(p)) /\ RowEffect(Now(p), All(<<>>))
  BY <1>1, EmptyReady DEF GoOn
<1> QED BY <1>2, EmptyReady, RowResume

(* A statement carried out for x comes again for the others. *)
LEMMA LinkOthers ==
  ASSUME TypeInv, Apart, AllPrepared, NEW p \in Procs, Busy(p), job[p].links,
         memos \subseteq memos', Now(p).do \in {"attach", "refer", "remove"},
         NEW x, Continue(p, Others(p, x))
  PROVE  AllPrepared'
<1>0. PICK on : on = Now(p).on \ {x}
  OBVIOUS
<1>1. PICK n : n = [Now(p) EXCEPT !.on = on]
  OBVIOUS
<1>2. PICK u : u = If(on, <<n>>)
  OBVIOUS
<1>3. on \subseteq Now(p).on /\ Continue(p, u \o Rest(p))
  BY <1>0, <1>1, <1>2 DEF Others
<1>4. n \in Statement /\ n.do = Now(p).do /\ n.memo = Now(p).memo
  BY <1>1, <1>3, AgainIs, KindIs, JobIs
<1>5. u \in Seq(Statement)
  BY <1>2, <1>4, IfIs
<1>6. Ready(Now(p), {})
  BY FirstReady DEF AllPrepared
<1>7. Ready(n, {})'
  BY <1>4, <1>6 DEF Ready, LinkReady, RowReady
<1>8. \A i \in DOMAIN u : Ready(u[i], Before(u, i))'
  BY <1>2, <1>7, OneReady
<1>9. Now(p).do # "insert"
  OBVIOUS
<1> QED BY <1>3, <1>5, <1>8, <1>9, LinkResume

LEMMA RowOthers ==
  ASSUME TypeInv, Apart, AllPrepared, NEW p \in Procs, Busy(p), job[p].links = FALSE, Shrinks,
         Now(p).do = "remove", NEW x, owner'[x] = None, Continue(p, Others(p, x))
  PROVE  AllPrepared'
<1>0. PICK on : on = Now(p).on \ {x}
  OBVIOUS
<1>1. PICK n : n = [Now(p) EXCEPT !.on = on]
  OBVIOUS
<1>2. PICK u : u = If(on, <<n>>)
  OBVIOUS
<1>3. on \subseteq Now(p).on /\ Continue(p, u \o Rest(p))
  BY <1>0, <1>1, <1>2 DEF Others
<1>4. n \in Statement /\ n.do = Now(p).do /\ n.memo = Now(p).memo /\ n.on = on
  BY <1>1, <1>3, AgainIs, KindIs, JobIs
<1>5. u \in Seq(Statement)
  BY <1>2, <1>4, IfIs
<1>6. Ready(n, {})'
  BY <1>4 DEF Ready, LinkReady, RowReady
<1>7. /\ \A i \in DOMAIN u : Ready(u[i], Before(u, i))'
      /\ on # {} => All(u) = {n}
  BY <1>2, <1>6, OneReady
<1>8. RowEffect(Now(p), All(u))
  BY <1>0, <1>4, <1>7 DEF RowEffect
<1> QED BY <1>3, <1>5, <1>7, <1>8, RowResume

LEMMA LinksExecute ==
  ASSUME TypeInv, LinksAlive, Apart, AllPrepared, NEW p \in Procs,
         InsertMemo(p) \/ InsertAttachment(p) \/ UpdateAttachment(p) \/ DeleteReferences(p)
           \/ InsertReference(p) \/ InsertComment(p),
         Busy(p)
  PROVE  LinksAlive' /\ AllPrepared'
<1> USE DEF BreakOff
<1>1. Ready(Now(p), {})
  BY FirstReady DEF AllPrepared
<1>2. Now(p).do \in {"insert", "upload", "attach", "unrefer", "refer", "comment"}
  BY DEF InsertMemo, InsertAttachment, UpdateAttachment, DeleteReferences, InsertReference,
     InsertComment, At
<1>3. job[p].links
  BY <1>2, ByKind DEF Linking
<1>4. owner \in [Attachments -> (0..MaxMemos) \cup {None}]
  BY DEF TypeInv, TablesTyped
<1>5. CASE InsertMemo(p)
  <2>1. AllPrepared'
    BY <1>3, <1>5, LinkGoesOn DEF InsertMemo
  <2> QED BY <1>5, <2>1 DEF InsertMemo, LinksAlive
<1>6. CASE InsertAttachment(p)
  <2>1. PICK a \in Now(p).on :
          \/ owner[a] = None /\ owner' = [owner EXCEPT ![a] = Now(p).memo] /\ GoOn(p)
          \/ owner[a] # None /\ UNCHANGED owner /\ Continue(p, <<>>)
    BY <1>6 DEF InsertAttachment
  <2>2. UNCHANGED <<memos, relations>> /\ Now(p).do = "upload"
    BY <1>6 DEF InsertAttachment, At
  <2>3. AllPrepared'
    BY <1>3, <2>1, <2>2, LinkGoesOn, StopReady
  <2>4. Now(p).memo \in memos \cup {Loose}
    BY <1>1, <2>2 DEF Ready, LinkReady
  <2> QED BY <1>4, <2>1, <2>2, <2>3, <2>4 DEF LinksAlive
<1>7. CASE UpdateAttachment(p)
  <2>1. PICK a \in Now(p).on :
          \/ /\ owner' = [owner EXCEPT ![a] = Now(p).memo]
             /\ Continue(p, Others(p, a))
          \/ owner[a] = None /\ UNCHANGED owner /\ Continue(p, <<>>)
    BY <1>7 DEF UpdateAttachment
  <2>2. UNCHANGED <<memos, relations>> /\ Now(p).do = "attach"
    BY <1>7 DEF UpdateAttachment, At
  <2>3. AllPrepared'
    BY <1>3, <2>1, <2>2, LinkOthers, StopReady
  <2>4. Now(p).memo \in memos
    BY <1>1, <2>2 DEF Ready, LinkReady
  <2> QED BY <1>4, <2>1, <2>2, <2>3, <2>4 DEF LinksAlive
<1>8. CASE DeleteReferences(p)
  <2>1. AllPrepared'
    BY <1>2, <1>3, <1>8, LinkGoesOn DEF DeleteReferences, At
  <2> QED BY <1>8, <2>1 DEF DeleteReferences, LinksAlive
<1>9. CASE InsertReference(p)
  <2>1. PICK m \in Now(p).on :
          \/ /\ m \in memos /\ relations' = relations \cup {<<Now(p).memo, m, "REFERENCE">>}
             /\ Continue(p, Others(p, m))
          \/ m \notin memos /\ UNCHANGED relations /\ Continue(p, <<>>)
    BY <1>9 DEF InsertReference
  <2>2. UNCHANGED <<memos, owner>> /\ Now(p).do = "refer"
    BY <1>9 DEF InsertReference, At
  <2>3. AllPrepared'
    BY <1>3, <2>1, <2>2, LinkOthers, StopReady
  <2>4. Now(p).memo \in memos
    BY <1>1, <2>2 DEF Ready, LinkReady
  <2> QED BY <2>1, <2>2, <2>3, <2>4 DEF LinksAlive
<1>10. CASE InsertComment(p)
  <2> DEFINE c == Now(p).memo
  <2>1. PICK m \in Now(p).on :
          \/ /\ c \in memos /\ relations' = relations \cup {<<c, m, "COMMENT">>}
             /\ GoOn(p)
          \/ UNCHANGED relations /\ Continue(p, <<>>)
    BY <1>10 DEF InsertComment
  <2>2. UNCHANGED <<memos, owner>> /\ Now(p).do = "comment"
    BY <1>10 DEF InsertComment, At
  <2>3. AllPrepared'
    BY <1>3, <2>1, <2>2, LinkGoesOn, StopReady
  <2>4. m \in memos
    BY <1>1, <2>2 DEF Ready, LinkReady
  <2> HIDE DEF c
  <2> QED BY <2>1, <2>2, <2>3, <2>4 DEF LinksAlive
<1> QED BY <1>5, <1>6, <1>7, <1>8, <1>9, <1>10

LEMMA RowsExecute ==
  ASSUME IsFiniteSet(Attachments), Cardinality(Attachments) =< ListLimit,
         TypeInv, LinksAlive, Apart, AllPrepared, NEW p \in Procs,
         ListComments(p) \/ DeleteRelations(p) \/ ListForDelete(p) \/ DeleteRow(p), Busy(p)
  PROVE  LinksAlive' /\ AllPrepared'
<1>1. Now(p).do \in {"comments", "from", "to", "attachments", "row"}
  BY DEF ListComments, DeleteRelations, ListForDelete, DeleteRow, At
<1>2. job[p].links = FALSE
  BY <1>1, ByKind DEF Deleting
<1>3. CASE ListComments(p)
  <2>1. PICK cs : cs = Comments(Now(p).memo)
    OBVIOUS
  <2>2. PICK n : n = [Now(p) EXCEPT !.on = cs]
    OBVIOUS
  <2>3. PICK u : u = If(cs, <<n>>)
    OBVIOUS
  <2>4. Now(p).do = "comments" /\ Continue(p, u \o Rest(p))
        /\ UNCHANGED <<memos, relations, owner>>
    BY <1>3, <2>1, <2>2, <2>3 DEF ListComments, At
  <2>5. cs \subseteq Ids
    BY <2>1 DEF Comments, TypeInv, TablesTyped
  <2>6. n \in Statement /\ n.do = "comments"
    BY <2>2, <2>4, <2>5, AgainIs, KindIs, JobIs
  <2>7. u \in Seq(Statement)
    BY <2>3, <2>6, IfIs
  <2>8. Ready(n, {})'
    BY <2>6 DEF Ready, LinkReady, RowReady
  <2>9. \A i \in DOMAIN u : Ready(u[i], Before(u, i))'
    BY <2>3, <2>8, OneReady
  <2>10. Shrinks /\ RowEffect(Now(p), All(u))
    BY <2>4 DEF Shrinks, RowEffect
  <2>11. AllPrepared'
    BY <1>2, <2>4, <2>7, <2>9, <2>10, RowResume
  <2> QED BY <2>4, <2>11 DEF LinksAlive
<1>4. CASE DeleteRelations(p)
  <2>1. UNCHANGED <<memos, owner>> /\ GoOn(p)
    BY <1>4 DEF DeleteRelations
  <2>2. Shrinks
    BY <1>4, <2>1 DEF DeleteRelations, Shrinks
  <2>3. RowEffect(Now(p), {})
    BY <1>4 DEF DeleteRelations, RowEffect, At
  <2>4. AllPrepared'
    BY <1>2, <2>1, <2>2, <2>3, RowGoesOn
  <2> QED BY <2>1, <2>2, <2>4 DEF LinksAlive, Shrinks
<1>5. CASE ListForDelete(p)
  <2>1. PICK L \in Listings(Now(p).memo) :
          Continue(p, If(L, <<Do("remove", 0, L)>>) \o Rest(p))
    BY <1>5 DEF ListForDelete
  <2>2. UNCHANGED <<memos, relations, owner>> /\ Now(p).do = "attachments"
    BY <1>5 DEF ListForDelete, At
  <2>3. PICK n : n = Do("remove", 0, L)
    OBVIOUS
  <2>4. PICK u : u = If(L, <<n>>)
    OBVIOUS
  <2>5. L = {a \in Attachments : owner[a] = Now(p).memo}
    BY ListedWhole
  <2>6. n.do = "remove" /\ n.on = L /\ n \in Statement
    BY <2>3, <2>5, DoIs DEF Linking
  <2>7. u \in Seq(Statement) /\ Continue(p, u \o Rest(p))
    BY <2>1, <2>3, <2>4, <2>6, IfIs
  <2>8. Ready(n, {})'
    BY <2>6 DEF Ready, LinkReady, RowReady
  <2>9. /\ \A i \in DOMAIN u : Ready(u[i], Before(u, i))'
        /\ L # {} => All(u) = {n}
    BY <2>4, <2>8, OneReady
  <2>10. Shrinks /\ RowEffect(Now(p), All(u))
    BY <2>2, <2>5, <2>6, <2>9 DEF Shrinks, RowEffect
  <2>11. AllPrepared'
    BY <1>2, <2>7, <2>9, <2>10, RowResume
  <2> QED BY <2>2, <2>11 DEF LinksAlive
<1>6. CASE DeleteRow(p)
  <2> DEFINE m == Now(p).memo
  <2>1. /\ Now(p).do = "row" /\ memos' = memos \ {m} /\ GoOn(p)
        /\ UNCHANGED <<relations, owner>>
    BY <1>6 DEF DeleteRow, At
  <2>2. Shrinks /\ RowEffect(Now(p), {})
    BY <2>1 DEF Shrinks, RowEffect
  <2>3. AllPrepared'
    BY <1>2, <2>1, <2>2, RowGoesOn
  <2>4. NoneFrom(m, {}) /\ NoneTo(m, {}) /\ NoneOn(m, {})
    BY <2>1, FirstReady DEF AllPrepared, Ready, RowReady
  <2> HIDE DEF m
  <2>5. /\ \A r \in relations : r[1] # m /\ r[2] # m
        /\ \A a \in Attachments : owner[a] # m
    BY <2>4 DEF NoneFrom, NoneTo, NoneOn
  <2> QED BY <2>1, <2>3, <2>5 DEF LinksAlive
<1> QED BY <1>3, <1>4, <1>5, <1>6

(* The statements that delete a memo come in the order its row needs. *)
LEMMA StoreDeleteReady ==
  ASSUME NEW m, NEW v, v = <<>> \/ (\E n \in Statement : v = <<n>> /\ n.do = "comments")
  PROVE  \A i \in DOMAIN (StoreDeleteMemo(m) \o v) :
           Ready((StoreDeleteMemo(m) \o v)[i], Before(StoreDeleteMemo(m) \o v, i))
<1> DEFINE a == Do("from", m, {})
           b == Do("to", m, {})
           c == Do("attachments", m, {})
           d == Do("row", m, {})
<1>1. /\ a.do = "from" /\ a.memo = m /\ b.do = "to" /\ b.memo = m
      /\ c.do = "attachments" /\ c.memo = m /\ d.do = "row" /\ d.memo = m
  BY DoIs
<1>2. StoreDeleteMemo(m) = <<a, b, c, d>>
  BY DEF StoreDeleteMemo
<1> HIDE DEF a, b, c, d
<1>3. PICK w : w = StoreDeleteMemo(m) \o v
  OBVIOUS
<1>4. \A s, B : s.do \in {"from", "to", "attachments", "comments"} => Ready(s, B)
  BY DEF Ready, LinkReady, RowReady
<1>5. \A B : {a, b, c} \subseteq B => Ready(d, B)
  BY <1>1 DEF Ready, LinkReady, RowReady, NoneFrom, NoneTo, NoneOn
<1>6. /\ DOMAIN w = 1..4 \/ (DOMAIN w = 1..5 /\ w[5].do = "comments")
      /\ w[1] = a /\ w[2] = b /\ w[3] = c /\ w[4] = d
  <2>1. CASE v = <<>>
    BY <1>2, <1>3, <2>1
  <2>2. ASSUME NEW n \in Statement, v = <<n>>, n.do = "comments"
        PROVE  DOMAIN w = 1..5 /\ w[5] = n /\ w[1] = a /\ w[2] = b /\ w[3] = c /\ w[4] = d
    BY <1>2, <1>3, <2>2
  <2> QED BY <2>1, <2>2
<1>7. {a, b, c} \subseteq Before(w, 4)
  BY <1>6 DEF Before
<1>8. ASSUME NEW i \in DOMAIN w PROVE Ready(w[i], Before(w, i))
  <2>1. i \in {1, 2, 3, 4} \/ (i = 5 /\ w[5].do = "comments")
    BY <1>6
  <2>2. CASE i = 4
    BY <1>5, <1>6, <1>7, <2>2
  <2>3. CASE i # 4
    <3>1. w[i].do \in {"from", "to", "attachments", "comments"}
      BY <1>1, <1>6, <2>1, <2>3
    <3> QED BY <1>4, <3>1
  <2> QED BY <2>2, <2>3
<1> QED BY <1>3, <1>8

LEMMA CommentExecutes ==
  ASSUME TypeInv, LinksAlive, Apart, AllPrepared, NEW p \in Procs, Busy(p), DeleteComment(p)
  PROVE  LinksAlive' /\ AllPrepared'
<1>1. PICK c \in Now(p).on : Continue(p, StoreDeleteMemo(c) \o Others(p, c))
  BY DEF DeleteComment
<1>2. Now(p).do = "comments" /\ UNCHANGED <<memos, relations, owner>>
  BY DEF DeleteComment, At
<1>3. c \in 0..MaxMemos /\ job[p].links = FALSE
  <2>1. c \in Ids /\ Now(p).do \in Deleting \ {"remove"}
    BY <1>2, NowFits DEF Deleting
  <2>2. Ids \subseteq 0..MaxMemos
    BY ConstantsOK DEF Ids
  <2> QED BY <2>1, <2>2, ByKind
<1>4. PICK on : on = Now(p).on \ {c}
  OBVIOUS
<1>5. PICK n : n = [Now(p) EXCEPT !.on = on]
  OBVIOUS
<1>6. PICK v : v = If(on, <<n>>)
  OBVIOUS
<1>7. Others(p, c) = v \o Rest(p) /\ on \subseteq Now(p).on
  BY <1>4, <1>5, <1>6 DEF Others
<1>8. n \in Statement /\ n.do = "comments"
  BY <1>2, <1>5, <1>7, AgainIs, KindIs, JobIs
<1>9. v \in Seq(Statement) /\ (v = <<>> \/ \E s \in Statement : v = <<s>> /\ s.do = "comments")
  BY <1>6, <1>8, IfIs DEF If
<1>10. PICK d : d = StoreDeleteMemo(c)
  OBVIOUS
<1>11. d \in Seq(Statement)
  BY <1>3, <1>10, DeletingIs, PlainIs, KindIs, SeqGrows
<1>12. PICK r : r = Rest(p)
  OBVIOUS
<1>13. r \in Seq(Statement)
  BY <1>12, NowIs, KindIs, JobIs, SeqGrows
<1>14. d \o (v \o r) = (d \o v) \o r /\ d \o v \in Seq(Statement)
  BY <1>9, <1>11, <1>13
<1>15. PICK u : u = d \o v
  OBVIOUS
<1>16. u \in Seq(Statement) /\ Continue(p, u \o Rest(p))
  BY <1>1, <1>7, <1>10, <1>12, <1>14, <1>15
<1>17. \A i \in DOMAIN u : Ready(u[i], Before(u, i))
  BY <1>9, <1>10, <1>15, StoreDeleteReady
<1>18. \A i \in DOMAIN u : Ready(u[i], Before(u, i))'
  BY <1>2, <1>17 DEF Ready, LinkReady, RowReady, NoneFrom, NoneTo, NoneOn
<1>19. Shrinks /\ RowEffect(Now(p), All(u))
  BY <1>2 DEF Shrinks, RowEffect
<1>20. AllPrepared'
  BY <1>3, <1>16, <1>18, <1>19, RowResume
<1> QED BY <1>2, <1>20 DEF LinksAlive

LEMMA RemovesExecute ==
  ASSUME TypeInv, LinksAlive, Apart, AllPrepared, NEW p \in Procs, Busy(p),
         RemoveAttachment(p) \/ ListForUpdate(p) \/ StatementFails(p)
  PROVE  LinksAlive' /\ AllPrepared'
<1>1. job[p].links \in BOOLEAN
  BY JobIs
<1>2. CASE RemoveAttachment(p)
  <2>1. PICK a \in Now(p).on :
          \/ /\ owner' = [owner EXCEPT ![a] = None]
             /\ Continue(p, Others(p, a))
          \/ owner[a] = None /\ UNCHANGED owner /\ Continue(p, <<>>)
    BY <1>2 DEF RemoveAttachment, BreakOff
  <2>2. UNCHANGED <<memos, relations>> /\ Now(p).do = "remove"
    BY <1>2 DEF RemoveAttachment, At
  <2>3. a \in Attachments /\ owner \in [Attachments -> (0..MaxMemos) \cup {None}]
    BY <2>2, NowFits DEF TypeInv, TablesTyped
  <2>4. CASE Continue(p, <<>>) /\ UNCHANGED owner
    BY <2>2, <2>4, StopReady DEF LinksAlive
  <2>5. CASE owner' = [owner EXCEPT ![a] = None] /\ Continue(p, Others(p, a))
    <3>1. Shrinks /\ owner'[a] = None
      BY <2>2, <2>3, <2>5 DEF Shrinks
    <3>2. AllPrepared'
      <4>1. CASE job[p].links
        BY <2>2, <2>5, <4>1, LinkOthers
      <4>2. CASE job[p].links = FALSE
        BY <2>2, <2>5, <3>1, <4>2, RowOthers
      <4> QED BY <1>1, <4>1, <4>2
    <3> QED BY <2>2, <3>1, <3>2 DEF LinksAlive, Shrinks
  <2> QED BY <2>1, <2>4, <2>5
<1>3. CASE ListForUpdate(p)
  <2>1. PICK L \in Listings(Now(p).memo) :
          Continue(p, If(L \ Now(p).on, <<Do("remove", 0, L \ Now(p).on)>>) \o Rest(p))
    BY <1>3 DEF ListForUpdate
  <2>2. UNCHANGED <<memos, relations, owner>> /\ Now(p).do = "listed"
    BY <1>3 DEF ListForUpdate, At
  <2>3. PICK on : on = L \ Now(p).on
    OBVIOUS
  <2>4. PICK n : n = Do("remove", 0, on)
    OBVIOUS
  <2>5. PICK u : u = If(on, <<n>>)
    OBVIOUS
  <2>6. on \subseteq Attachments
    BY <2>3 DEF Listings
  <2>7. n.do = "remove" /\ n \in Statement
    BY <2>4, <2>6, DoIs DEF Linking
  <2>8. u \in Seq(Statement) /\ Continue(p, u \o Rest(p))
    BY <2>1, <2>3, <2>4, <2>5, <2>7, IfIs
  <2>9. Ready(n, {})'
    BY <2>7 DEF Ready, LinkReady, RowReady
  <2>10. \A i \in DOMAIN u : Ready(u[i], Before(u, i))'
    BY <2>5, <2>9, OneReady
  <2>11. job[p].links
    BY <2>2, ByKind DEF Linking
  <2>12. AllPrepared'
    BY <2>2, <2>8, <2>10, <2>11, LinkResume
  <2> QED BY <2>2, <2>12 DEF LinksAlive
<1>4. CASE StatementFails(p)
  <2>1. Continue(p, <<>>) /\ UNCHANGED <<memos, relations, owner>>
    BY <1>4 DEF StatementFails, BreakOff
  <2> QED BY <2>1, StopReady DEF LinksAlive
<1> QED BY <1>2, <1>3, <1>4

-----------------------------------------------------------------------------
(* Requests *)

LEMMA BeginReady ==
  ASSUME Alone, TypeInv, LinksAlive, Apart, AllPrepared, NEW p \in Procs,
         NEW links \in BOOLEAN, NEW todo, Begin(p, links, todo), Prepared(todo)
  PROVE  LinksAlive' /\ Apart' /\ AllPrepared'
<1>1. /\ job'[p] = [todo |-> todo, links |-> links]
      /\ \A q \in Procs \ {p} : job'[q] = job[q]
      /\ UNCHANGED <<memos, relations, owner>> /\ ~Busy(p)
      /\ AllIdle \/ ~(links \/ \E q \in Procs : job[q].links)
  BY DEF Begin, TypeInv, JobsTyped
<1>2. \A s, B : Ready(s, B) => Ready(s, B)'
  BY <1>1 DEF Ready, LinkReady, RowReady, NoneFrom, NoneTo, NoneOn
<1>3. Prepared(job[p].todo)'
  BY <1>1, <1>2 DEF Prepared
<1>4. ASSUME NEW q \in Procs \ {p} PROVE Prepared(job[q].todo)'
  BY <1>1, <1>2, <1>4, OthersReady DEF AllPrepared
<1>5. AllPrepared'
  BY <1>3, <1>4 DEF AllPrepared
<1>6. Apart'
  <2>1. CASE AllIdle
    BY <1>1, <2>1 DEF Apart, AllIdle, Busy
  <2>2. CASE ~links /\ \A q \in Procs : ~job[q].links
    BY <1>1, <2>2 DEF Apart
  <2> QED BY <1>1, <2>1, <2>2
<1> QED BY <1>1, <1>5, <1>6 DEF LinksAlive

LEMMA AnyReady ==
  ASSUME NEW S, NEW v \in Seq(S), \A s \in S : \A B : Ready(s, B)
  PROVE  Prepared(v)
<1>1. \A i \in DOMAIN v : v[i] \in S
  OBVIOUS
<1> QED BY <1>1 DEF Prepared

LEMMA SingleReady ==
  ASSUME NEW s, \A B : Ready(s, B)
  PROVE  Prepared(<<s>>)
BY DEF Prepared

LEMMA LeadReady ==
  ASSUME NEW S, NEW v \in Seq(S), NEW l, \A B : Ready(l, B),
         \A s \in S : \A B : l \in B => Ready(s, B)
  PROVE  Prepared(<<l>> \o v)
<1>1. PICK w : w = <<l>> \o v
  OBVIOUS
<1>2. w[1] = l /\ \A i \in DOMAIN w : i = 1 \/ (i > 1 /\ i \in Nat /\ w[i] \in S)
  BY <1>1
<1>3. \A i \in DOMAIN w : i > 1 => l \in Before(w, i)
  BY <1>1, <1>2 DEF Before
<1>4. ASSUME NEW i \in DOMAIN w PROVE Ready(w[i], Before(w, i))
  BY <1>2, <1>3
<1> QED BY <1>1, <1>4 DEF Prepared

LEMMA AboutReady ==
  ASSUME NEW m, NEW s \in About(m), NEW B,
         m \in memos \/ \E b \in B : b.do = "insert" /\ b.memo = m
  PROVE  Ready(s, B)
<1>1. s.memo = m /\ s.do \notin {"upload", "comment", "row"}
  BY KindsDiffer DEF About, Plain
<1> QED BY <1>1 DEF Ready, LinkReady, RowReady

LEMMA RequestReady ==
  ASSUME Alone, TypeInv, LinksAlive, Apart, AllPrepared, NEW p \in Procs, Request(p)
  PROVE  LinksAlive' /\ Apart' /\ AllPrepared'
<1>0. memos \subseteq Ids /\ memos \subseteq 0..MaxMemos
      /\ 1..made \subseteq Ids
  BY ConstantsOK DEF TypeInv, TablesTyped, Ids
<1>1. PICK new, l : new = New /\ l = Do("insert", new, {})
  OBVIOUS
<1>2. l.do = "insert" /\ l.memo = new /\ \A B : Ready(l, B)
  BY <1>1, DoIs DEF Ready, LinkReady, RowReady
<1>3. ASSUME NEW s \in About(new), NEW B, l \in B PROVE Ready(s, B)
  BY <1>2, <1>3, AboutReady
<1>4. CASE CreateMemo(p)
  <2>1. PICK as \in SUBSET Attachments, ms \in SUBSET (1..made) :
          Begin(p, TRUE, CreateMemoBody(as, ms))
    BY <1>4 DEF CreateMemo
  <2>2. PICK u \in Seq(About(new)) : CreateMemoBody(as, ms) = <<l>> \o u
    BY <1>1, <1>4, CreatingIs DEF CreateMemo
  <2>3. Prepared(<<l>> \o u)
    BY <1>2, <1>3, LeadReady
  <2> QED BY <2>1, <2>2, <2>3, BeginReady
<1>5. ASSUME NEW m \in memos, CreateMemoComment(p, m) PROVE LinksAlive' /\ Apart' /\ AllPrepared'
  <2>1. PICK as \in SUBSET Attachments, ms \in SUBSET (1..made) :
          Begin(p, TRUE, CreateMemoBody(as, ms) \o <<Do("comment", New, {m})>>)
    BY <1>5 DEF CreateMemoComment
  <2>2. PICK u \in Seq(About(new)) : CreateMemoBody(as, ms) = <<l>> \o u
    BY <1>1, <1>5, CreatingIs DEF CreateMemoComment
  <2>3. PICK c : c = Do("comment", new, {m})
    OBVIOUS
  <2>4. c.do = "comment" /\ c.memo = new /\ c.on = {m}
    BY <2>3, DoIs
  <2> DEFINE S == About(new) \cup {c}
  <2>5. ASSUME NEW s \in S, NEW B, l \in B PROVE Ready(s, B)
    <3>1. CASE s = c
      BY <1>2, <2>4, <2>5, <3>1 DEF Ready, LinkReady, RowReady
    <3> QED BY <1>3, <2>5, <3>1
  <2>6. u \in Seq(S) /\ c \in S
    BY SeqGrows
  <2> HIDE DEF S
  <2>7. u \o <<c>> \in Seq(S)
    BY <2>6, SeqBasics
  <2>8. PICK w : w = u \o <<c>> /\ w \in Seq(S)
    BY <2>7
  <2>9. Prepared(<<l>> \o w)
    BY <1>2, <2>5, <2>8, LeadReady
  <2>10. (<<l>> \o u) \o <<c>> = <<l>> \o w
    <3>1. PICK T : T = S \cup {l}
      OBVIOUS
    <3>2. l \in T /\ u \in Seq(T) /\ <<c>> \in Seq(T)
      BY <2>6, <3>1, SeqGrows, SeqBasics
    <3> QED BY <2>8, <3>2, SeqAssociates
  <2> QED BY <1>1, <2>1, <2>2, <2>3, <2>9, <2>10, BeginReady
<1>6. ASSUME NEW m \in memos, SetMemo(p, m) PROVE LinksAlive' /\ Apart' /\ AllPrepared'
  <2>1. m \in Ids
    BY <1>0
  <2>2. \A s \in About(m) : \A B : Ready(s, B)
    BY AboutReady
  <2>3. ASSUME NEW as \in SUBSET Attachments, Begin(p, TRUE, SetMemoAttachments(m, as))
        PROVE  LinksAlive' /\ Apart' /\ AllPrepared'
    <3>1. PICK w : w = SetMemoAttachments(m, as)
      OBVIOUS
    <3>2. w \in Seq(About(m))
      BY <2>1, <3>1, SettingIs
    <3> QED BY <2>2, <2>3, <3>1, <3>2, AnyReady, BeginReady
  <2>4. ASSUME NEW ms \in SUBSET (1..made), Begin(p, TRUE, SetMemoRelations(m, ms))
        PROVE  LinksAlive' /\ Apart' /\ AllPrepared'
    <3>1. PICK w : w = SetMemoRelations(m, ms)
      OBVIOUS
    <3>2. w \in Seq(About(m))
      BY <1>0, <2>1, <3>1, SettingIs
    <3> QED BY <2>2, <2>4, <3>1, <3>2, AnyReady, BeginReady
  <2> QED BY <1>6, <2>3, <2>4 DEF SetMemo
<1>7. ASSUME NEW m \in memos, DeleteMemo(p, m) \/ DeleteMemoByMCP(p, m)
      PROVE  LinksAlive' /\ Apart' /\ AllPrepared'
  <2>1. PICK d : d = StoreDeleteMemo(m)
    OBVIOUS
  <2>2. d \in Seq(Statement)
    BY <1>0, <2>1, DeletingIs, PlainIs, KindIs, SeqGrows
  <2>3. Prepared(d)
    <3>1. d \o <<>> = d
      BY <2>2
    <3> QED BY <2>1, <3>1, StoreDeleteReady DEF Prepared
  <2>4. CASE DeleteMemoByMCP(p, m)
    BY <2>1, <2>3, <2>4, BeginReady DEF DeleteMemoByMCP
  <2>5. CASE DeleteMemo(p, m)
    <3>1. PICK w : w = WithComments(m)
      OBVIOUS
    <3>2. Prepared(w)
      <4> DEFINE a == Do("from", m, {})
                 b == Do("to", m, {})
                 c == Do("attachments", m, {})
                 r == Do("row", m, {})
                 e == Do("comments", m, {})
      <4>1. /\ a.do = "from" /\ a.memo = m /\ b.do = "to" /\ b.memo = m
            /\ c.do = "attachments" /\ c.memo = m /\ r.do = "row" /\ r.memo = m
            /\ e.do = "comments"
        BY DoIs
      <4>2. w = <<e>> \o <<a, b, c, r>>
        BY <3>1 DEF WithComments, StoreDeleteMemo
      <4> HIDE DEF a, b, c, r, e
      <4>3. DOMAIN w = 1..5 /\ w[1] = e /\ w[2] = a /\ w[3] = b /\ w[4] = c /\ w[5] = r
        BY <4>2
      <4>4. \A s, B : s.do \in {"from", "to", "attachments", "comments"} => Ready(s, B)
        BY DEF Ready, LinkReady, RowReady
      <4>5. {a, b, c} \subseteq Before(w, 5)
        BY <4>3 DEF Before
      <4>6. Ready(r, Before(w, 5))
        BY <4>1, <4>5 DEF Ready, LinkReady, RowReady, NoneFrom, NoneTo, NoneOn
      <4>7. ASSUME NEW i \in DOMAIN w PROVE Ready(w[i], Before(w, i))
        <5>1. CASE i = 5
          BY <4>3, <4>6, <5>1
        <5>2. CASE i # 5
          <6>1. w[i] \in {e, a, b, c}
            BY <4>3, <5>2
          <6> QED BY <4>1, <4>4, <6>1
        <5> QED BY <5>1, <5>2
      <4> QED BY <4>7 DEF Prepared
    <3> QED BY <2>5, <3>1, <3>2, BeginReady DEF DeleteMemo
  <2> QED BY <1>7, <2>4, <2>5
<1>8. ASSUME NEW a \in Attachments, DeleteAttachment(p, a)
      PROVE  LinksAlive' /\ Apart' /\ AllPrepared'
  <2>1. PICK s : s = Do("remove", 0, {a})
    OBVIOUS
  <2>2. \A B : Ready(s, B)
    BY <2>1, DoIs DEF Ready, LinkReady, RowReady
  <2>3. Prepared(<<s>>)
    BY <2>2, SingleReady
  <2> QED BY <1>8, <2>1, <2>3, BeginReady DEF DeleteAttachment
<1>9. ASSUME NEW a \in Attachments, NEW m \in memos \cup {Loose}, CreateAttachment(p, a, m)
      PROVE  LinksAlive' /\ Apart' /\ AllPrepared'
  <2>1. PICK s : s = Do("upload", m, {a})
    OBVIOUS
  <2>2. \A B : Ready(s, B)
    BY <2>1, DoIs DEF Ready, LinkReady, RowReady
  <2>3. Prepared(<<s>>)
    BY <2>2, SingleReady
  <2> QED BY <1>9, <2>1, <2>3, BeginReady DEF CreateAttachment
<1> QED BY <1>4, <1>5, <1>6, <1>7, <1>8, <1>9 DEF Request

LEMMA InitLinks == Init => LinksInv
<1> SUFFICES ASSUME Init PROVE LinksInv
  OBVIOUS
<1>1. job = [p \in Procs |-> Idle] /\ Idle.todo = <<>>
  BY DEF Init, Idle
<1>2. \A p \in Procs : ~Busy(p) /\ Prepared(job[p].todo)
  BY <1>1 DEF Busy, Prepared
<1>3. LinksAlive
  BY DEF Init, LinksAlive
<1> QED BY <1>2, <1>3, InitType DEF LinksInv, Apart, AllPrepared

LEMMA NextLinks ==
  ASSUME Alone, IsFiniteSet(Attachments), Cardinality(Attachments) =< ListLimit,
         LinksInv, [Next]_vars
  PROVE  LinksInv'
<1> USE DEF LinksInv
<1>0. TypeInv'
  BY NextType
<1>1. CASE UNCHANGED vars
  BY <1>0, <1>1 DEF vars, LinksAlive, Apart, Busy, Prepared, Ready, LinkReady, RowReady, NoneFrom,
     NoneTo, NoneOn, AllPrepared
<1>2. CASE Crash
  <2>1. \A p \in Procs : job'[p].todo = <<>>
    BY <1>2 DEF Crash, Idle
  <2> QED BY <1>0, <1>2, <2>1 DEF Crash, LinksAlive, Apart, Busy, Prepared, AllPrepared
<1>3. ASSUME NEW p \in Procs, Request(p) PROVE LinksInv'
  BY <1>0, <1>3, RequestReady
<1>4. ASSUME NEW p \in Procs, Execute(p) PROVE LinksInv'
  <2>1. LinksAlive' /\ AllPrepared'
    BY <1>0, <1>4, LinksExecute, RowsExecute, CommentExecutes, RemovesExecute DEF Execute
  <2>2. Busy(p) /\ \E todo : Continue(p, todo)
    BY <1>4 DEF Execute, InsertMemo, InsertAttachment, ListForUpdate, UpdateAttachment,
       DeleteReferences, InsertReference, InsertComment, ListComments, DeleteComment,
       DeleteRelations, ListForDelete, RemoveAttachment, DeleteRow, StatementFails, GoOn, BreakOff
  <2>3. Apart'
    BY <2>2, ApartContinues
  <2> QED BY <1>0, <2>1, <2>3
<1> QED BY <1>1, <1>2, <1>3, <1>4 DEF Next

(* While no other request is busy beside one that makes links, and no memo   *)
(* has more attachments than one listing returns, no relation and no         *)
(* attachment ever points at a memo that is gone: any number of deletions of *)
(* memos, comments and attachments may overlap, fail and be cut short        *)
(* (store.DeleteMemo deletes the row last).                                  *)
THEOREM LinksStayAlive ==
  ASSUME Alone, IsFiniteSet(Attachments), Cardinality(Attachments) =< ListLimit
  PROVE  Spec => []LinksAlive
<1>1. LinksInv /\ [Next]_vars => LinksInv'
  BY NextLinks
<1>2. LinksInv => LinksAlive
  BY DEF LinksInv
<1> QED BY <1>1, <1>2, InitLinks, PTL DEF Spec

-----------------------------------------------------------------------------
(* CommentsGo *)

(* A request still has the statement to carry out. *)
Pending(do, m) == \E q \in Procs : \E s \in All(job[q].todo) : s.do = do /\ s.memo = m

IsComment(c) == \E r \in relations : r[1] = c /\ r[3] = "COMMENT"
HasComments(m) == \E c \in Ids : under[c] = m

(* What was noted of memos is of memos that were made. *)
Noted ==
  \A c \in Ids : (c > made => under[c] = 0 /\ ~IsComment(c)) /\ (under[c] # None => under[c] =< made)

(* While no request has broken off: a comment on a memo of its own is found  *)
(* as one or is about to be deleted; comments are counted on no other than   *)
(* the memo they are related to; and what is related to a memo without       *)
(* being counted was left to itself by a deletion that has yet to unrelate it. *)
Stays ==
  \A c \in memos : under[c] \notin {0, None} => c \in Comments(under[c]) \/ Pending("row", c)
TopLevel == \A c \in Ids : IsComment(c) => ~HasComments(c)
Rooted ==
  \A r \in relations : r[3] = "COMMENT" =>
    under[r[1]] \in {r[2], None} \/ (under[r[1]] = 0 /\ Pending("to", r[2]))

(* A statement may be reached after those of B: a memo is made a comment     *)
(* once and before it has any; the comments a deletion works through have    *)
(* none; a memo's comments go before the relations to it.                    *)
Heard(s, B) ==
  /\ s.do \in {"insert", "comment"} => under[s.memo] = 0 /\ ~HasComments(s.memo) /\ ~IsComment(s.memo)
  /\ s.do = "comment" => s.on \subseteq 1..made /\ s.memo \notin s.on
  /\ s.do = "comments" => \A c \in s.on : ~HasComments(c)
  /\ s.do = "from" /\ s.memo \in memos => Pending("row", s.memo)
  /\ s.do = "to" => s.memo # 0 /\ \A c \in memos : under[c] = s.memo =>
       \/ Pending("row", c)
       \/ \E b \in B : b.do = "comments" /\ b.memo = s.memo /\ (b.on = {} \/ c \in b.on)

WellHeard(t) == \A i \in DOMAIN t : Heard(t[i], Before(t, i))
AllHeard == \A q \in Procs : WellHeard(job[q].todo)

LastComment(t) == \A i \in DOMAIN t : t[i].do = "comment" => i = Len(t)
AllLast == \A q \in Procs : LastComment(job[q].todo)

TalkOk == Noted /\ Stays /\ TopLevel /\ Rooted /\ AllHeard /\ AllLast
TalkInv == TypeInv /\ Apart /\ (whole => TalkOk)

(* The statements of a list. *)
LEMMA AllJoins ==
  ASSUME NEW S, NEW t \in Seq(S), t # <<>>, NEW u \in Seq(S)
  PROVE  /\ All(u \o Tail(t)) = All(u) \cup All(Tail(t))
         /\ All(t) = {Head(t)} \cup All(Tail(t))
<1> DEFINE r == Tail(t)
           w == u \o r
<1>1. /\ r \in Seq(S) /\ Len(r) \in Nat /\ Len(u) \in Nat /\ Len(t) \in Nat /\ Len(t) = Len(r) + 1
      /\ DOMAIN r = 1..Len(r) /\ DOMAIN u = 1..Len(u) /\ DOMAIN t = 1..(Len(r) + 1)
      /\ Head(t) = t[1] /\ \A k \in 1..Len(r) : r[k] = t[k + 1]
  OBVIOUS
<1> HIDE DEF r
<1>2. /\ DOMAIN w = 1..(Len(u) + Len(r))
      /\ \A k \in 1..(Len(u) + Len(r)) : w[k] = IF k =< Len(u) THEN u[k] ELSE r[k - Len(u)]
  BY <1>1
<1> HIDE DEF w
<1>3. \A i \in DOMAIN w : w[i] \in All(u) \cup All(r)
  <2>1. ASSUME NEW i \in DOMAIN w, i =< Len(u) PROVE i \in DOMAIN u /\ w[i] = u[i]
    BY <1>1, <1>2, <2>1
  <2>2. ASSUME NEW i \in DOMAIN w, ~(i =< Len(u))
        PROVE  i - Len(u) \in DOMAIN r /\ w[i] = r[i - Len(u)]
    BY <1>1, <1>2, <2>2
  <2> QED BY <2>1, <2>2 DEF All
<1>4. \A i \in DOMAIN u : i \in DOMAIN w /\ w[i] = u[i]
  BY <1>1, <1>2
<1>5. ASSUME NEW i \in DOMAIN r PROVE Len(u) + i \in DOMAIN w /\ w[Len(u) + i] = r[i]
  BY <1>1, <1>2
<1>6. All(w) = All(u) \cup All(r)
  BY <1>3, <1>4, <1>5 DEF All
<1>7. \A i \in DOMAIN t : i = 1 \/ (i - 1 \in DOMAIN r /\ t[i] = r[i - 1])
  BY <1>1
<1>8. \A i \in DOMAIN r : i + 1 \in DOMAIN t /\ r[i] = t[i + 1]
  BY <1>1
<1>9. 1 \in DOMAIN t
  BY <1>1
<1>10. All(t) = {Head(t)} \cup All(r)
  <2>1. {Head(t)} \cup All(r) \subseteq All(t)
    BY <1>1, <1>8, <1>9 DEF All
  <2>2. ASSUME NEW i \in DOMAIN t PROVE t[i] \in {Head(t)} \cup All(r)
    BY <1>1, <1>7 DEF All
  <2>3. All(t) \subseteq {Head(t)} \cup All(r)
    BY <2>2 DEF All
  <2> QED BY <2>1, <2>3
<1> QED BY <1>6, <1>10 DEF w, r

LEMMA TodoIs ==
  ASSUME TypeInv, NEW p \in Procs, Busy(p), NEW u \in Seq(Statement), Continue(p, u \o Rest(p))
  PROVE  /\ All(job'[p].todo) = All(u) \cup All(Rest(p))
         /\ All(job[p].todo) = {Now(p)} \cup All(Rest(p))
         /\ \A q \in Procs \ {p} : job'[q] = job[q]
<1>1. PICK t, w, r : t = job[p].todo /\ w = u \o Rest(p) /\ r = Rest(p)
  OBVIOUS
<1>2. t \in Seq(Statement) /\ t # <<>> /\ r = Tail(t) /\ Now(p) = Head(t)
  BY <1>1, JobIs DEF Busy, Rest, Now
<1>3. All(w) = All(u) \cup All(r) /\ All(t) = {Head(t)} \cup All(r)
  BY <1>1, <1>2, AllJoins
<1>4. job'[p].todo = w /\ \A q \in Procs \ {p} : job'[q] = job[q]
  BY <1>1, ContinueIs
<1> QED BY <1>1, <1>2, <1>3, <1>4

(* A pending statement stays so until it is carried out; what is put in the  *)
(* place of the first is pending.                                            *)
LEMMA PendingStays ==
  ASSUME TypeInv, NEW p \in Procs, Busy(p), NEW u \in Seq(Statement), Continue(p, u \o Rest(p)),
         NEW do, NEW m, Pending(do, m), ~(Now(p).do = do /\ Now(p).memo = m)
  PROVE  Pending(do, m)'
<1>1. PICK q \in Procs : \E s \in All(job[q].todo) : s.do = do /\ s.memo = m
  BY DEF Pending
<1>2. CASE q = p
  BY <1>1, <1>2, TodoIs DEF Pending
<1>3. CASE q # p
  <2>1. job'[q] = job[q]
    BY <1>3, TodoIs
  <2> QED BY <1>1, <2>1 DEF Pending, All
<1> QED BY <1>2, <1>3

LEMMA PendingComes ==
  ASSUME TypeInv, NEW p \in Procs, Busy(p), NEW u \in Seq(Statement), Continue(p, u \o Rest(p)),
         NEW s \in All(u)
  PROVE  Pending(s.do, s.memo)'
BY TodoIs DEF Pending

LEMMA LastResume ==
  ASSUME TypeInv, NEW p \in Procs, Busy(p), NEW u \in Seq(Statement), Continue(p, u \o Rest(p)),
         AllLast, \A s \in All(u) : s.do # "comment"
  PROVE  AllLast'
<1>1. PICK t, w, r : t = job[p].todo /\ w = u \o Rest(p) /\ r = Rest(p)
  OBVIOUS
<1>2. t \in Seq(Statement) /\ t # <<>> /\ r = Tail(t) /\ LastComment(t) /\ w = u \o r
  BY <1>1, JobIs DEF Busy, Rest, Now, AllLast
<1>3. job'[p].todo = w /\ \A q \in Procs \ {p} : job'[q] = job[q]
  BY <1>1, ContinueIs
<1>4. /\ r \in Seq(Statement) /\ Len(r) \in Nat /\ Len(u) \in Nat /\ Len(t) = Len(r) + 1
      /\ DOMAIN r = 1..Len(r) /\ DOMAIN u = 1..Len(u) /\ DOMAIN t = 1..(Len(r) + 1)
      /\ \A k \in 1..Len(r) : r[k] = t[k + 1]
  BY <1>2
<1>5. /\ Len(w) = Len(u) + Len(r) /\ DOMAIN w = 1..(Len(u) + Len(r))
      /\ \A k \in 1..(Len(u) + Len(r)) : w[k] = IF k =< Len(u) THEN u[k] ELSE r[k - Len(u)]
  BY <1>2, <1>4
<1>6. ASSUME NEW i \in DOMAIN w, w[i].do = "comment" PROVE i = Len(w)
  <2>1. CASE i =< Len(u)
    <3>1. w[i] \in All(u)
      BY <1>4, <1>5, <2>1 DEF All
    <3> QED BY <1>6, <3>1
  <2>2. CASE i > Len(u)
    <3> DEFINE k == i - Len(u)
    <3>1. k \in 1..Len(r) /\ w[i] = r[k] /\ k + 1 \in DOMAIN t
      BY <1>4, <1>5, <2>2
    <3>2. r[k] = t[k + 1]
      BY <1>4, <3>1
    <3>3. k + 1 = Len(t)
      BY <1>2, <1>6, <3>1, <3>2 DEF LastComment
    <3> QED BY <1>4, <1>5, <3>1, <3>3
  <2> QED BY <1>4, <1>5, <2>1, <2>2
<1>7. LastComment(w)
  BY <1>6 DEF LastComment
<1>8. ASSUME NEW q \in Procs PROVE LastComment(job'[q].todo)
  BY <1>3, <1>7 DEF AllLast
<1> QED BY <1>8 DEF AllLast, LastComment

(* What a statement n does about comments, with those of A put in its place: *)
(* a row is gone, and so is what is related to a memo; nothing else unrelates *)
(* a comment, and none is made; the comments on a memo are worked through.   *)
TalkEffect(n, A) ==
  /\ n.do = "row" => n.memo \notin memos'
  /\ n.do = "to" => \A r \in relations' : r[2] # n.memo
  /\ \A r \in relations' : r[3] = "COMMENT" => r \in relations
  /\ \A r \in relations : r[3] = "COMMENT" =>
       r \in relations' \/ (n.do = "from" /\ n.memo = r[1]) \/ (n.do = "to" /\ n.memo = r[2])
  /\ \A c \in memos' : c \in memos \/ (n.do = "insert" /\ c = n.memo)
  /\ n.do = "comments" /\ n.memo # 0 =>
       \A c \in memos : under[c] = n.memo /\ (n.on = {} \/ c \in n.on) =>
         \/ Pending("row", c)'
         \/ \E b \in A : b.do = "comments" /\ b.memo = n.memo /\ (b.on = {} \/ c \in b.on)

LEMMA HeardStep ==
  ASSUME TypeInv, NEW p \in Procs, Busy(p), NEW u \in Seq(Statement), Continue(p, u \o Rest(p)),
         UNCHANGED <<made, under>>, TalkEffect(Now(p), All(u)),
         NEW s, Now(p).do = "insert" => s.do \notin {"from", "to"}, NEW B, NEW C,
         B \subseteq C \/ (B \subseteq {Now(p)} \cup C /\ All(u) \subseteq C), Heard(s, B)
  PROVE  Heard(s, C)'
<1>1. PICK n, A : n = Now(p) /\ A = All(u)
  OBVIOUS
<1>2. TalkEffect(n, A) /\ (B \subseteq C \/ (B \subseteq {n} \cup C /\ A \subseteq C))
  BY <1>1
<1>3. ASSUME NEW c \in memos', Pending("row", c) PROVE Pending("row", c)'
  <2>1. ~(n.do = "row" /\ n.memo = c)
    BY <1>2, <1>3 DEF TalkEffect
  <2> QED BY <1>1, <1>3, <2>1, PendingStays
<1>4. \A c : IsComment(c)' => IsComment(c)
  BY <1>2 DEF TalkEffect, IsComment
<1>5. \A c : HasComments(c)' <=> HasComments(c)
  BY DEF HasComments
<1>6. s.do \in {"from", "to"} => \A c \in memos' : c \in memos
  BY <1>1, <1>2 DEF TalkEffect
<1>7. s.do \in {"insert", "comment"} => (under[s.memo] = 0 /\ ~HasComments(s.memo) /\ ~IsComment(s.memo))'
  BY <1>4, <1>5 DEF Heard
<1>8. s.do = "comment" => s.on \subseteq 1..made' /\ s.memo \notin s.on
  BY DEF Heard
<1>9. s.do = "comments" => \A c \in s.on : ~HasComments(c)'
  BY <1>5 DEF Heard
<1>10. s.do = "from" /\ s.memo \in memos' => Pending("row", s.memo)'
  BY <1>3, <1>6 DEF Heard
<1>11. ASSUME s.do = "to" PROVE s.memo # 0
  BY <1>11 DEF Heard
<1>12. ASSUME s.do = "to", NEW c \in memos', under'[c] = s.memo
       PROVE  \/ Pending("row", c)'
              \/ \E b \in C : b.do = "comments" /\ b.memo = s.memo /\ (b.on = {} \/ c \in b.on)
  <2>1. c \in memos /\ under[c] = s.memo
    BY <1>6, <1>12
  <2>2. \/ Pending("row", c)
        \/ \E b \in B : b.do = "comments" /\ b.memo = s.memo /\ (b.on = {} \/ c \in b.on)
    BY <1>12, <2>1 DEF Heard
  <2>3. ASSUME NEW b \in B, b.do = "comments", b.memo = s.memo, b.on = {} \/ c \in b.on
        PROVE  \/ Pending("row", c)'
               \/ \E x \in C : x.do = "comments" /\ x.memo = s.memo /\ (x.on = {} \/ c \in x.on)
    <3>1. CASE b \in C
      BY <2>3, <3>1
    <3>2. CASE b = n /\ A \subseteq C
      <4>1. n.do = "comments" /\ n.memo # 0 /\ under[c] = n.memo /\ (n.on = {} \/ c \in n.on)
        BY <1>11, <1>12, <2>1, <2>3, <3>2
      <4>2. \/ Pending("row", c)'
            \/ \E x \in A : x.do = "comments" /\ x.memo = n.memo /\ (x.on = {} \/ c \in x.on)
        BY <1>2, <2>1, <4>1 DEF TalkEffect
      <4> QED BY <2>3, <3>2, <4>2
    <3> QED BY <1>2, <2>3, <3>1, <3>2
  <2> QED BY <1>3, <2>2, <2>3
<1> QED BY <1>7, <1>8, <1>9, <1>10, <1>11, <1>12 DEF Heard

(* The statement at hand has nothing before it. *)
LEMMA FirstHeard ==
  ASSUME TypeInv, NEW p \in Procs, Busy(p), AllHeard
  PROVE  Heard(Now(p), {})
<1>1. PICK t : t = job[p].todo
  OBVIOUS
<1>2. t \in Seq(Statement) /\ t # <<>> /\ WellHeard(t)
  BY <1>1, JobIs DEF Busy, AllHeard
<1>3. 1 \in DOMAIN t /\ Head(t) = t[1]
  BY <1>2
<1>4. Before(t, 1) = {}
  BY DEF Before
<1> QED BY <1>1, <1>2, <1>3, <1>4 DEF WellHeard, Now

LEMMA HeardResume ==
  ASSUME TypeInv, Apart, AllHeard, NEW p \in Procs, Busy(p), NEW u \in Seq(Statement),
         Continue(p, u \o Rest(p)), UNCHANGED <<made, under>>, TalkEffect(Now(p), All(u)),
         \A i \in DOMAIN u : Heard(u[i], Before(u, i))'
  PROVE  AllHeard'
<1>1. PICK t, w, n, K :
        t = job[p].todo /\ w = u \o Rest(p) /\ n = Now(p) /\ K = Kind(job[p].links)
  OBVIOUS
<1>2. /\ t \in Seq(Statement) /\ t # <<>> /\ WellHeard(t) /\ t \in Seq(K) /\ w = u \o Tail(t)
      /\ n = Head(t) /\ K \subseteq Statement
  BY <1>1, JobIs, KindIs DEF Busy, Rest, Now, AllHeard
<1>3. job'[p].todo = w /\ \A q \in Procs \ {p} : job'[q] = job[q]
  BY <1>1, ContinueIs
<1>4. n.do = "insert" => job[p].links
  BY <1>1, ByKind DEF Linking
<1>5. n.do = "insert" => \A s \in K : s.do \notin {"from", "to"}
  BY <1>1, <1>4 DEF Kind, Linking
<1>6. ASSUME NEW i \in DOMAIN w PROVE Heard(w[i], Before(w, i))'
  <2>1. CASE i \in DOMAIN u /\ w[i] = u[i] /\ Before(w, i) = Before(u, i)
    BY <2>1
  <2>2. ASSUME NEW k \in DOMAIN t, w[i] = t[k],
               Before(t, k) \subseteq {Head(t)} \cup Before(w, i), All(u) \subseteq Before(w, i)
        PROVE  Heard(w[i], Before(w, i))'
    <3>1. PICK B, C, s : B = Before(t, k) /\ C = Before(w, i) /\ s = t[k]
      OBVIOUS
    <3>2. Heard(s, B) /\ s \in K
      BY <1>2, <3>1 DEF WellHeard
    <3>3. B \subseteq {Now(p)} \cup C /\ All(u) \subseteq C
      BY <1>1, <1>2, <2>2, <3>1
    <3>4. Now(p).do = "insert" => s.do \notin {"from", "to"}
      BY <1>1, <1>5, <3>2
    <3>5. Heard(s, C)'
      BY <3>2, <3>3, <3>4, HeardStep
    <3> QED BY <2>2, <3>1, <3>5
  <2>3. Placed(w, i, t, u)
    BY <1>2, Positions
  <2> QED BY <2>1, <2>2, <2>3 DEF Placed
<1>7. WellHeard(job[p].todo)'
  BY <1>3, <1>6 DEF WellHeard
<1>8. ASSUME NEW q \in Procs \ {p} PROVE WellHeard(job[q].todo)'
  <2>1. PICK v : v = job[q].todo
    OBVIOUS
  <2>2. v \in Seq(Statement) /\ WellHeard(v) /\ job'[q].todo = v
    BY <1>3, <2>1, JobIs DEF AllHeard
  <2>3. ASSUME NEW i \in DOMAIN v PROVE Heard(v[i], Before(v, i))'
    <3>1. Busy(q)
      BY <2>1, <2>3 DEF Busy
    <3>2. n.do # "insert"
      BY <1>4, <3>1 DEF Apart
    <3>3. PICK B, s : B = Before(v, i) /\ s = v[i]
      OBVIOUS
    <3>4. Heard(s, B)
      BY <2>2, <3>3 DEF WellHeard
    <3>5. Heard(s, B)'
      BY <1>1, <3>2, <3>4, HeardStep
    <3> QED BY <3>3, <3>5
  <2> QED BY <2>2, <2>3 DEF WellHeard
<1> QED BY <1>7, <1>8 DEF AllHeard

LEMMA TalkGoesOn ==
  ASSUME TypeInv, Apart, TalkOk, NEW p \in Procs, Busy(p), NEW u \in Seq(Statement),
         Continue(p, u \o Rest(p)), UNCHANGED <<made, under>>, TalkEffect(Now(p), All(u)),
         \A s \in All(u) : s.do # "comment",
         \A i \in DOMAIN u : Heard(u[i], Before(u, i))'
  PROVE  TalkOk'
<1> USE DEF TalkOk
<1>1. AllHeard' /\ AllLast'
  BY HeardResume, LastResume
<1>2. PICK n, A : n = Now(p) /\ A = All(u)
  OBVIOUS
<1>3. TalkEffect(n, A) /\ Heard(n, {})
  BY <1>2, FirstHeard
<1>4. ASSUME NEW do, NEW m, Pending(do, m), ~(n.do = do /\ n.memo = m) PROVE Pending(do, m)'
  BY <1>2, <1>4, PendingStays
<1>5. \A c : IsComment(c)' => IsComment(c)
  BY <1>3 DEF TalkEffect, IsComment
<1>6. Noted' /\ TopLevel'
  BY <1>5 DEF Noted, TopLevel, HasComments
<1>7. Rooted'
  <2>1. ASSUME NEW r \in relations', r[3] = "COMMENT", under[r[1]] \notin {r[2], None}
        PROVE  under[r[1]] = 0 /\ Pending("to", r[2])'
    <3>1. r \in relations
      BY <1>3, <2>1 DEF TalkEffect
    <3>2. under[r[1]] = 0 /\ Pending("to", r[2])
      BY <2>1, <3>1 DEF Rooted
    <3>3. ~(n.do = "to" /\ n.memo = r[2])
      BY <1>3, <2>1 DEF TalkEffect
    <3> QED BY <1>4, <3>2, <3>3
  <2> QED BY <2>1 DEF Rooted
<1>8. Stays'
  <2>1. ASSUME NEW c \in memos', under[c] \notin {0, None}
        PROVE  c \in Comments(under[c])' \/ Pending("row", c)'
    <3>1. c \in memos
      BY <1>3, <2>1 DEF TalkEffect, Heard
    <3>2. ~(n.do = "row" /\ n.memo = c)
      BY <1>3, <2>1 DEF TalkEffect
    <3>3. CASE Pending("row", c)
      BY <1>4, <3>2, <3>3
    <3>4. CASE c \in Comments(under[c])
      <4>1. PICK r \in relations : r[1] = c /\ r[2] = under[c] /\ r[3] = "COMMENT"
        BY <3>4 DEF Comments
      <4>2. CASE r \in relations'
        BY <4>1, <4>2 DEF Comments
      <4>3. CASE n.do = "from" /\ n.memo = c
        <5>1. Pending("row", c)
          BY <1>3, <3>1, <4>3 DEF Heard
        <5> QED BY <1>4, <3>2, <5>1
      <4>4. CASE n.do = "to" /\ n.memo = under[c]
        <5>1. Pending("row", c)
          BY <1>3, <3>1, <4>4 DEF Heard
        <5> QED BY <1>4, <3>2, <5>1
      <4>5. \/ r \in relations'
            \/ n.do = "from" /\ n.memo = r[1]
            \/ n.do = "to" /\ n.memo = r[2]
        BY <1>3, <4>1 DEF TalkEffect
      <4> QED BY <4>1, <4>2, <4>3, <4>4, <4>5
    <3>5. c \in Comments(under[c]) \/ Pending("row", c)
      BY <2>1, <3>1 DEF Stays
    <3> QED BY <3>3, <3>4, <3>5
  <2> QED BY <2>1 DEF Stays
<1> QED BY <1>1, <1>6, <1>7, <1>8

-----------------------------------------------------------------------------
(* What statements do about comments *)

LEMMA OneHeard ==
  ASSUME NEW on, NEW n, on # {} => Heard(n, {})'
  PROVE  /\ \A i \in DOMAIN If(on, <<n>>) : Heard(If(on, <<n>>)[i], Before(If(on, <<n>>), i))'
         /\ All(If(on, <<n>>)) = IF on = {} THEN {} ELSE {n}
<1>1. CASE on = {}
  BY <1>1 DEF If, All
<1>2. CASE on # {}
  <2> DEFINE u == <<n>>
  <2>1. If(on, u) = u /\ DOMAIN u = {1} /\ u[1] = n
    BY <1>2 DEF If
  <2> HIDE DEF u
  <2>2. Before(u, 1) = {} /\ All(u) = {n}
    BY <2>1 DEF Before, All
  <2>3. \A i \in DOMAIN u : Heard(u[i], Before(u, i))'
    BY <1>2, <2>1, <2>2
  <2> QED BY <1>2, <2>1, <2>2, <2>3 DEF u
<1> QED BY <1>1, <1>2

(* A request goes on with one statement, or none, put in the place of the    *)
(* first.                                                                    *)
LEMMA TalkOne ==
  ASSUME TypeInv, Apart, TalkOk, NEW p \in Procs, Busy(p), UNCHANGED <<made, under>>,
         NEW on, NEW n, on # {} => n \in Statement /\ n.do # "comment" /\ Heard(n, {})',
         Continue(p, If(on, <<n>>) \o Rest(p)), TalkEffect(Now(p), IF on = {} THEN {} ELSE {n})
  PROVE  TalkOk'
<1>1. PICK u : u = If(on, <<n>>)
  OBVIOUS
<1>2. u \in Seq(Statement)
  BY <1>1, SeqBasics DEF If
<1>3. /\ \A i \in DOMAIN u : Heard(u[i], Before(u, i))'
      /\ All(u) = IF on = {} THEN {} ELSE {n}
  BY <1>1, OneHeard
<1>4. \A s \in All(u) : s.do # "comment"
  BY <1>3
<1>5. Continue(p, u \o Rest(p)) /\ TalkEffect(Now(p), All(u))
  BY <1>1, <1>3
<1> QED BY <1>2, <1>3, <1>4, <1>5, TalkGoesOn

LEMMA TalkOn ==
  ASSUME TypeInv, Apart, TalkOk, NEW p \in Procs, Busy(p), UNCHANGED <<made, under>>, GoOn(p),
         TalkEffect(Now(p), {})
  PROVE  TalkOk'
<1>1. PICK r, n : r = Rest(p) /\ n = Now(p)
  OBVIOUS
<1>2. r \in Seq(Statement)
  BY <1>1, NowIs, KindIs, JobIs, SeqGrows
<1>3. If({}, <<n>>) \o r = r
  BY <1>2 DEF If
<1>4. PICK on : on = {}
  OBVIOUS
<1>5. Continue(p, If(on, <<n>>) \o Rest(p)) /\ TalkEffect(Now(p), IF on = {} THEN {} ELSE {n})
  BY <1>1, <1>3, <1>4 DEF GoOn
<1> QED BY <1>4, <1>5, TalkOne

(* What is neither about rows nor about comments. *)
LEMMA QuietEffect ==
  ASSUME NEW n, n.do \notin {"row", "from", "to", "comments"}, NEW A, UNCHANGED memos,
         \A r : r[3] = "COMMENT" => (r \in relations <=> r \in relations')
  PROVE  TalkEffect(n, A)
BY DEF TalkEffect

LEMMA QuietHeard ==
  ASSUME NEW n, n.do \in {"remove", "attach", "refer"}
  PROVE  Heard(n, {})'
BY DEF Heard

LEMMA TalkOthers ==
  ASSUME TypeInv, Apart, TalkOk, NEW p \in Procs, Busy(p), UNCHANGED <<memos, made, under>>,
         \A r : r[3] = "COMMENT" => (r \in relations <=> r \in relations'),
         Now(p).do \in {"remove", "attach", "refer"}, NEW x, Continue(p, Others(p, x))
  PROVE  TalkOk'
<1>1. PICK on : on = Now(p).on \ {x}
  OBVIOUS
<1>2. PICK n : n = [Now(p) EXCEPT !.on = on]
  OBVIOUS
<1>3. on \subseteq Now(p).on /\ Continue(p, If(on, <<n>>) \o Rest(p))
  BY <1>1, <1>2 DEF Others
<1>4. n \in Statement /\ n.do = Now(p).do
  BY <1>2, <1>3, AgainIs, KindIs, JobIs
<1>5. Heard(n, {})' /\ n.do # "comment"
  BY <1>4, QuietHeard
<1>6. TalkEffect(Now(p), IF on = {} THEN {} ELSE {n})
  BY QuietEffect
<1> QED BY <1>3, <1>4, <1>5, <1>6, TalkOne

LEMMA TalkLinks ==
  ASSUME TypeInv, Apart, TalkOk, NEW p \in Procs, Busy(p), whole',
         \/ InsertMemo(p) \/ InsertAttachment(p) \/ ListForUpdate(p) \/ UpdateAttachment(p)
         \/ DeleteReferences(p) \/ InsertReference(p) \/ RemoveAttachment(p)
  PROVE  TalkOk'
<1>1. CASE InsertMemo(p)
  <2>1. /\ Now(p).do = "insert" /\ memos' = memos \cup {Now(p).memo} /\ GoOn(p)
        /\ UNCHANGED <<made, under, relations>>
    BY <1>1 DEF InsertMemo, At
  <2>2. TalkEffect(Now(p), {})
    BY <2>1 DEF TalkEffect
  <2> QED BY <2>1, <2>2, TalkOn
<1>2. CASE InsertAttachment(p)
  <2>1. Now(p).do = "upload" /\ GoOn(p) /\ UNCHANGED <<memos, made, under, relations>>
    BY <1>2 DEF InsertAttachment, At, BreakOff
  <2>2. TalkEffect(Now(p), {})
    BY <2>1, QuietEffect
  <2> QED BY <2>1, <2>2, TalkOn
<1>3. CASE ListForUpdate(p)
  <2>1. PICK L \in Listings(Now(p).memo) :
          Continue(p, If(L \ Now(p).on, <<Do("remove", 0, L \ Now(p).on)>>) \o Rest(p))
    BY <1>3 DEF ListForUpdate
  <2>2. UNCHANGED <<memos, made, under, relations>> /\ Now(p).do = "listed"
    BY <1>3 DEF ListForUpdate, At
  <2>3. PICK on : on = L \ Now(p).on
    OBVIOUS
  <2>4. PICK n : n = Do("remove", 0, on)
    OBVIOUS
  <2>5. on \subseteq Attachments
    BY <2>3 DEF Listings
  <2>6. n.do = "remove" /\ n \in Statement
    BY <2>4, <2>5, DoIs DEF Linking
  <2>7. Heard(n, {})' /\ TalkEffect(Now(p), IF on = {} THEN {} ELSE {n})
    BY <2>2, <2>6, QuietHeard, QuietEffect
  <2>8. Continue(p, If(on, <<n>>) \o Rest(p))
    BY <2>1, <2>3, <2>4
  <2> QED BY <2>2, <2>6, <2>7, <2>8, TalkOne
<1>4. CASE UpdateAttachment(p)
  <2>1. /\ Now(p).do = "attach" /\ UNCHANGED <<memos, made, under, relations>>
        /\ \E a \in Now(p).on : Continue(p, Others(p, a))
    BY <1>4 DEF UpdateAttachment, At, BreakOff
  <2> QED BY <2>1, TalkOthers
<1>5. CASE DeleteReferences(p)
  <2>1. /\ Now(p).do = "unrefer" /\ GoOn(p) /\ UNCHANGED <<memos, made, under>>
        /\ relations' = {r \in relations : r[1] # Now(p).memo \/ r[3] # "REFERENCE"}
    BY <1>5 DEF DeleteReferences, At
  <2>2. TalkEffect(Now(p), {})
    BY <2>1, QuietEffect
  <2> QED BY <2>1, <2>2, TalkOn
<1>6. CASE InsertReference(p)
  <2>1. PICK m \in Now(p).on :
          /\ relations' = relations \cup {<<Now(p).memo, m, "REFERENCE">>}
          /\ Continue(p, Others(p, m))
    BY <1>6 DEF InsertReference, BreakOff
  <2>2. Now(p).do = "refer" /\ UNCHANGED <<memos, made, under>>
    BY <1>6 DEF InsertReference, At
  <2>3. \A r : r[3] = "COMMENT" => (r \in relations <=> r \in relations')
    BY <2>1
  <2> QED BY <2>1, <2>2, <2>3, TalkOthers
<1>7. CASE RemoveAttachment(p)
  <2>1. /\ Now(p).do = "remove" /\ UNCHANGED <<memos, made, under, relations>>
        /\ \E a \in Now(p).on : Continue(p, Others(p, a))
    BY <1>7 DEF RemoveAttachment, At, BreakOff
  <2> QED BY <2>1, TalkOthers
<1> QED BY <1>1, <1>2, <1>3, <1>4, <1>5, <1>6, <1>7

LEMMA TalkRows ==
  ASSUME TypeInv, Apart, TalkOk, NEW p \in Procs, Busy(p),
         ListComments(p) \/ DeleteRelations(p) \/ ListForDelete(p) \/ DeleteRow(p)
  PROVE  TalkOk'
<1>1. CASE ListComments(p)
  <2>1. PICK cs : cs = Comments(Now(p).memo)
    OBVIOUS
  <2>2. PICK n : n = [Now(p) EXCEPT !.on = cs]
    OBVIOUS
  <2>3. /\ Now(p).do = "comments" /\ Now(p).on = {} /\ Continue(p, If(cs, <<n>>) \o Rest(p))
        /\ UNCHANGED <<memos, made, relations, under>>
    BY <1>1, <2>1, <2>2 DEF ListComments, At
  <2>4. cs \subseteq Ids /\ \A c \in cs : IsComment(c)
    BY <2>1 DEF Comments, IsComment, TypeInv, TablesTyped
  <2>5. n \in Statement /\ n.do = "comments" /\ n.memo = Now(p).memo /\ n.on = cs
    BY <2>2, <2>3, <2>4, AgainIs, KindIs, JobIs
  <2>6. Heard(n, {})'
    BY <2>3, <2>4, <2>5 DEF Heard, TalkOk, TopLevel, HasComments
  <2>7. PICK A : A = IF cs = {} THEN {} ELSE {n}
    OBVIOUS
  <2>8. PICK u : u = If(cs, <<n>>) /\ u \in Seq(Statement)
    BY <2>5, IfIs
  <2>9. ASSUME NEW c \in memos, under[c] = Now(p).memo, Now(p).memo # 0
        PROVE  Pending("row", c)' \/ (n \in A /\ c \in n.on)
    <3>1. under[c] \notin {0, None}
      BY <2>9, NowFits, ConstantsOK
    <3>2. CASE c \in Comments(under[c])
      BY <2>1, <2>5, <2>7, <2>9, <3>2
    <3>3. CASE Pending("row", c)
      BY <2>3, <2>8, <3>3, PendingStays
    <3> QED BY <3>1, <3>2, <3>3 DEF TalkOk, Stays
  <2>10. TalkEffect(Now(p), A)
    BY <2>3, <2>5, <2>9 DEF TalkEffect
  <2> QED BY <2>3, <2>5, <2>6, <2>7, <2>10, TalkOne
<1>2. CASE DeleteRelations(p)
  <2>1. GoOn(p) /\ UNCHANGED <<memos, made, under>>
    BY <1>2 DEF DeleteRelations
  <2>2. TalkEffect(Now(p), {})
    BY <1>2, <2>1 DEF DeleteRelations, TalkEffect, At
  <2> QED BY <2>1, <2>2, TalkOn
<1>3. CASE ListForDelete(p)
  <2>1. PICK L \in Listings(Now(p).memo) :
          Continue(p, If(L, <<Do("remove", 0, L)>>) \o Rest(p))
    BY <1>3 DEF ListForDelete
  <2>2. UNCHANGED <<memos, made, under, relations>> /\ Now(p).do = "attachments"
    BY <1>3 DEF ListForDelete, At
  <2>3. PICK n : n = Do("remove", 0, L)
    OBVIOUS
  <2>4. L \subseteq Attachments
    BY DEF Listings
  <2>5. n.do = "remove" /\ n \in Statement
    BY <2>3, <2>4, DoIs DEF Linking
  <2>6. Heard(n, {})' /\ TalkEffect(Now(p), IF L = {} THEN {} ELSE {n})
    BY <2>2, <2>5, QuietHeard, QuietEffect
  <2> QED BY <2>1, <2>2, <2>3, <2>5, <2>6, TalkOne
<1>4. CASE DeleteRow(p)
  <2>1. /\ Now(p).do = "row" /\ memos' = memos \ {Now(p).memo} /\ GoOn(p)
        /\ UNCHANGED <<made, under, relations>>
    BY <1>4 DEF DeleteRow, At
  <2>2. TalkEffect(Now(p), {})
    BY <2>1 DEF TalkEffect
  <2> QED BY <2>1, <2>2, TalkOn
<1> QED BY <1>1, <1>2, <1>3, <1>4

(* The statements that delete a memo with no comments, and then v. *)
LEMMA StoreDeleteHeard ==
  ASSUME NEW m, m # 0, Pending("row", m)', \A c \in memos' : under'[c] # m,
         NEW v, v = <<>> \/ (\E n \in Statement : v = <<n>> /\ \A B : Heard(n, B)')
  PROVE  \A i \in DOMAIN (StoreDeleteMemo(m) \o v) :
           Heard((StoreDeleteMemo(m) \o v)[i], Before(StoreDeleteMemo(m) \o v, i))'
<1> DEFINE a == Do("from", m, {})
           b == Do("to", m, {})
           c == Do("attachments", m, {})
           d == Do("row", m, {})
<1>1. /\ a.do = "from" /\ a.memo = m /\ b.do = "to" /\ b.memo = m
      /\ c.do = "attachments" /\ c.memo = m /\ d.do = "row" /\ d.memo = m
  BY DoIs
<1>2. StoreDeleteMemo(m) = <<a, b, c, d>>
  BY DEF StoreDeleteMemo
<1> HIDE DEF a, b, c, d
<1>3. PICK w : w = StoreDeleteMemo(m) \o v
  OBVIOUS
<1>4. ASSUME NEW s \in {a, b, c, d}, NEW B PROVE Heard(s, B)'
  BY <1>1, <1>4 DEF Heard
<1>5. ASSUME NEW i \in DOMAIN w PROVE \A B : Heard(w[i], B)'
  <2>1. CASE v = <<>>
    <3>1. w[i] \in {a, b, c, d}
      BY <1>2, <1>3, <2>1
    <3> QED BY <1>4, <3>1
  <2>2. ASSUME NEW n \in Statement, v = <<n>>, \A B : Heard(n, B)'
        PROVE  \A B : Heard(w[i], B)'
    <3>1. w[i] \in {a, b, c, d, n}
      BY <1>2, <1>3, <2>2
    <3> QED BY <1>4, <2>2, <3>1
  <2> QED BY <2>1, <2>2
<1> QED BY <1>3, <1>5

LEMMA TalkDeletesComment ==
  ASSUME TypeInv, Apart, TalkOk, NEW p \in Procs, Busy(p), DeleteComment(p)
  PROVE  TalkOk'
<1>1. PICK c \in Now(p).on : Continue(p, StoreDeleteMemo(c) \o Others(p, c))
  BY DEF DeleteComment
<1>2. Now(p).do = "comments" /\ UNCHANGED <<memos, made, relations, under>>
  BY DEF DeleteComment, At
<1>3. c \in Ids /\ c \in 0..MaxMemos /\ c # 0
  <2>1. c \in Ids
    BY <1>2, NowFits
  <2> QED BY <2>1, ConstantsOK DEF Ids
<1>4. PICK on : on = Now(p).on \ {c}
  OBVIOUS
<1>5. PICK n : n = [Now(p) EXCEPT !.on = on]
  OBVIOUS
<1>6. PICK v : v = If(on, <<n>>)
  OBVIOUS
<1>7. Others(p, c) = v \o Rest(p) /\ on \subseteq Now(p).on
  BY <1>4, <1>5, <1>6 DEF Others
<1>8. n \in Statement /\ n.do = "comments" /\ n.memo = Now(p).memo /\ n.on = on
  BY <1>2, <1>5, <1>7, AgainIs, KindIs, JobIs
<1>9. Heard(Now(p), {})
  BY FirstHeard DEF TalkOk
<1>10. \A d \in Now(p).on : ~HasComments(d) /\ ~HasComments(d)'
  BY <1>2, <1>9 DEF Heard, HasComments
<1>11. \A B : Heard(n, B)'
  BY <1>7, <1>8, <1>10 DEF Heard
<1>12. v \in Seq(Statement) /\ (v = <<>> \/ \E s \in Statement : v = <<s>> /\ \A B : Heard(s, B)')
  BY <1>6, <1>8, <1>11, IfIs DEF If
<1>13. PICK d : d = StoreDeleteMemo(c)
  OBVIOUS
<1>14. d \in Seq(Statement) /\ Do("row", c, {}) \in All(d) /\ \A s \in All(d) : s.do # "comment"
  <2>1. d \in Seq(Statement)
    BY <1>3, <1>13, DeletingIs, PlainIs, KindIs, SeqGrows
  <2>2. d[4] = Do("row", c, {}) /\ DOMAIN d = 1..4
    BY <1>13 DEF StoreDeleteMemo
  <2>3. \A i \in DOMAIN d : d[i].do # "comment"
    BY <1>13, DoIs DEF StoreDeleteMemo
  <2> QED BY <2>1, <2>2, <2>3 DEF All
<1>15. PICK r : r = Rest(p)
  OBVIOUS
<1>16. r \in Seq(Statement)
  BY <1>15, NowIs, KindIs, JobIs, SeqGrows
<1>17. d \o (v \o r) = (d \o v) \o r /\ d \o v \in Seq(Statement)
  BY <1>12, <1>14, <1>16
<1>18. PICK u : u = d \o v
  OBVIOUS
<1>19. u \in Seq(Statement) /\ Continue(p, u \o Rest(p))
  BY <1>1, <1>7, <1>13, <1>15, <1>17, <1>18
<1>20. All(v) = IF on = {} THEN {} ELSE {n}
  BY <1>6 DEF If, All
<1>21. All(u) = All(d) \cup All(v)
  <2>1. /\ Len(d) \in Nat /\ Len(v) \in Nat /\ DOMAIN d = 1..Len(d) /\ DOMAIN v = 1..Len(v)
        /\ DOMAIN u = 1..(Len(d) + Len(v))
        /\ \A k \in 1..(Len(d) + Len(v)) : u[k] = IF k =< Len(d) THEN d[k] ELSE v[k - Len(d)]
    BY <1>12, <1>14, <1>18
  <2>2. \A i \in DOMAIN d : i \in DOMAIN u /\ u[i] = d[i]
    BY <2>1
  <2>3. ASSUME NEW i \in DOMAIN v PROVE Len(d) + i \in DOMAIN u /\ u[Len(d) + i] = v[i]
    BY <2>1
  <2>4. \A i \in DOMAIN u : u[i] \in All(d) \cup All(v)
    BY <2>1 DEF All
  <2>5. All(u) \subseteq All(d) \cup All(v)
    BY <2>4 DEF All
  <2> QED BY <2>2, <2>3, <2>5 DEF All
<1>22. Pending("row", c)'
  BY <1>14, <1>19, <1>21, PendingComes, DoIs
<1>23. \A x \in memos' : under'[x] # c
  <2>1. memos' \subseteq Ids
    BY <1>2, ConstantsOK DEF TypeInv, TablesTyped, Ids
  <2> QED BY <1>10, <2>1 DEF HasComments
<1>24. \A i \in DOMAIN u : Heard(u[i], Before(u, i))'
  BY <1>3, <1>12, <1>13, <1>18, <1>22, <1>23, StoreDeleteHeard
<1>25. \A s \in All(u) : s.do # "comment"
  BY <1>8, <1>14, <1>20, <1>21
<1>26. ASSUME NEW x \in memos, Now(p).on = {} \/ x \in Now(p).on
       PROVE  Pending("row", x)' \/ (n \in All(u) /\ x \in n.on)
  BY <1>4, <1>8, <1>20, <1>21, <1>22, <1>26
<1>27. TalkEffect(Now(p), All(u))
  BY <1>2, <1>8, <1>26 DEF TalkEffect
<1> QED BY <1>2, <1>19, <1>24, <1>25, <1>27, TalkGoesOn

(* A comment is made last, beside nobody. *)
LEMMA TalkComments ==
  ASSUME TypeInv, Apart, TalkOk, NEW p \in Procs, Busy(p), InsertComment(p), whole'
  PROVE  TalkOk'
<1> USE DEF TalkOk
<1>1. PICK c, m : /\ c = Now(p).memo /\ m \in Now(p).on
                  /\ c \in memos /\ relations' = relations \cup {<<c, m, "COMMENT">>}
                  /\ under' = [under EXCEPT ![c] = IF under[m] = 0 THEN m ELSE None]
                  /\ GoOn(p)
  BY DEF InsertComment, BreakOff
<1>2. Now(p).do = "comment" /\ UNCHANGED <<memos, made>>
  BY DEF InsertComment, At
<1>3. c \in Ids /\ m \in Ids /\ job[p].links = TRUE
  BY <1>1, <1>2, NowFits, ByKind DEF Linking
<1>4. Ids \subseteq Nat \ {0} /\ under \in [Ids -> (0..MaxMemos) \cup {None}]
      /\ memos \subseteq 1..made /\ memos \subseteq Ids /\ relations \subseteq Ids \X Ids \X Kinds
  BY ConstantsOK DEF Ids, TypeInv, TablesTyped
<1>5. /\ under[c] = 0 /\ ~HasComments(c) /\ ~IsComment(c)
      /\ m \in 1..made /\ m # c
  BY <1>1, <1>2, FirstHeard DEF Heard
<1>6. Rest(p) = <<>>
  <2>1. PICK t : t = job[p].todo
    OBVIOUS
  <2>2. t \in Seq(Statement) /\ t # <<>> /\ LastComment(t) /\ Head(t).do = "comment"
    BY <1>2, <2>1, JobIs DEF Busy, Now, AllLast
  <2>3. 1 \in DOMAIN t /\ Head(t) = t[1] /\ Len(t) \in Nat
    BY <2>2
  <2>4. Len(t) = 1
    BY <2>2, <2>3 DEF LastComment
  <2>5. Tail(t) \in Seq(Statement) /\ Len(Tail(t)) = 0
    BY <2>2, <2>4
  <2>6. Tail(t) = <<>>
    <3>1. \A v \in Seq(Statement) : Len(v) = 0 => v = <<>>
      OBVIOUS
    <3> QED BY <2>5, <3>1
  <2> QED BY <2>1, <2>6 DEF Rest
<1>7. \A q \in Procs : job'[q].todo = <<>>
  <2>1. job'[p].todo = <<>>
    BY <1>1, <1>6, ContinueIs DEF GoOn
  <2>2. ASSUME NEW q \in Procs \ {p} PROVE job'[q].todo = <<>>
    <3>1. ~Busy(q)
      BY <1>3, <2>2 DEF Apart
    <3> QED BY <1>1, <3>1, ContinueIs DEF GoOn, Busy
  <2> QED BY <2>1, <2>2
<1>8. AllHeard' /\ AllLast'
  BY <1>7 DEF AllHeard, WellHeard, AllLast, LastComment
<1>9. ASSUME NEW x PROVE ~Pending("row", x) /\ ~Pending("to", x)
  <2>1. ASSUME NEW q \in Procs, NEW s \in All(job[q].todo) PROVE s.do \notin {"row", "to"}
    <3>1. PICK t, K : t = job[q].todo /\ K = Kind(job[q].links) /\ t \in Seq(K)
      BY JobIs
    <3>2. PICK i \in DOMAIN t : s = t[i]
      BY <3>1 DEF All
    <3>3. t # <<>>
      BY <3>1, <3>2
    <3>4. q = p
      BY <1>3, <3>1, <3>3 DEF Apart, Busy
    <3>5. s \in Kind(job[q].links) /\ job[q].links
      BY <1>3, <3>1, <3>2, <3>4
    <3> QED BY <3>5 DEF Kind, Linking
  <2> QED BY <2>1 DEF Pending
<1>10. \A d \in Ids : IsComment(d)' => d = c \/ IsComment(d)
  BY <1>1 DEF IsComment
<1>11. \A d \in Ids : under'[d] = IF d = c THEN IF under[m] = 0 THEN m ELSE None ELSE under[d]
  BY <1>1, <1>4
<1>12. ASSUME NEW x \in Ids, HasComments(x)'
       PROVE  HasComments(x) \/ (x = m /\ under[m] = 0)
  <2>1. None \notin Ids
    BY <1>4, ConstantsOK
  <2> QED BY <1>11, <1>12, <2>1 DEF HasComments
<1>13. Noted'
  <2>1. \A d \in Ids : d > made => d # c
    BY <1>1, <1>4, ConstantsOK DEF TypeInv, TablesTyped
  <2>2. m =< made
    BY <1>5
  <2> QED BY <1>2, <1>10, <1>11, <2>1, <2>2 DEF Noted
<1>14. TopLevel'
  <2>1. ASSUME IsComment(m), under[m] = 0 PROVE FALSE
    <3>1. PICK r \in relations : r[1] = m /\ r[3] = "COMMENT"
      BY <2>1 DEF IsComment
    <3>2. under[m] \in {r[2], None}
      BY <1>9, <3>1 DEF Rooted
    <3>3. r[2] \in Ids /\ None # 0
      BY <1>4, ConstantsOK
    <3> QED BY <1>4, <2>1, <3>2, <3>3
  <2>2. ASSUME NEW d \in Ids, IsComment(d)', HasComments(d)' PROVE FALSE
    BY <1>5, <1>10, <1>12, <2>1, <2>2 DEF TopLevel
  <2> QED BY <2>2 DEF TopLevel
<1>15. Rooted'
  <2>1. ASSUME NEW r \in relations', r[3] = "COMMENT" PROVE under'[r[1]] \in {r[2], None}
    <3>1. CASE r = <<c, m, "COMMENT">>
      BY <1>3, <1>11, <3>1
    <3>2. CASE r \in relations
      <4>1. r[1] # c /\ r[1] \in Ids
        BY <1>4, <1>5, <2>1, <3>2 DEF IsComment
      <4>2. under[r[1]] \in {r[2], None}
        BY <1>9, <2>1, <3>2 DEF Rooted
      <4> QED BY <1>11, <4>1, <4>2
    <3> QED BY <1>1, <3>1, <3>2
  <2> QED BY <2>1 DEF Rooted
<1>16. Stays'
  <2>1. ASSUME NEW d \in memos, under'[d] \notin {0, None}
        PROVE  \E r \in relations' : r[1] = d /\ r[2] = under'[d] /\ r[3] = "COMMENT"
    <3>1. CASE d = c
      <4>1. under'[c] = m
        BY <1>3, <1>11, <2>1, <3>1
      <4>2. <<c, m, "COMMENT">> \in relations'
        BY <1>1
      <4> QED BY <3>1, <4>1, <4>2
    <3>2. CASE d # c
      <4>1. under'[d] = under[d]
        BY <1>4, <1>11, <3>2
      <4>2. d \in Comments(under[d])
        BY <1>9, <2>1, <4>1 DEF Stays
      <4> QED BY <1>1, <4>1, <4>2 DEF Comments
    <3> QED BY <3>1, <3>2
  <2> QED BY <1>2, <2>1 DEF Stays, Comments
<1> QED BY <1>8, <1>13, <1>14, <1>15, <1>16

-----------------------------------------------------------------------------
(* What requests do about comments *)

LEMMA BeginApart ==
  ASSUME Alone, TypeInv, Apart, NEW p \in Procs, NEW links \in BOOLEAN, NEW todo,
         Begin(p, links, todo)
  PROVE  Apart'
<1>1. /\ job'[p] = [todo |-> todo, links |-> links]
      /\ \A q \in Procs \ {p} : job'[q] = job[q]
      /\ AllIdle \/ ~(links \/ \E q \in Procs : job[q].links)
  BY DEF Begin, TypeInv, JobsTyped
<1>2. CASE AllIdle
  BY <1>1, <1>2 DEF Apart, AllIdle, Busy
<1>3. CASE ~links /\ \A q \in Procs : ~job[q].links
  BY <1>1, <1>3 DEF Apart
<1> QED BY <1>1, <1>2, <1>3

(* A request begins; comments left to themselves are no longer counted.      *)
LEMMA TalkBegins ==
  ASSUME TypeInv, TypeInv', TalkOk, NEW p \in Procs, NEW links \in BOOLEAN, NEW todo,
         Begin(p, links, todo), made =< made', LastComment(todo),
         \A c \in Ids : \/ under'[c] = under[c]
                        \/ under'[c] = 0 /\ \E m \in Ids : under[c] = m /\ Pending("to", m)',
         \A i \in DOMAIN todo : Heard(todo[i], Before(todo, i))'
  PROVE  TalkOk'
<1> USE DEF TalkOk
<1>1. /\ job'[p].todo = todo /\ job[p].todo = <<>>
      /\ \A q \in Procs \ {p} : job'[q] = job[q]
      /\ UNCHANGED <<memos, relations>>
  BY DEF Begin, TypeInv, JobsTyped, Busy
<1>2. /\ Ids \subseteq Nat \ {0} /\ memos \subseteq Ids /\ relations \subseteq Ids \X Ids \X Kinds
      /\ made \in Nat /\ made' \in Nat
  BY ConstantsOK DEF Ids, TypeInv, TablesTyped
<1>3. ASSUME NEW do, NEW m, Pending(do, m) PROVE Pending(do, m)'
  <2>1. PICK q \in Procs : \E s \in All(job[q].todo) : s.do = do /\ s.memo = m
    BY <1>3 DEF Pending
  <2>2. q # p
    BY <1>1, <2>1 DEF All
  <2> QED BY <1>1, <2>1, <2>2 DEF Pending
<1>4. \A c : IsComment(c)' => IsComment(c)
  BY <1>1 DEF IsComment
<1>5. \A x : x # 0 /\ HasComments(x)' => HasComments(x)
  BY DEF HasComments
<1>6. ASSUME NEW s \in Statement, Fits(s), NEW B, Heard(s, B) PROVE Heard(s, B)'
  <2>1. s.do \in {"insert", "comment"} =>
          (under[s.memo] = 0 /\ ~HasComments(s.memo) /\ ~IsComment(s.memo))'
    <3>1. ASSUME s.do \in {"insert", "comment"}
          PROVE  under'[s.memo] = 0 /\ ~HasComments(s.memo)' /\ ~IsComment(s.memo)'
      <4>1. s.memo \in Ids
        BY <3>1, <1>6 DEF Fits
      <4>2. under[s.memo] = 0 /\ ~HasComments(s.memo) /\ ~IsComment(s.memo)
        BY <1>6, <3>1 DEF Heard
      <4> QED BY <1>2, <1>4, <1>5, <4>1, <4>2
    <3> QED BY <3>1
  <2>2. s.do = "comment" => s.on \subseteq 1..made' /\ s.memo \notin s.on
    BY <1>2, <1>6 DEF Heard
  <2>3. s.do = "comments" => \A c \in s.on : ~HasComments(c)'
    <3>1. s.do = "comments" => \A c \in s.on : ~HasComments(c) /\ c # 0
      BY <1>2, <1>6 DEF Heard, Fits
    <3> QED BY <1>5, <3>1
  <2>4. s.do = "from" /\ s.memo \in memos' => Pending("row", s.memo)'
    BY <1>1, <1>3, <1>6 DEF Heard
  <2>5. ASSUME s.do = "to", NEW c \in memos', under'[c] = s.memo
        PROVE  \/ Pending("row", c)'
               \/ \E b \in B : b.do = "comments" /\ b.memo = s.memo /\ (b.on = {} \/ c \in b.on)
    <3>1. s.memo # 0 /\ c \in memos /\ c \in Ids
      BY <1>1, <1>2, <1>6, <2>5 DEF Heard
    <3>2. under[c] = s.memo
      BY <2>5, <3>1
    <3> QED BY <1>3, <1>6, <2>5, <3>1, <3>2 DEF Heard
  <2>6. s.do = "to" => s.memo # 0
    BY <1>6 DEF Heard
  <2> QED BY <2>1, <2>2, <2>3, <2>4, <2>5, <2>6 DEF Heard
<1>7. ASSUME NEW q \in Procs PROVE WellHeard(job[q].todo)' /\ LastComment(job'[q].todo)
  <2>1. CASE q = p
    BY <1>1, <2>1 DEF WellHeard
  <2>2. CASE q # p
    <3>1. PICK v : v = job[q].todo
      OBVIOUS
    <3>2. /\ v \in Seq(Statement) /\ v \in Seq(Kind(job[q].links)) /\ WellHeard(v) /\ job'[q].todo = v
          /\ LastComment(v)
      BY <1>1, <2>2, <3>1, JobIs DEF AllHeard, AllLast
    <3>3. ASSUME NEW i \in DOMAIN v PROVE Heard(v[i], Before(v, i))'
      <4>1. PICK B, s : B = Before(v, i) /\ s = v[i]
        OBVIOUS
      <4>2. Heard(s, B) /\ s \in Statement /\ s \in Kind(job[q].links)
        BY <3>2, <4>1 DEF WellHeard
      <4>3. Heard(s, B)'
        BY <1>6, <4>2 DEF Kind
      <4> QED BY <4>1, <4>3
    <3> QED BY <3>2, <3>3 DEF WellHeard
  <2> QED BY <2>1, <2>2
<1>8. AllHeard' /\ AllLast'
  BY <1>7 DEF AllHeard, AllLast, LastComment
<1>9. Noted'
  <2>1. ASSUME NEW c \in Ids, c > made'
        PROVE  under'[c] = 0 /\ ~IsComment(c)'
    <3>1. c > made
      BY <1>2, <2>1
    <3> QED BY <1>4, <2>1, <3>1 DEF Noted
  <2>2. ASSUME NEW c \in Ids, under'[c] # None PROVE under'[c] =< made'
    <3>1. CASE under'[c] = under[c]
      <4>1. under[c] \in Nat /\ under[c] =< made
        BY <2>2, <3>1, ConstantsOK DEF Noted, TypeInv, TablesTyped
      <4> QED BY <1>2, <3>1, <4>1
    <3>2. CASE under'[c] = 0
      BY <1>2, <3>2
    <3> QED BY <2>2, <3>1, <3>2
  <2> QED BY <2>1, <2>2 DEF Noted
<1>10. TopLevel'
  BY <1>2, <1>4, <1>5 DEF TopLevel
<1>11. Rooted'
  <2>1. ASSUME NEW r \in relations, r[3] = "COMMENT", under'[r[1]] \notin {r[2], None}
        PROVE  under'[r[1]] = 0 /\ Pending("to", r[2])'
    <3>1. r[1] \in Ids
      BY <1>2
    <3>2. under[r[1]] \in {r[2], None} \/ (under[r[1]] = 0 /\ Pending("to", r[2]))
      BY <2>1 DEF Rooted
    <3>3. CASE under'[r[1]] = under[r[1]]
      BY <1>3, <2>1, <3>2, <3>3
    <3>4. ASSUME under'[r[1]] = 0, NEW m \in Ids, under[r[1]] = m, Pending("to", m)'
          PROVE  under'[r[1]] = 0 /\ Pending("to", r[2])'
      <4>1. m # 0 /\ m # None
        BY <1>2, ConstantsOK
      <4>2. m = r[2]
        BY <3>2, <3>4, <4>1
      <4> QED BY <3>4, <4>2
    <3> QED BY <3>1, <3>3, <3>4
  <2> QED BY <1>1, <2>1 DEF Rooted
<1>12. Stays'
  <2>1. ASSUME NEW c \in memos, under'[c] \notin {0, None}
        PROVE  c \in Comments(under'[c]) \/ Pending("row", c)'
    <3>1. under'[c] = under[c]
      BY <1>2, <2>1
    <3> QED BY <1>3, <2>1, <3>1 DEF Stays
  <2>2. \A x : Comments(x)' = Comments(x)
    BY <1>1 DEF Comments
  <2>3. \A c \in memos : Comments(under[c])' = Comments(under'[c])
    BY <1>1 DEF Comments
  <2> QED BY <1>1, <2>1, <2>3 DEF Stays
<1> QED BY <1>8, <1>9, <1>10, <1>11, <1>12

LEMMA AnyHeard ==
  ASSUME NEW S, NEW v \in Seq(S), \A s \in S : s.do # "comment" /\ \A B : Heard(s, B)'
  PROVE  LastComment(v) /\ \A i \in DOMAIN v : Heard(v[i], Before(v, i))'
<1>1. \A i \in DOMAIN v : v[i] \in S
  OBVIOUS
<1> QED BY <1>1 DEF LastComment

LEMMA AboutHeard ==
  ASSUME NEW m, NEW s \in About(m)
  PROVE  s.do # "comment" /\ \A B : Heard(s, B)'
<1>1. s.do \notin {"insert", "comment", "comments", "from", "to"}
  BY DEF About, Plain, Kind, Linking
<1> QED BY <1>1 DEF Heard

(* A memo yet to be inserted is not related to any. *)
LEMMA InsertHeard ==
  ASSUME TypeInv, Noted, made < MaxMemos, UNCHANGED <<relations, under>>,
         NEW s, s.do \in {"insert", "comment"}, s.memo = New,
         s.do = "comment" => s.on \subseteq 1..made, made' = New
  PROVE  \A B : Heard(s, B)'
<1>1. made \in Nat /\ New \in Ids /\ New > made /\ New = made + 1
  BY ConstantsOK DEF New, Ids, TypeInv, TablesTyped
<1>2. under[New] = 0 /\ ~IsComment(New)
  BY <1>1 DEF Noted
<1>3. ~HasComments(New)
  <2>1. ASSUME NEW c \in Ids, under[c] = New PROVE FALSE
    <3>1. under[c] # None
      BY <1>1, <2>1, ConstantsOK DEF Ids
    <3>2. under[c] =< made
      BY <2>1, <3>1 DEF Noted
    <3> QED BY <1>1, <2>1, <3>2
  <2> QED BY <2>1 DEF HasComments
<1>4. (under[s.memo] = 0 /\ ~IsComment(s.memo) /\ ~HasComments(s.memo))'
  BY <1>2, <1>3 DEF IsComment, HasComments
<1>5. s.do = "comment" => s.on \subseteq 1..made' /\ s.memo \notin s.on
  BY <1>1
<1> QED BY <1>4, <1>5 DEF Heard

LEMMA TalkCreates ==
  ASSUME TypeInv, TypeInv', TalkOk, NEW p \in Procs,
         CreateMemo(p) \/ \E m \in memos : CreateMemoComment(p, m)
  PROVE  TalkOk'
<1>0. memos \subseteq 1..made /\ made < MaxMemos /\ made' = New /\ made =< made'
  <2>1. memos \subseteq 1..made /\ made \in Nat
    BY ConstantsOK DEF TypeInv, TablesTyped
  <2>2. made < MaxMemos /\ made' = New
    BY DEF CreateMemo, CreateMemoComment
  <2> QED BY <2>1, <2>2 DEF New
<1>1. PICK new, l : new = New /\ l = Do("insert", new, {})
  OBVIOUS
<1>2. UNCHANGED <<relations, under>>
  BY DEF CreateMemo, CreateMemoComment, Begin
<1>3. l.do = "insert" /\ l.memo = new /\ \A B : Heard(l, B)'
  BY <1>0, <1>1, <1>2, DoIs, InsertHeard DEF TalkOk
<1> DEFINE S == About(new) \cup {l}
<1>4. \A s \in S : s.do # "comment" /\ \A B : Heard(s, B)'
  BY <1>3, AboutHeard
<1>5. \A u \in Seq(About(new)) : <<l>> \o u \in Seq(S)
  <2>1. \A u \in Seq(About(new)) : u \in Seq(S) /\ <<l>> \in Seq(S)
    OBVIOUS
  <2> HIDE DEF S
  <2> QED BY <2>1, SeqBasics
<1> HIDE DEF S
<1>6. CASE CreateMemo(p)
  <2>1. PICK as \in SUBSET Attachments, ms \in SUBSET (1..made) :
          Begin(p, TRUE, CreateMemoBody(as, ms))
    BY <1>6 DEF CreateMemo
  <2>2. PICK u \in Seq(About(new)) : CreateMemoBody(as, ms) = <<l>> \o u
    BY <1>0, <1>1, CreatingIs
  <2>3. PICK w : w = <<l>> \o u /\ w \in Seq(S)
    BY <1>5
  <2>4. LastComment(w) /\ \A i \in DOMAIN w : Heard(w[i], Before(w, i))'
    BY <1>4, <2>3, AnyHeard
  <2> QED BY <1>0, <1>2, <2>1, <2>2, <2>3, <2>4, TalkBegins
<1>7. ASSUME NEW m \in memos, CreateMemoComment(p, m) PROVE TalkOk'
  <2>1. PICK as \in SUBSET Attachments, ms \in SUBSET (1..made) :
          Begin(p, TRUE, CreateMemoBody(as, ms) \o <<Do("comment", New, {m})>>)
    BY <1>7 DEF CreateMemoComment
  <2>2. PICK u \in Seq(About(new)) : CreateMemoBody(as, ms) = <<l>> \o u
    BY <1>0, <1>1, CreatingIs
  <2>3. PICK c : c = Do("comment", new, {m})
    OBVIOUS
  <2>4. c.do = "comment" /\ c.memo = new /\ c.on = {m}
    BY <2>3, DoIs
  <2>5. \A B : Heard(c, B)'
    BY <1>0, <1>1, <1>2, <2>4, InsertHeard DEF TalkOk
  <2>6. PICK v : v = <<l>> \o u /\ v \in Seq(S)
    BY <1>5
  <2>7. PICK w : w = v \o <<c>>
    OBVIOUS
  <2>8. Len(v) \in Nat /\ DOMAIN w = 1..(Len(v) + 1) /\ Len(w) = Len(v) + 1
        /\ \A i \in DOMAIN w : (i =< Len(v) /\ w[i] \in S) \/ (i = Len(v) + 1 /\ w[i] = c)
    BY <2>6, <2>7
  <2>9. LastComment(w)
    BY <1>4, <2>8 DEF LastComment
  <2>10. \A i \in DOMAIN w : Heard(w[i], Before(w, i))'
    BY <1>4, <2>5, <2>8
  <2>11. Begin(p, TRUE, w)
    BY <1>1, <2>1, <2>2, <2>3, <2>6, <2>7
  <2> QED BY <1>0, <1>2, <2>9, <2>10, <2>11, TalkBegins
<1> QED BY <1>6, <1>7

LEMMA TalkSets ==
  ASSUME TypeInv, TypeInv', TalkOk, NEW p \in Procs,
         \/ \E m \in memos : SetMemo(p, m)
         \/ \E a \in Attachments : DeleteAttachment(p, a) \/ \E m \in memos \cup {Loose} : CreateAttachment(p, a, m)
  PROVE  TalkOk'
<1>0. /\ memos \subseteq Ids /\ 1..made \subseteq Ids /\ made =< made'
      /\ UNCHANGED under
  <2>1. memos \subseteq 1..made /\ made \in Nat /\ 1..made \subseteq Ids
    BY ConstantsOK DEF TypeInv, TablesTyped, Ids
  <2>2. UNCHANGED <<made, under>>
    BY DEF SetMemo, DeleteAttachment, CreateAttachment
  <2> QED BY <2>1, <2>2
<1>1. ASSUME NEW m \in memos, SetMemo(p, m) PROVE TalkOk'
  <2>1. m \in Ids
    BY <1>0
  <2>2. PICK w \in Seq(About(m)) : Begin(p, TRUE, w)
    BY <1>0, <1>1, <2>1, SettingIs DEF SetMemo
  <2>3. LastComment(w) /\ \A i \in DOMAIN w : Heard(w[i], Before(w, i))'
    BY AboutHeard, AnyHeard
  <2> QED BY <1>0, <2>2, <2>3, TalkBegins
<1>2. ASSUME NEW S, NEW w \in Seq(S), \A s \in S : s.do \in {"upload", "remove"},
             Begin(p, TRUE, w) \/ Begin(p, FALSE, w)
      PROVE  TalkOk'
  <2>1. \A s \in S : s.do # "comment" /\ \A B : Heard(s, B)'
    BY <1>2 DEF Heard
  <2>2. LastComment(w) /\ \A i \in DOMAIN w : Heard(w[i], Before(w, i))'
    BY <2>1, AnyHeard
  <2> QED BY <1>0, <1>2, <2>2, TalkBegins
<1>3. ASSUME NEW a \in Attachments, DeleteAttachment(p, a) PROVE TalkOk'
  <2>1. PICK s, S : s = Do("remove", 0, {a}) /\ S = {s}
    OBVIOUS
  <2>2. PICK w : w = <<s>>
    OBVIOUS
  <2>3. w \in Seq(S)
    BY <2>1, <2>2, SeqBasics
  <2>4. Begin(p, FALSE, w)
    BY <1>3, <2>1, <2>2 DEF DeleteAttachment
  <2>5. \A x \in S : x.do \in {"upload", "remove"}
    BY <2>1, DoIs
  <2> QED BY <1>2, <2>3, <2>4, <2>5
<1>4. ASSUME NEW a \in Attachments, NEW m \in memos \cup {Loose}, CreateAttachment(p, a, m)
      PROVE  TalkOk'
  <2>1. PICK s, S : s = Do("upload", m, {a}) /\ S = {s}
    OBVIOUS
  <2>2. PICK w : w = <<s>>
    OBVIOUS
  <2>3. w \in Seq(S)
    BY <2>1, <2>2, SeqBasics
  <2>4. Begin(p, TRUE, w)
    BY <1>4, <2>1, <2>2 DEF CreateAttachment
  <2>5. \A x \in S : x.do \in {"upload", "remove"}
    BY <2>1, DoIs
  <2> QED BY <1>2, <2>3, <2>4, <2>5
<1> QED BY <1>1, <1>3, <1>4

LEMMA TalkDeletes ==
  ASSUME TypeInv, TypeInv', TalkOk, NEW p \in Procs, NEW m \in memos,
         DeleteMemo(p, m) \/ DeleteMemoByMCP(p, m)
  PROVE  TalkOk'
<1>0. /\ Ids \subseteq Nat \ {0} /\ memos \subseteq Ids /\ m \in Ids /\ m # 0
      /\ made \in Nat /\ made' = made /\ made =< made'
      /\ under \in [Ids -> (0..MaxMemos) \cup {None}]
  <2>1. /\ memos \subseteq 1..made /\ made \in Nat /\ 1..made \subseteq Ids
        /\ Ids \subseteq Nat \ {0} /\ under \in [Ids -> (0..MaxMemos) \cup {None}]
    BY ConstantsOK DEF TypeInv, TablesTyped, Ids
  <2>2. made' = made
    BY DEF DeleteMemo, DeleteMemoByMCP
  <2> QED BY <2>1, <2>2
<1> DEFINE a == Do("from", m, {})
           b == Do("to", m, {})
           c == Do("attachments", m, {})
           d == Do("row", m, {})
           e == Do("comments", m, {})
<1>1. /\ a.do = "from" /\ a.memo = m /\ b.do = "to" /\ b.memo = m
      /\ c.do = "attachments" /\ c.memo = m /\ d.do = "row" /\ d.memo = m
      /\ e.do = "comments" /\ e.memo = m /\ e.on = {}
  BY DoIs
<1>2. StoreDeleteMemo(m) = <<a, b, c, d>> /\ WithComments(m) = <<e>> \o <<a, b, c, d>>
  BY DEF StoreDeleteMemo, WithComments
<1> HIDE DEF a, b, c, d, e
<1>3. ASSUME NEW links, NEW todo, Begin(p, links, todo), NEW s \in All(todo)
      PROVE  Pending(s.do, s.memo)'
  <2>1. job'[p].todo = todo
    BY <1>3 DEF Begin, TypeInv, JobsTyped
  <2> QED BY <1>3, <2>1 DEF Pending
<1>4. CASE DeleteMemoByMCP(p, m)
  <2>1. PICK w : w = StoreDeleteMemo(m)
    OBVIOUS
  <2>2. /\ Begin(p, FALSE, w) /\ under' = [x \in Ids |-> IF under[x] = m THEN 0 ELSE under[x]]
        /\ memos' = memos
    BY <1>4, <2>1 DEF DeleteMemoByMCP, Begin
  <2>3. DOMAIN w = 1..4 /\ w[1] = a /\ w[2] = b /\ w[3] = c /\ w[4] = d /\ w \o <<>> = w
    BY <1>2, <2>1
  <2>4. b \in All(w) /\ d \in All(w)
    BY <2>3 DEF All
  <2>5. Pending("row", m)' /\ Pending("to", m)'
    BY <1>1, <1>3, <2>2, <2>4
  <2>6. \A x \in Ids : under'[x] # m
    BY <1>0, <2>2
  <2>7. \A i \in DOMAIN w : Heard(w[i], Before(w, i))'
    BY <1>0, <2>1, <2>2, <2>3, <2>5, <2>6, StoreDeleteHeard
  <2>8. \A x \in Ids : \/ under'[x] = under[x]
                       \/ under'[x] = 0 /\ \E y \in Ids : under[x] = y /\ Pending("to", y)'
    BY <1>0, <2>2, <2>5
  <2>9. LastComment(w)
    BY <1>1, <2>3 DEF LastComment
  <2> QED BY <1>0, <2>2, <2>7, <2>8, <2>9, TalkBegins
<1>5. CASE DeleteMemo(p, m)
  <2>1. PICK w : w = WithComments(m)
    OBVIOUS
  <2>2. Begin(p, FALSE, w) /\ UNCHANGED <<memos, under>>
    BY <1>5, <2>1 DEF DeleteMemo, Begin
  <2>3. DOMAIN w = 1..5 /\ w[1] = e /\ w[2] = a /\ w[3] = b /\ w[4] = c /\ w[5] = d
    BY <1>2, <2>1
  <2>4. d \in All(w)
    BY <2>3 DEF All
  <2>5. Pending("row", m)'
    BY <1>1, <1>3, <2>2, <2>4
  <2>6. e \in Before(w, 3)
    BY <2>3 DEF Before
  <2>7. \A B : Heard(a, B)' /\ Heard(c, B)' /\ Heard(d, B)' /\ Heard(e, B)'
    BY <1>1, <2>5 DEF Heard
  <2>8. \A B : e \in B => Heard(b, B)'
    BY <1>0, <1>1 DEF Heard
  <2>9. ASSUME NEW i \in DOMAIN w PROVE Heard(w[i], Before(w, i))'
    <3>1. CASE i = 3
      BY <2>3, <2>6, <2>8, <3>1
    <3>2. CASE i # 3
      <4>1. w[i] \in {a, c, d, e}
        BY <2>3, <3>2
      <4> QED BY <2>7, <4>1
    <3> QED BY <3>1, <3>2
  <2>10. LastComment(w)
    BY <1>1, <2>3 DEF LastComment
  <2> QED BY <1>0, <2>2, <2>9, <2>10, TalkBegins
<1> QED BY <1>4, <1>5

LEMMA InitTalk == Init => TalkInv
<1> SUFFICES ASSUME Init PROVE TalkInv
  OBVIOUS
<1>1. \A p \in Procs : job[p].todo = <<>>
  BY DEF Init, Idle
<1>2. Apart /\ AllHeard /\ AllLast
  BY <1>1 DEF Apart, Busy, AllHeard, WellHeard, AllLast, LastComment
<1>3. Noted
  BY ConstantsOK DEF Init, Noted, IsComment
<1>4. Stays /\ TopLevel /\ Rooted
  BY DEF Init, Stays, TopLevel, IsComment, Rooted
<1> QED BY <1>2, <1>3, <1>4, InitType DEF TalkInv, TalkOk

LEMMA NextTalk ==
  ASSUME Alone, TalkInv, [Next]_vars
  PROVE  TalkInv'
<1> USE DEF TalkInv
<1>0. TypeInv'
  BY NextType
<1>1. CASE UNCHANGED vars
  <2>1. UNCHANGED <<memos, made, relations, job, under, whole>>
    BY <1>1 DEF vars
  <2>2. Apart' = Apart /\ AllLast' = AllLast
    BY <2>1 DEF Apart, Busy, AllLast
  <2>3. (\A do, m : Pending(do, m)' = Pending(do, m)) /\ (\A c : IsComment(c)' = IsComment(c))
        /\ (\A c : HasComments(c)' = HasComments(c)) /\ (\A m : Comments(m)' = Comments(m))
    BY <2>1 DEF Pending, IsComment, HasComments, Comments
  <2>4. \A s, B : Heard(s, B)' = Heard(s, B)
    BY <2>1, <2>3 DEF Heard
  <2>5. AllHeard' = AllHeard
    BY <2>1, <2>4 DEF AllHeard, WellHeard
  <2>6. Noted' = Noted /\ TopLevel' = TopLevel /\ Rooted' = Rooted
    BY <2>1, <2>3 DEF Noted, TopLevel, Rooted
  <2>7. Stays' = Stays
    BY <2>1, <2>3 DEF Stays, Comments
  <2> QED BY <1>0, <2>1, <2>2, <2>5, <2>6, <2>7 DEF TalkOk
<1>2. CASE Crash
  <2>1. \A p \in Procs : job'[p].todo = <<>>
    BY <1>2 DEF Crash, Idle
  <2> QED BY <1>0, <1>2, <2>1 DEF Crash, Apart, Busy
<1>3. ASSUME NEW p \in Procs, Request(p) PROVE TalkInv'
  <2>1. \E links \in BOOLEAN : \E todo : Begin(p, links, todo)
    BY <1>3 DEF Request, CreateMemo, CreateMemoComment, SetMemo, CreateAttachment, DeleteAttachment,
       DeleteMemo, DeleteMemoByMCP
  <2>2. Apart' /\ whole' = whole
    BY <2>1, BeginApart DEF Begin
  <2>3. TalkOk => TalkOk'
    BY <1>0, <1>3, TalkCreates, TalkSets, TalkDeletes DEF Request
  <2> QED BY <1>0, <2>2, <2>3
<1>4. ASSUME NEW p \in Procs, Execute(p) PROVE TalkInv'
  <2>1. Busy(p) /\ \E todo : Continue(p, todo)
    BY <1>4 DEF Execute, InsertMemo, InsertAttachment, ListForUpdate, UpdateAttachment,
       DeleteReferences, InsertReference, InsertComment, ListComments, DeleteComment,
       DeleteRelations, ListForDelete, RemoveAttachment, DeleteRow, StatementFails, GoOn, BreakOff
  <2>2. Apart'
    BY <2>1, ApartContinues
  <2>3. whole' => whole
    BY <1>4 DEF Execute, InsertMemo, InsertAttachment, ListForUpdate, UpdateAttachment,
       DeleteReferences, InsertReference, InsertComment, ListComments, DeleteComment,
       DeleteRelations, ListForDelete, RemoveAttachment, DeleteRow, StatementFails, BreakOff
  <2>4. ASSUME TalkOk, whole' PROVE TalkOk'
    <3>1. ~StatementFails(p)
      BY <2>4 DEF StatementFails, BreakOff
    <3> QED BY <1>4, <2>1, <2>4, <3>1, TalkLinks, TalkRows, TalkDeletesComment, TalkComments DEF Execute
  <2> QED BY <1>0, <2>2, <2>3, <2>4
<1> QED BY <1>1, <1>2, <1>3, <1>4 DEF Next

(* While no other request is busy beside one that makes links, and as long   *)
(* as no request breaks off, a comment is found as a comment on its memo for *)
(* as long as it is there: deletions of memos, comments and attachments may  *)
(* overlap in any order, and memos may be commented on, referred to and      *)
(* rewritten between them (DeleteMemo, CreateMemoComment).                   *)
THEOREM CommentsGoWithTheirMemo ==
  ASSUME Alone
  PROVE  Spec => []CommentsGo
<1>1. TalkInv /\ [Next]_vars => TalkInv'
  BY NextTalk
<1>2. TalkInv => CommentsGo
  <2> SUFFICES ASSUME TalkInv, whole, AllIdle, NEW c \in memos, under[c] \notin {0, None}
               PROVE  c \in Comments(under[c])
    BY DEF CommentsGo
  <2>1. ~Pending("row", c)
    BY DEF Pending, All, AllIdle, Busy
  <2> QED BY <2>1 DEF TalkInv, TalkOk, Stays
<1> QED BY <1>1, <1>2, InitTalk, PTL DEF Spec
=============================================================================
