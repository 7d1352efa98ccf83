------------------------------- MODULE Filter -------------------------------
(***************************************************************************)
(* The filter engine (plugin/filter): a CEL expression over the fields of  *)
(* a memo becomes a condition tree, the tree becomes a piece of SQL with   *)
(* its arguments, and ListMemos asks the database for the memos for which  *)
(* that SQL is true.  A behaviour is one listing of one memo.              *)
(*                                                                         *)
(* Expressions are records with a field op; conditions are the same trees, *)
(* since buildCondition only checks and renames.  Text is a sequence of    *)
(* characters, because tags are matched inside the JSON text of the        *)
(* payload, with the wildcards and the letter case of LIKE.  No text holds *)
(* a quotation mark or a backslash, and letters that differ in accents     *)
(* only are different in every database.                                   *)
(***************************************************************************)
EXTENDS Integers, Sequences, SequencesExt, FiniteSets

CONSTANTS
    None,       \* no value: an anonymous caller, no notebook, no parent
    Dialects,   \* the databases, out of "sqlite", "mysql" and "postgres"
    Memos,      \* the memos that may be stored
    Exprs,      \* the filters that may be asked for
    Callers,    \* the users that may ask; None stands for nobody signed in
    AsciiLower, \* the capital letters of ASCII, each with its small letter
    OtherLower  \* the other capital letters, each with its small letter

VARIABLES
    dialect,    \* the database in use
    memo,       \* the memo stored
    request,    \* the filter and the caller
    answer      \* how far the listing is, its SQL, arguments and result

vars == <<dialect, memo, request, answer>>

-----------------------------------------------------------------------------
\* NewSchema and NewAttachmentSchema: how each field is stored.
Kind ==
    [pinned |-> "bool_column", has_task_list |-> "json_bool",
     has_link |-> "json_bool", tags |-> "json_list", tag |-> "alias",
     content |-> "scalar", notebook_id |-> "scalar", creator_id |-> "scalar",
     visibility |-> "scalar", created_ts |-> "scalar", memo_id |-> "scalar"]

\* The fields that may only be compared for equality.
EqualityOnly == {"pinned", "has_task_list", "has_link", "notebook_id",
                 "creator_id", "visibility", "memo_id"}

Negation(e)      == [op |-> "not", arg |-> e]
Conjunction(a, b) == [op |-> "and", left |-> a, right |-> b]
Disjunction(a, b) == [op |-> "or", left |-> a, right |-> b]

\* Legacy filters use a number as a condition; behind && and || it is
\* rewritten to a comparison with zero.
RECURSIVE Normalized(_)
Normalized(e) ==
    LET Operand(x) == IF x.op = "num" THEN [op |-> "numcmp", num |-> x.num] ELSE Normalized(x)
    IN CASE e.op = "not" -> Negation(Normalized(e.arg))
         [] e.op \in {"and", "or"} ->
              [op |-> e.op, left |-> Normalized(e.left), right |-> Operand(e.right)]
         [] OTHER -> e

\* buildCondition accepts the expression.
RECURSIVE Compiles(_)
Compiles(e) ==
    CASE e.op = "not" -> Compiles(e.arg)
      [] e.op \in {"and", "or"} -> Compiles(e.left) /\ Compiles(e.right)
      [] e.op = "field" -> Kind[e.name] \in {"bool_column", "json_bool"}
      [] e.op \in {"is", "cmp"} -> e.name \in EqualityOnly => e.rel \in {"==", "!="}
      [] e.op = "exists" -> e.pred \in {"startsWith", "endsWith", "contains"}
      [] OTHER -> e.op # "all"

\* The renderer knows how to write the condition.
RECURSIVE Renders(_)
Renders(e) ==
    CASE e.op = "not" -> Renders(e.arg)
      [] e.op \in {"and", "or"} -> Renders(e.left) /\ Renders(e.right)
      [] e.op \in {"is", "cmp", "isnull"} -> Kind[e.name] \notin {"json_list", "alias"}
      [] OTHER -> e.op # "numcmp"

-----------------------------------------------------------------------------
\* What a filter says of a memo, by the meaning of CEL: a flag that is not
\* set is false and a memo without tags has none.  "tag in [...]" stands for
\* the tag or any tag below it.  Unlike CEL's, content.contains overlooks
\* case (TestMemoFilterContentUnicodeCaseFold), and so do tags on SQLite.
Relates(a, rel, b) ==
    CASE rel = "==" -> a = b
      [] rel = "!=" -> a # b
      [] rel = "<"  -> a < b
      [] rel = ">=" -> a >= b

Occurs(part, text) == part \in SubSeqs(text)

Lowered(lower, text) ==
    [i \in DOMAIN text |-> IF text[i] \in DOMAIN lower THEN lower[text[i]] ELSE text[i]]

\* memos_unicode_lower, ILIKE and MySQL's collation: content is searched
\* without regard to case.
AnyCase(text) == Lowered(OtherLower, Lowered(AsciiLower, text))

\* LIKE over the JSON text of the tags: only SQLite's overlooks case, and
\* only that of ASCII letters.
TagCase(text) == IF dialect = "sqlite" THEN Lowered(AsciiLower, text) ELSE text

Below(tag, top) == tag = top \/ IsPrefix(top \o <<"/">>, tag)

TagSatisfies(pred, tag, text) ==
    CASE pred = "startsWith" -> IsPrefix(text, tag)
      [] pred = "endsWith"   -> IsSuffix(text, tag)
      [] pred = "contains"   -> Occurs(text, tag)

TagsOf(m) == {TagCase(m.tags[i]) : i \in DOMAIN m.tags}

RECURSIVE Says(_, _)
Says(e, m) ==
    CASE e.op = "const"    -> e.flag
      [] e.op = "not"      -> ~Says(e.arg, m)
      [] e.op = "and"      -> Says(e.left, m) /\ Says(e.right, m)
      [] e.op = "or"       -> Says(e.left, m) \/ Says(e.right, m)
      [] e.op = "field"    -> m[e.name]
      [] e.op = "is"       -> Relates(m[e.name], e.rel, e.flag)
      [] e.op = "cmp"      -> Relates(m[e.name], e.rel, e.num)
      [] e.op = "isnull"   -> (m[e.name] = None) <=> (e.rel = "==")
      [] e.op = "size"     -> Relates(Len(m.tags), e.rel, e.num)
      [] e.op = "elem"     -> TagCase(e.text) \in TagsOf(m)
      [] e.op = "intags"   -> \E tag \in TagsOf(m), t \in e.texts : Below(tag, TagCase(t))
      [] e.op = "in"       -> m[e.name] \in e.values
      [] e.op = "exists"   -> \E tag \in TagsOf(m) : TagSatisfies(e.pred, tag, TagCase(e.text))
      [] e.op = "contains" -> Occurs(AnyCase(e.text), AnyCase(m.content))

-----------------------------------------------------------------------------
\* The truth values of SQL, in the order that makes AND the least and OR the
\* greatest of two.
No == 0
Unknown == 1
Yes == 2

Truth(b) == IF b THEN Yes ELSE No
Known(present, b) == IF present THEN Truth(b) ELSE Unknown

\* LIKE: "%" stands for any text and "_" for any one character.
RECURSIVE Matches(_, _)
Matches(pattern, text) ==
    IF pattern = <<>> THEN text = <<>>
    ELSE IF Head(pattern) = "%"
         THEN \E k \in 0..Len(text) : Matches(Tail(pattern), SubSeq(text, k + 1, Len(text)))
         ELSE /\ text # <<>>
              /\ Head(pattern) \in {"_", Head(text)}
              /\ Matches(Tail(pattern), Tail(text))

\* Patterns are made with "%" at both ends, and texts go into them as they
\* are, their own "%" and "_" not escaped.
LikeWithin(part, text) == Matches(<<"%">> \o part \o <<"%">>, text)

\* The JSON text of the tags of a memo: SQLite's has no blanks.
Quote == <<"'">>
Separator == IF dialect = "sqlite" THEN <<",">> ELSE <<",", " ">>
TagText(m) ==
    LET item(i) == Quote \o m.tags[i] \o Quote
        rest == FlattenSeq([i \in 1..(Len(m.tags) - 1) |-> Separator \o item(i + 1)])
    IN <<"[">> \o item(1) \o rest \o <<"]">>

\* JSON_EXTRACT finds what protojson.Marshal wrote: neither a flag that is
\* false nor an empty list.
HasTags(m) == m.tags # <<>>

\* buildJSONArrayLike
Like(m, part) ==
    Known(HasTags(m), HasTags(m) /\ LikeWithin(TagCase(part), TagCase(TagText(m))))

\* An array element compared as a whole; SQLite has only LIKE for it.
TagIs(m, text) ==
    IF dialect = "sqlite" THEN Like(m, Quote \o text \o Quote)
    ELSE Known(HasTags(m), \E i \in DOMAIN m.tags : m.tags[i] = text)

Either(a, b) == IF a > b THEN a ELSE b
Both(a, b) == IF a < b THEN a ELSE b

\* Mutant of AnyTag: any tag that begins with the text counts as below it.
AnyTagByPrefix(m, texts) ==
    LET hit(t) == Either(TagIs(m, t), Like(m, Quote \o t))
    IN CHOOSE v \in {hit(t) : t \in texts} : \A t \in texts : hit(t) <= v

\* renderTagInList
AnyTag(m, texts) ==
    LET hit(t) == Either(TagIs(m, t), Like(m, Quote \o t \o <<"/">>))
    IN CHOOSE v \in {hit(t) : t \in texts} : \A t \in texts : hit(t) <= v

\* renderTagStartsWith, renderTagEndsWith, renderTagContains
LikeTag(e, m) ==
    CASE e.pred = "startsWith" -> Either(TagIs(m, e.text), Like(m, Quote \o e.text))
      [] e.pred = "endsWith"   -> Like(m, e.text \o Quote)
      [] e.pred = "contains"   -> Like(m, e.text)

\* Mutant of NotNull: the check for a missing list is left out.
NotNullUnchecked(v, m) == v

\* wrapWithNullCheck
NotNull(v, m) == Both(v, Truth(HasTags(m)))

\* renderListComprehension
AnyTagLike(e, m) == NotNull(LikeTag(e, m), m)

\* jsonBoolPredicate: the flag is there and true.
FlagIsTrue(m, name) == Truth(m[name])

\* renderJSONBoolComparison: only SQLite, and there only for some flags,
\* takes a missing flag for false.
FlagCompares(m, name, rel, flag) ==
    IF dialect = "sqlite" /\ name # "has_task_list"
    THEN Truth(Relates(m[name], rel, flag))
    ELSE Known(m[name], Relates(TRUE, rel, flag))

\* renderScalarComparison, renderScalarInCondition: a column may be NULL.
Stored(m, name) == m[name] # None

\* A condition as the database evaluates it.
Evaluates(e, m) ==
    CASE e.op = "field"    -> FlagIsTrue(m, e.name)
      [] e.op = "is" /\ Kind[e.name] = "json_bool" -> FlagCompares(m, e.name, e.rel, e.flag)
      [] e.op = "is" /\ Kind[e.name] = "bool_column" -> Truth(Relates(m[e.name], e.rel, e.flag))
      [] e.op = "cmp" ->
           Known(Stored(m, e.name), Stored(m, e.name) /\ Relates(m[e.name], e.rel, e.num))
      [] e.op = "isnull"   -> Truth((m[e.name] = None) <=> (e.rel = "=="))
      [] e.op = "size"     -> Truth(Relates(Len(m.tags), e.rel, e.num))
      [] e.op = "elem"     -> TagIs(m, e.text)
      [] e.op = "intags"   -> AnyTag(m, e.texts)
      [] e.op = "in"       -> Known(Stored(m, e.name), m[e.name] \in e.values)
      [] e.op = "exists"   -> AnyTagLike(e, m)
      [] e.op = "contains" -> Truth(LikeWithin(AnyCase(e.text), AnyCase(m.content)))

-----------------------------------------------------------------------------
\* A rendered condition: its SQL, the placeholders in the order they appear
\* in it, and the arguments added so far.  A placeholder remembers the
\* argument it was made with and the number it was given.
Leaf(e)     == [op |-> "leaf", expr |-> e]
AlwaysFalse == [op |-> "false"]
Nothing     == [op |-> "none"]

Result(sql, marks, args) ==
    [sql |-> sql, marks |-> marks, args |-> args, trivial |-> FALSE, unsatisfiable |-> FALSE]
Trivial(args) == [Result(Nothing, <<>>, args) EXCEPT !.trivial = TRUE]
Unsatisfiable(args) == [Result(AlwaysFalse, <<>>, args) EXCEPT !.unsatisfiable = TRUE]

\* How many arguments the SQL of a condition takes.
Arity(e) ==
    CASE e.op \in {"field", "isnull"} -> 0
      [] e.op = "is" /\ Kind[e.name] = "json_bool" -> IF dialect = "postgres" THEN 1 ELSE 0
      [] e.op = "intags" -> 2 * Cardinality(e.texts)
      [] e.op = "in" -> Cardinality(e.values)
      [] e.op = "exists" -> IF e.pred = "startsWith" THEN 2 ELSE 1
      [] OTHER -> 1

\* Mutant of AddArgs: placeholders are numbered from the start of each filter.
AddArgsWithoutOffset(e, c, offset, args) ==
    LET new == [i \in 1..Arity(e) |-> <<c, Len(args) + i>>]
        marks == [i \in 1..Arity(e) |-> [arg |-> new[i], number |-> Len(args) + i]]
    IN Result(Leaf(e), marks, args \o new)

\* addArg, once for each placeholder of a condition of clause c.
AddArgs(e, c, offset, args) ==
    LET new == [i \in 1..Arity(e) |-> <<c, Len(args) + i>>]
        marks == [i \in 1..Arity(e) |-> [arg |-> new[i], number |-> offset + Len(args) + i]]
    IN Result(Leaf(e), marks, args \o new)

CombineAnd(l, r) ==
    CASE l.unsatisfiable \/ r.unsatisfiable -> Unsatisfiable(r.args)
      [] l.trivial /\ ~r.unsatisfiable -> r
      [] r.trivial /\ ~l.trivial /\ ~l.unsatisfiable -> [l EXCEPT !.args = r.args]
      [] OTHER -> Result(Conjunction(l.sql, r.sql), l.marks \o r.marks, r.args)

CombineOr(l, r) ==
    CASE l.trivial \/ r.trivial -> Trivial(r.args)
      [] l.unsatisfiable /\ ~r.trivial -> r
      [] r.unsatisfiable /\ ~l.trivial /\ ~l.unsatisfiable -> [l EXCEPT !.args = r.args]
      [] OTHER -> Result(Disjunction(l.sql, r.sql), l.marks \o r.marks, r.args)

RenderNot(x) ==
    CASE x.trivial -> Unsatisfiable(x.args)
      [] x.unsatisfiable -> Trivial(x.args)
      [] OTHER -> Result(Negation(x.sql), x.marks, x.args)

\* renderCondition: the right side is rendered after the left one, with its
\* arguments behind those of the left, kept or not.
RECURSIVE Render(_, _, _, _)
Render(e, c, offset, args) ==
    CASE e.op = "const" -> IF e.flag THEN Trivial(args) ELSE Unsatisfiable(args)
      [] e.op = "not" -> RenderNot(Render(e.arg, c, offset, args))
      [] e.op \in {"and", "or"} ->
           LET l == Render(e.left, c, offset, args)
               r == Render(e.right, c, offset, l.args)
           IN IF e.op = "and" THEN CombineAnd(l, r) ELSE CombineOr(l, r)
      [] OTHER -> AddArgs(e, c, offset, args)

\* A condition that a driver adds by itself, with its one argument.
BuiltIn(e, c, offset) == AddArgs(e, c, offset, <<>>)

\* AppendConditions: a filter that says nothing adds neither SQL nor
\* arguments; any other adds both.
Append1(where, args, res) ==
    IF res.trivial THEN [where |-> where, args |-> args]
    ELSE [where |-> Append(where, [sql |-> res.sql, marks |-> res.marks]),
          args |-> args \o res.args]

\* The filters of a listing: what was asked for, and for a caller who is
\* signed in the memos that are theirs or shared.
VisibleTo(u) ==
    Disjunction([op |-> "cmp", name |-> "creator_id", rel |-> "==", num |-> u],
                [op |-> "in", name |-> "visibility", values |-> {"PUBLIC", "PROTECTED"}])

OnlyPublic == [op |-> "in", name |-> "visibility", values |-> {"PUBLIC"}]
NotArchived == [op |-> "in", name |-> "row_status", values |-> {"NORMAL"}]

\* The WHERE clause: the filters first, then the conditions of the driver.
Statement(e, u) ==
    LET first  == Append1(<<>>, <<>>, Render(e, 1, 0, <<>>))
        second == IF u = None THEN first
                  ELSE Append1(first.where, first.args,
                               Render(VisibleTo(u), 2, Len(first.args), <<>>))
        third  == Append1(second.where, second.args,
                          BuiltIn(NotArchived, 3, Len(second.args)))
    IN IF u # None THEN third
       ELSE Append1(third.where, third.args, BuiltIn(OnlyPublic, 4, Len(third.args)))

-----------------------------------------------------------------------------
\* The database: the placeholders of a statement in the order of its text.
Marks(where) == FlattenSeq([i \in DOMAIN where |-> where[i].marks])

\* "?" takes the next argument, "$n" the n-th.
Bound(where, args) ==
    LET marks == Marks(where)
        Value(i) == IF dialect = "postgres" THEN marks[i].number ELSE i
    IN /\ Len(marks) = Len(args)
       /\ \A i \in DOMAIN marks : args[Value(i)] = marks[i].arg

RECURSIVE Value3(_, _)
Value3(sql, m) ==
    CASE sql.op = "leaf"  -> Evaluates(sql.expr, m)
      [] sql.op = "false" -> No
      [] sql.op = "not"   -> Yes - Value3(sql.arg, m)
      [] sql.op = "and"   -> Both(Value3(sql.left, m), Value3(sql.right, m))
      [] sql.op = "or"    -> Either(Value3(sql.left, m), Value3(sql.right, m))

Selected(where, m) == \A i \in DOMAIN where : Value3(where[i].sql, m) = Yes

-----------------------------------------------------------------------------
Asked == [stage |-> "asked", where |-> <<>>, args |-> <<>>, listed |-> FALSE]

Init ==
    /\ dialect \in Dialects
    /\ memo \in Memos
    /\ request \in [filter : Exprs, by : Callers]
    /\ answer = Asked

\* validateFilter and CompileToStatement return an error.
Refuse ==
    LET e == Normalized(request.filter)
    IN /\ answer.stage = "asked"
       /\ ~(Compiles(e) /\ Renders(e))
       /\ answer' = [answer EXCEPT !.stage = "refused"]
       /\ UNCHANGED <<dialect, memo, request>>

Compile ==
    LET e == Normalized(request.filter)
        s == Statement(e, request.by)
    IN /\ answer.stage = "asked"
       /\ Compiles(e)
       /\ Renders(e)
       /\ answer' = [answer EXCEPT !.stage = "sent", !.where = s.where, !.args = s.args]
       /\ UNCHANGED <<dialect, memo, request>>

\* The query runs.  With arguments out of place its result may be anything.
Query ==
    /\ answer.stage = "sent"
    /\ \E listed \in BOOLEAN :
         /\ Bound(answer.where, answer.args) => listed = Selected(answer.where, memo)
         /\ answer' = [answer EXCEPT !.stage = "answered", !.listed = listed]
    /\ UNCHANGED <<dialect, memo, request>>

Next == Refuse \/ Compile \/ Query

Spec == Init /\ [][Next]_vars

-----------------------------------------------------------------------------
\* Conditions that every database answers with yes or no for every memo.
RECURSIVE NullSafe(_)
NullSafe(e) ==
    CASE e.op = "not" -> NullSafe(e.arg)
      [] e.op \in {"and", "or"} -> NullSafe(e.left) /\ NullSafe(e.right)
      [] e.op = "is" -> Kind[e.name] = "bool_column"
      [] e.op = "cmp" -> e.name = "created_ts"
      [] OTHER -> e.op \notin {"elem", "intags"}

\* No text of the filter is read as more than itself: it holds no wildcard,
\* and a text for tags none of the signs JSON puts between them.
Free(text, signs) == \A i \in DOMAIN text : text[i] \notin signs

RECURSIVE Literal(_)
Literal(e) ==
    LET wildcards == {"%", "_"}
        json == {"[", "]", ",", " "}
    IN CASE e.op = "not" -> Literal(e.arg)
         [] e.op \in {"and", "or"} -> Literal(e.left) /\ Literal(e.right)
         [] e.op = "contains" -> Free(e.text, wildcards)
         [] e.op \in {"elem", "exists"} -> Free(e.text, wildcards \cup json)
         [] e.op = "intags" -> \A t \in e.texts : Free(t, wildcards \cup json)
         [] OTHER -> TRUE

RECURSIVE ConstantFree(_)
ConstantFree(e) ==
    CASE e.op = "not" -> ConstantFree(e.arg)
      [] e.op \in {"and", "or"} -> ConstantFree(e.left) /\ ConstantFree(e.right)
      [] OTHER -> e.op # "const"

MayBeSeen(m, u) ==
    /\ m.row_status = "NORMAL"
    /\ \/ m.visibility = "PUBLIC"
       \/ u # None /\ (m.visibility = "PROTECTED" \/ m.creator_id = u)

Answered == answer.stage = "answered" /\ Bound(answer.where, answer.args)

\* A memo is listed only if the filter says so and the caller may see it,
\* however conditions on missing flags, tags and notebooks are negated and
\* combined: the three truth values of SQL never turn into a wrong yes, nor
\* does the search of single tags in the JSON text of all of them.  Filters
\* with a wildcard or a sign of JSON in a text are left out: of those only
\* that the caller may see what is listed.
ListsOnlyMatching ==
    Answered /\ answer.listed =>
        /\ Literal(request.filter) => Says(request.filter, memo)
        /\ MayBeSeen(memo, request.by)

\* The same for every filter; the code does not keep this.
TextsStandForThemselves == Answered /\ answer.listed => Says(request.filter, memo)

\* Tags satisfy a predicate letter by letter as in CEL; the code does not
\* keep this on SQLite.
TagsByLetter ==
    Answered /\ answer.listed /\ Literal(request.filter) /\ request.filter.op = "exists" =>
        \E i \in DOMAIN memo.tags :
            TagSatisfies(request.filter.pred, memo.tags[i], request.filter.text)

\* A flag or a list that is missing in the payload behaves as false or empty
\* ("we want missing fields to behave as false", memo_filter_test.go), so a
\* filter made of predicates lists every memo it should on each database,
\* and with texts that stand for themselves no other.
MissingIsFalse ==
    Answered /\ NullSafe(request.filter) /\ Literal(request.filter)
             /\ MayBeSeen(memo, request.by)
        => (answer.listed <=> Says(request.filter, memo))

\* Every placeholder gets the argument it was made for, whatever filters and
\* conditions of the driver stand before it.  Filters that hold a constant
\* are left out: the side the renderer drops leaves its arguments behind.
ArgumentsFit ==
    answer.stage = "sent" /\ ConstantFree(request.filter) => Bound(answer.where, answer.args)

=============================================================================
