------------------------------ MODULE RqlParser ------------------------------
(***************************************************************************)
(* rql/parser.rs: the recursive-descent parser of RQL, over the tokens of  *)
(* rql/lexer.rs.  A literal or an identifier is the token of its kind: the *)
(* parser copies the text and never looks at it.  The editor validates a   *)
(* statement while it is typed (validate_query), token by token.           *)
(***************************************************************************)
EXTENDS Naturals, Sequences, FiniteSets

CONSTANTS MaxTokens, \* bound: tokens typed after the beginning of the statement
          Begun      \* statements as far as they were typed before the behaviour starts

VARIABLES typed,    \* the tokens of the statement so far
          allowance \* tokens that may still be typed

parserVars == <<typed, allowance>>

(***************************************************************************)
(* Tokens                                                                  *)
(***************************************************************************)

Relations == {"references", "referenced_by", "supersedes"}

Aggregates == {"count", "sum"}

Comparators == {"eq", "ne", "lt"}

Literals == {"str", "num", "true", "null"}

Token ==
  Relations \cup Aggregates \cup Comparators \cup Literals \cup
  {"select", "from", "where", "update", "delete", "set", "and", "or", "not", "in", "like", "is",
   "contains", "all", "any", "search", "reason", "with", "confidence", "order", "group", "by",
   "asc", "desc", "limit", "offset", "as", "explain", "related", "to", "star", "comma", "dot",
   "lparen", "rparen", "lbracket", "rbracket", "gt", "id"}

\* current: the lexer ends every statement with Eof.
Current(ts, i) == IF i <= Len(ts) THEN ts[i] ELSE "eof"

(***************************************************************************)
(* Results: a tree and the next position, or an error at a position        *)
(***************************************************************************)

Ok(tree, i) == [ok |-> TRUE, tree |-> tree, pos |-> i]

Error(i) == [ok |-> FALSE, tree |-> <<>>, pos |-> i]

\* The `?` operator: go on with the result, or return its error.
Then(r, F(_, _)) == IF r.ok THEN F(r.tree, r.pos) ELSE r

None == <<>>

Expect(ts, i, kinds) == IF Current(ts, i) \in kinds THEN Ok(Current(ts, i), i + 1) ELSE Error(i)

\* An Option: the one tree that P parses after one of the keywords, or None.
Optional(ts, i, keywords, P(_)) ==
  IF Current(ts, i) \in keywords THEN Then(P(i + 1), LAMBDA x, j : Ok(<<x>>, j)) ELSE Ok(None, i)

RECURSIVE PathRest(_, _, _)
PathRest(ts, i, path) ==
  CASE Current(ts, i) = "dot" ->
         Then(Expect(ts, i + 1, {"id"}), LAMBDA name, j : PathRest(ts, j, Append(path, "id")))
    [] Current(ts, i) = "lbracket" ->
         Then(Expect(ts, i + 1, {"num"}), LAMBDA idx, j :
           Then(Expect(ts, j, {"rbracket"}), LAMBDA b, k : PathRest(ts, k, Append(path, "num"))))
    [] OTHER -> Ok(path, i)

FieldPath(ts, i) == Then(Expect(ts, i, {"id"}), LAMBDA name, j : PathRest(ts, j, <<"id">>))

RECURSIVE ListRest(_, _, _, _)
ListRest(ts, i, P(_), items) ==
  Then(P(i), LAMBDA x, j :
    IF Current(ts, j) = "comma" THEN ListRest(ts, j + 1, P, Append(items, x))
    ELSE Ok(Append(items, x), j))

Value(ts, i) == Then(Expect(ts, i, Literals), LAMBDA v, j : Ok(<<v>>, j))

ValueList(ts, i) ==
  Then(Expect(ts, i, {"lparen"}), LAMBDA l, j :
    IF Current(ts, j) = "rparen" THEN Ok(None, j + 1)
    ELSE Then(ListRest(ts, j, LAMBDA k : Value(ts, k), None), LAMBDA vs, k :
           Then(Expect(ts, k, {"rparen"}), LAMBDA r, m : Ok(vs, m))))

(***************************************************************************)
(* Conditions                                                              *)
(***************************************************************************)

Comparison(path, op, right) == [op |-> op, path |-> path, right |-> right]

ParseComparison(ts, i) ==
  Then(FieldPath(ts, i), LAMBDA path, j :
    CASE Current(ts, j) = "is" /\ Current(ts, j + 1) = "not" ->
           Then(Expect(ts, j + 2, {"null"}), LAMBDA n, k : Ok(Comparison(path, "isnotnull", None), k))
      [] Current(ts, j) = "is" /\ Current(ts, j + 1) # "not" ->
           Then(Expect(ts, j + 1, {"null"}), LAMBDA n, k : Ok(Comparison(path, "isnull", None), k))
      [] Current(ts, j) = "contains" ->
           Then(Expect(ts, j + 1, {"all", "any"}), LAMBDA op, k :
             Then(ValueList(ts, k), LAMBDA vs, m : Ok(Comparison(path, op, vs), m)))
      [] Current(ts, j) = "in" ->
           Then(ValueList(ts, j + 1), LAMBDA vs, k : Ok(Comparison(path, "in", vs), k))
      [] OTHER ->
           Then(Expect(ts, j, Comparators \cup {"gt", "like"}), LAMBDA op, k :
             Then(Value(ts, k), LAMBDA v, m : Ok(Comparison(path, op, v), m))))

RECURSIVE ParseOr(_, _), OrRest(_, _, _), ParseAnd(_, _), AndRest(_, _, _)

ParsePrimary(ts, i) ==
  CASE Current(ts, i) = "lparen" ->
         Then(ParseOr(ts, i + 1), LAMBDA c, j :
           Then(Expect(ts, j, {"rparen"}), LAMBDA r, k : Ok(c, k)))
    [] Current(ts, i) = "str" /\ Current(ts, i + 1) = "in" ->
         Then(FieldPath(ts, i + 2), LAMBDA path, j : Ok(Comparison(path, "any", <<<<"str">>>>), j))
    [] OTHER -> ParseComparison(ts, i)

ParseNot(ts, i) ==
  IF Current(ts, i) = "not"
    THEN Then(ParsePrimary(ts, i + 1), LAMBDA c, j : Ok([op |-> "not", inner |-> c], j))
    ELSE ParsePrimary(ts, i)

AndRest(ts, i, left) ==
  IF Current(ts, i) # "and" THEN Ok(left, i)
  ELSE Then(ParseNot(ts, i + 1), LAMBDA right, j :
         AndRest(ts, j, [op |-> "and", left |-> left, right |-> right]))

ParseAnd(ts, i) == Then(ParseNot(ts, i), LAMBDA left, j : AndRest(ts, j, left))

\* Mutant: the right side of OR is a whole OR condition, so OR groups to the right.
OrRestRight(ts, i, left) ==
  IF Current(ts, i) # "or" THEN Ok(left, i)
  ELSE Then(ParseOr(ts, i + 1), LAMBDA right, j :
         Ok([op |-> "or", left |-> left, right |-> right], j))

OrRest(ts, i, left) ==
  IF Current(ts, i) # "or" THEN Ok(left, i)
  ELSE Then(ParseAnd(ts, i + 1), LAMBDA right, j :
         OrRest(ts, j, [op |-> "or", left |-> left, right |-> right]))

ParseOr(ts, i) == Then(ParseAnd(ts, i), LAMBDA left, j : OrRest(ts, j, left))

ParseWhere(ts, i) == Optional(ts, i, {"where"}, LAMBDA j : ParseOr(ts, j))

(***************************************************************************)
(* Clauses                                                                 *)
(***************************************************************************)

Alias(ts, i) == Optional(ts, i, {"as"}, LAMBDA j : Expect(ts, j, {"id"}))

Selector(ts, i) ==
  Then(FieldPath(ts, i), LAMBDA path, j :
    Then(Alias(ts, j), LAMBDA a, k : Ok([path |-> path, alias |-> a], k)))

Aggregate(ts, i) ==
  Then(Expect(ts, i, Aggregates), LAMBDA f, j :
    Then(Expect(ts, j, {"lparen"}), LAMBDA l, k :
      Then(IF f = "count" /\ Current(ts, k) = "star" THEN Ok(None, k + 1) ELSE FieldPath(ts, k),
        LAMBDA path, m :
          Then(Expect(ts, m, {"rparen"}), LAMBDA r, n :
            Then(Alias(ts, n), LAMBDA a, o : Ok([fun |-> f, path |-> path, alias |-> a], o))))))

ParseSelect(ts, i) ==
  Then(Expect(ts, i, {"select"}), LAMBDA s, j :
    CASE Current(ts, j) = "star" -> Ok([kind |-> "all"], j + 1)
      [] Current(ts, j) \in Aggregates ->
           Then(ListRest(ts, j, LAMBDA k : Aggregate(ts, k), None), LAMBDA as, k :
             Ok([kind |-> "aggregates", items |-> as], k))
      [] OTHER ->
           Then(ListRest(ts, j, LAMBDA k : Selector(ts, k), None), LAMBDA fs, k :
             Ok([kind |-> "fields", items |-> fs], k)))

ParseFrom(ts, i) == Then(Expect(ts, i, {"from"}), LAMBDA f, j : Expect(ts, j, {"id"}))

ParseSearch(ts, i) == Optional(ts, i, {"search"}, LAMBDA j : Expect(ts, j, {"str"}))

\* WITH CONFIDENCE > number
Confidence(ts, i) ==
  Optional(ts, i, {"with"}, LAMBDA j :
    Then(Expect(ts, j, {"confidence"}), LAMBDA c, k :
      Then(Expect(ts, k, {"gt"}), LAMBDA g, m : Expect(ts, m, {"num"}))))

ParseReason(ts, i) ==
  Optional(ts, i, {"reason"}, LAMBDA j :
    Then(Expect(ts, j, {"str"}), LAMBDA q, k :
      Then(Confidence(ts, k), LAMBDA c, m : Ok([min |-> c], m))))

\* REFERENCES 'doc', or RELATED TO 'doc' [AS type]
ParseRelated(ts, i) ==
  IF Current(ts, i) \in Relations
    THEN Then(Expect(ts, i + 1, {"str"}), LAMBDA d, j : Ok(<<[type |-> <<Current(ts, i)>>]>>, j))
  ELSE Optional(ts, i, {"related"}, LAMBDA j :
         Then(Expect(ts, j, {"to"}), LAMBDA t, k :
           Then(Expect(ts, k, {"str"}), LAMBDA d, m :
             Then(Optional(ts, m, {"as"}, LAMBDA n : Expect(ts, n, Relations \cup {"id"})),
               LAMBDA type, o : Ok([type |-> type], o)))))

ParseGroupBy(ts, i) ==
  Optional(ts, i, {"group"}, LAMBDA j :
    Then(Expect(ts, j, {"by"}), LAMBDA b, k : ListRest(ts, k, LAMBDA m : FieldPath(ts, m), None)))

\* Ascending unless DESC is written.
ParseOrderBy(ts, i) ==
  Optional(ts, i, {"order"}, LAMBDA j :
    Then(Expect(ts, j, {"by"}), LAMBDA b, k :
      Then(FieldPath(ts, k), LAMBDA path, m :
        LET dir == Current(ts, m)
        IN  Ok([path |-> path, desc |-> dir = "desc"], IF dir \in {"asc", "desc"} THEN m + 1 ELSE m))))

ParseLimit(ts, i) ==
  Optional(ts, i, {"limit"}, LAMBDA j :
    Then(Expect(ts, j, {"num"}), LAMBDA n, k :
      Then(Optional(ts, k, {"offset"}, LAMBDA m : Expect(ts, m, {"num"})), LAMBDA o, m :
        Ok([offset |-> o], m))))

(***************************************************************************)
(* Statements                                                              *)
(***************************************************************************)

ParseQuery(ts, i) ==
  Then(Optional(ts, i, {"explain"}, LAMBDA j : Ok("explain", j)), LAMBDA explain, i0 :
  Then(ParseSelect(ts, i0), LAMBDA select, i1 :
  Then(ParseFrom(ts, i1), LAMBDA from, i2 :
  Then(ParseWhere(ts, i2), LAMBDA where, i3 :
  Then(ParseSearch(ts, i3), LAMBDA search, i4 :
  Then(ParseReason(ts, i4), LAMBDA reason, i5 :
  Then(ParseRelated(ts, i5), LAMBDA related, i6 :
  Then(ParseGroupBy(ts, i6), LAMBDA group, i7 :
  Then(ParseOrderBy(ts, i7), LAMBDA order, i8 :
  Then(ParseLimit(ts, i8), LAMBDA limit, i9 :
    Ok([kind |-> "select", explain |-> explain, select |-> select, where |-> where,
        search |-> search, reason |-> reason, related |-> related, group |-> group,
        order |-> order, limit |-> limit], i9)))))))))))

Assignment(ts, i) ==
  Then(FieldPath(ts, i), LAMBDA path, j :
    Then(Expect(ts, j, {"eq"}), LAMBDA e, k :
      Then(IF Current(ts, k) = "lparen" THEN ValueList(ts, k) ELSE Value(ts, k), LAMBDA v, m :
        Ok([path |-> path, list |-> Current(ts, k) = "lparen", value |-> v], m))))

ParseUpdate(ts, i) ==
  Then(Expect(ts, i, {"update"}), LAMBDA u, j :
    Then(Expect(ts, j, {"id"}), LAMBDA t, k :
      Then(Expect(ts, k, {"set"}), LAMBDA s, m :
        Then(ListRest(ts, m, LAMBDA n : Assignment(ts, n), None), LAMBDA as, n :
          Then(ParseWhere(ts, n), LAMBDA where, o :
            Ok([kind |-> "update", set |-> as, where |-> where], o))))))

ParseDelete(ts, i) ==
  Then(Expect(ts, i, {"delete"}), LAMBDA d, j :
    Then(ParseFrom(ts, j), LAMBDA t, k :
      Then(ParseWhere(ts, k), LAMBDA where, m : Ok([kind |-> "delete", where |-> where], m))))

\* Statement::parse; nothing may follow the statement.
Parse(ts) ==
  Then(CASE Current(ts, 1) = "update" -> ParseUpdate(ts, 1)
         [] Current(ts, 1) = "delete" -> ParseDelete(ts, 1)
         [] OTHER -> ParseQuery(ts, 1),
    LAMBDA stmt, i : IF Current(ts, i) = "eof" THEN Ok(stmt, i) ELSE Error(i))

(***************************************************************************)
(* Typing: no token can repair an error before the end of the statement    *)
(***************************************************************************)

ParserInit == typed \in Begun /\ allowance = MaxTokens

Type ==
  \E t \in Token :
    LET ts == Append(typed, t)
        r  == Parse(ts)
    IN  /\ allowance > 0
        /\ r.ok \/ r.pos > Len(ts)
        /\ typed' = ts /\ allowance' = allowance - 1

ParserNext == Type

(***************************************************************************)
(* Properties                                                              *)
(***************************************************************************)

ParserTypeOK == typed \in Seq(Token) /\ allowance \in 0..MaxTokens

\* The text of a tree, with the fewest parentheses: OR below AND below NOT, each grouping to the left.
RECURSIVE Joined(_)
Joined(parts) ==
  CASE parts = <<>> -> <<>>
    [] Len(parts) = 1 -> parts[1]
    [] OTHER -> parts[1] \o <<"comma">> \o Joined(Tail(parts))

PathText(p) ==
  LET Part(i) == IF i = 1 THEN <<"id">>
                 ELSE IF p[i] = "id" THEN <<"dot", "id">> ELSE <<"lbracket", "num", "rbracket">>
      RECURSIVE Upto(_)
      Upto(i) == IF i = 0 THEN <<>> ELSE Upto(i - 1) \o Part(i)
  IN  Upto(Len(p))

ListText(vs) == <<"lparen">> \o Joined(vs) \o <<"rparen">>

RECURSIVE ConditionText(_, _)
ConditionText(c, level) ==
  LET Wrapped(ts, own) == IF level > own THEN <<"lparen">> \o ts \o <<"rparen">> ELSE ts
  IN  CASE c.op = "or"  -> Wrapped(ConditionText(c.left, 0) \o <<"or">> \o ConditionText(c.right, 1), 0)
        [] c.op = "and" -> Wrapped(ConditionText(c.left, 1) \o <<"and">> \o ConditionText(c.right, 2), 1)
        [] c.op = "not" -> Wrapped(<<"not">> \o ConditionText(c.inner, 3), 2)
        [] c.op = "isnull" -> PathText(c.path) \o <<"is", "null">>
        [] c.op = "isnotnull" -> PathText(c.path) \o <<"is", "not", "null">>
        [] c.op = "any" /\ c.right = <<<<"str">>>> -> <<"str", "in">> \o PathText(c.path)
        [] c.op \in {"all", "any"} -> PathText(c.path) \o <<"contains", c.op>> \o ListText(c.right)
        [] c.op = "in" -> PathText(c.path) \o <<"in">> \o ListText(c.right)
        [] OTHER -> PathText(c.path) \o <<c.op>> \o c.right

WhereText(w) == IF w = None THEN <<>> ELSE <<"where">> \o ConditionText(w[1], 0)

AliasText(a) == IF a = None THEN <<>> ELSE <<"as", "id">>

SelectText(s) ==
  <<"select">> \o
  CASE s.kind = "all" -> <<"star">>
    [] s.kind = "fields" ->
         Joined([i \in DOMAIN s.items |-> PathText(s.items[i].path) \o AliasText(s.items[i].alias)])
    [] OTHER ->
         Joined([i \in DOMAIN s.items |->
           <<s.items[i].fun, "lparen">>
             \o (IF s.items[i].path = None THEN <<"star">> ELSE PathText(s.items[i].path))
             \o <<"rparen">> \o AliasText(s.items[i].alias)])

If(clause, text) == IF clause = None THEN <<>> ELSE text

Text(s) ==
  CASE s.kind = "delete" -> <<"delete", "from", "id">> \o WhereText(s.where)
    [] s.kind = "update" ->
         <<"update", "id", "set">>
           \o Joined([i \in DOMAIN s.set |-> PathText(s.set[i].path) \o <<"eq">>
                        \o (IF s.set[i].list THEN ListText(s.set[i].value) ELSE s.set[i].value)])
           \o WhereText(s.where)
    [] OTHER ->
         If(s.explain, <<"explain">>) \o SelectText(s.select) \o <<"from", "id">> \o WhereText(s.where)
           \o If(s.search, <<"search", "str">>)
           \o If(s.reason, <<"reason", "str">>
                             \o If(s.reason[1].min, <<"with", "confidence", "gt", "num">>))
           \o If(s.related, <<"related", "to", "str">> \o If(s.related[1].type, <<"as">> \o s.related[1].type))
           \o If(s.group, <<"group", "by">> \o Joined([i \in DOMAIN s.group[1] |-> PathText(s.group[1][i])]))
           \o If(s.order, <<"order", "by">> \o PathText(s.order[1].path)
                            \o (IF s.order[1].desc THEN <<"desc">> ELSE <<>>))
           \o If(s.limit, <<"limit", "num">> \o If(s.limit[1].offset, <<"offset", "num">>))

Parens(ts) == Cardinality({i \in DOMAIN ts : ts[i] = "lparen"})

\* A statement is read the way it is written: OR below AND below NOT, operators of one kind grouping
\* to the left.  The canonical text of the tree of an accepted statement has the parentheses that
\* these rules demand and no others; it parses to the same tree, and the statement has them all.
ReadsAsWritten ==
  LET r == Parse(typed)
      t == Text(r.tree)
  IN  r.ok => Parse(t) = Ok(r.tree, Len(t) + 1) /\ Parens(t) <= Parens(typed)
=============================================================================
