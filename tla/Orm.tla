---- MODULE Orm ----
\* The query builder (orm/QueryBuilder.hpp): conditions put together with the
\* operators of C++ become SQL text with "?" placeholders and a list of
\* values, and rows become models (ResultSet.hpp). The database is external:
\* it reads the text with SQL's precedence and binds the values by position. A
\* text is a sequence of tokens; a value of a column is a text.
EXTENDS Integers, Sequences, Sample
LOCAL INSTANCE SequencesExt
LOCAL INSTANCE FiniteSets
LOCAL INSTANCE FiniteSetsExt
LOCAL INSTANCE Functions

CONSTANTS OrmColumns,     \* columns of the table; "id" is its key
          OrmReserved,    \* those that are reserved words
          OrmValues,      \* texts a column can hold
          OrmTexts,       \* a text that a guess takes for a number or a boolean -> the type it guesses
          OrmLengths      \* values of limit() and offset()

Refused == "refused"
Token(t, v, n) == [t |-> t, v |-> v, n |-> n]
Mark(t) == Token(t, "", 0)

\* ident(): a reserved word is quoted.
ident(name) == Token(IF name \in OrmReserved THEN "quoted" ELSE "name", name, 0)

\* Expr: Col's comparison, operator&& and operator||.
Compare(col, val) == [sql |-> <<ident(col), Mark("="), Mark("?")>>, params |-> <<val>>]
Joined(word, a, b) == [sql |-> <<Mark("(")>> \o a.sql \o <<Mark(word)>> \o b.sql \o <<Mark(")")>>, params |-> a.params \o b.params]
ExprOf(tree) == IF tree.op = "=" THEN Compare(tree.col, tree.val)
                ELSE Joined(tree.op, Compare(tree.left.col, tree.left.val), Compare(tree.right.col, tree.right.val))

\* The clauses of a statement in the order of its text: verb, columns, WHERE.
append_where(st, wheres) ==
  IF wheres = << >> THEN st
  ELSE LET exprs == [i \in DOMAIN wheres |-> ExprOf(wheres[i])]
       IN [st EXCEPT !.where = FoldLeft(LAMBDA sql, i : (IF i = 1 THEN sql ELSE Append(sql, Mark("AND")))
             \o exprs[i].sql, << >>, [i \in DOMAIN exprs |-> i]),
                     !.params = @ \o FlattenSeq([i \in DOMAIN exprs |-> exprs[i].params])]
require_condition(q) == q.wheres # << >> \/ q.all
Statement(verb) == [verb |-> verb, cols |-> << >>, where |-> << >>, params |-> << >>, limit |-> -1, offset |-> -1]

\* A model or an object of changes is a function on columns; items() goes
\* through them by name, here by the order of OrmColumns.
Items(object) == SelectSeq(OrmColumns, LAMBDA c : c \in DOMAIN object)
Columns(st, object) == [st EXCEPT !.cols = [i \in DOMAIN Items(object) |-> ident(Items(object)[i])],
                                  !.params = @ \o [i \in DOMAIN Items(object) |-> object[Items(object)[i]]]]
OrmMaxU64 == 99       \* 18446744073709551615, past any table
Unset == "0"
insert_statement(model) ==
  LET stored == IF model["id"] = Unset THEN Restrict(model, DOMAIN model \ {"id"}) ELSE model
  IN IF DOMAIN stored = {} THEN [verb |-> Refused] ELSE Columns(Statement("INSERT"), stored)
select_statement(q, mysql) ==
  [append_where(Statement("SELECT"), q.wheres) EXCEPT
     !.limit = IF q.limit = -1 /\ q.offset # -1 /\ mysql THEN OrmMaxU64 ELSE q.limit,
     !.offset = q.offset]
count_statement(q) == append_where(Statement("COUNT"), q.wheres)

\* Mutant: the parameters of WHERE come first.
update_statement_Swapped(q, changes) ==
  IF DOMAIN changes = {} \/ ~require_condition(q) THEN [verb |-> Refused]
  ELSE Columns(append_where(Statement("UPDATE"), q.wheres), changes)

update_statement(q, changes) ==
  IF DOMAIN changes = {} \/ ~require_condition(q) THEN [verb |-> Refused]
  ELSE append_where(Columns(Statement("UPDATE"), changes), q.wheres)
update_model(q, model) == update_statement(q, Restrict(model, DOMAIN model \ {"id"}))
delete_statement(q) == IF require_condition(q) THEN append_where(Statement("DELETE"), q.wheres) ELSE [verb |-> Refused]

\* do_query_async(): the n-th "?" of the text stands for the n-th value, as $n
\* or as a literal. The values of the columns come first in the text.
do_query_async(st) ==
  LET marks == {i \in DOMAIN st.where : st.where[i].t = "?"}
      nth(i) == Len(st.cols) + Cardinality({j \in marks : j <= i})
  IN [st EXCEPT !.where = [i \in DOMAIN st.where |-> IF i \in marks THEN Token("value", st.params[nth(i)], 0) ELSE st.where[i]]]

\* What the database makes of a condition: AND binds tighter than OR.
RECURSIVE SqlTrue(_, _)
SqlTrue(sql, row) ==
  LET depth(i) == Cardinality({j \in 1..(i - 1) : sql[j].t = "("}) - Cardinality({j \in 1..(i - 1) : sql[j].t = ")"})
      at(word) == {i \in DOMAIN sql : sql[i].t = word /\ depth(i) = 0}
      half(i, right) == IF right THEN SubSeq(sql, i + 1, Len(sql)) ELSE SubSeq(sql, 1, i - 1)
  IN CASE sql = << >> -> TRUE
       [] at("OR") # {} -> LET i == CHOOSE i \in at("OR") : TRUE IN SqlTrue(half(i, FALSE), row) \/ SqlTrue(half(i, TRUE), row)
       [] at("OR") = {} /\ at("AND") # {} -> LET i == CHOOSE i \in at("AND") : TRUE IN SqlTrue(half(i, FALSE), row) /\ SqlTrue(half(i, TRUE), row)
       [] at("OR") \cup at("AND") = {} /\ sql # << >> /\ sql[1].t = "(" -> SqlTrue(SubSeq(sql, 2, Len(sql) - 1), row)
       [] OTHER -> row[sql[1].v] = sql[3].v

\* A table is a sequence of rows; the statement's effect and its result.
Run(table, st) ==
  LET sent == do_query_async(st)
      hit(row) == SqlTrue(sent.where, row)
      new(row) == [c \in DOMAIN row |-> IF \E i \in DOMAIN st.cols : st.cols[i].v = c THEN st.params[CHOOSE i \in DOMAIN st.cols : st.cols[i].v = c] ELSE row[c]]
      found == SelectSeq(table, hit)
      from == Max({st.offset, 0})
      upto == IF st.limit = -1 THEN Len(found) ELSE Min({Len(found), from + st.limit})
  IN CASE st.verb = "SELECT" -> SubSeq(found, from + 1, upto)
       [] st.verb = "COUNT" -> found
       [] st.verb = "UPDATE" -> [i \in DOMAIN table |-> IF hit(table[i]) THEN new(table[i]) ELSE table[i]]
       [] st.verb = "DELETE" -> SelectSeq(table, LAMBDA row : ~hit(row))
       [] st.verb = "INSERT" -> Append(table, new([c \in Range(OrmColumns) |-> "new"]))

\* json_to_param(), the text a column of a type shows, and back: typed_value()
\* goes by the type of the model's field, Row::to_json() by what the text looks
\* like.
json_to_param(v) == IF v.type = "bool" THEN (IF v.text = "t" THEN "1" ELSE "0") ELSE v.text
Shown(text, type, mysql) == IF type = "bool" /\ ~mysql THEN (IF text = "1" THEN "t" ELSE "f") ELSE text
typed_value(text, type) == [type |-> type, text |-> IF type = "bool" THEN (IF text \in {"t", "1"} THEN "t" ELSE "f") ELSE text]
to_json(text) == [type |-> IF text \in DOMAIN OrmTexts THEN OrmTexts[text] ELSE "string", text |-> text]
rows_to_models(text, type, declared) == IF declared THEN typed_value(text, type) ELSE to_json(text)

\* MongoQueryBuilder::where(): a later filter of a field takes the place of an
\* earlier one.
mongo_where(filters) == [f \in UNION {DOMAIN filters[i] : i \in DOMAIN filters} |->
  LET last == Max({i \in DOMAIN filters : f \in DOMAIN filters[i]}) IN filters[last][f]]

\* MongoGetAwaiter: documents that do not fit the model are left out.
mongo_get(documents, filter) == {d \in documents : DOMAIN filter \subseteq DOMAIN d /\ (\A f \in DOMAIN filter : d[f] = filter[f]) /\ "id" \in DOMAIN d}

----
OrmCompares == [op : {"="}, col : Range(OrmColumns), val : OrmValues]
OrmTrees == OrmCompares \cup [op : {"AND", "OR"}, left : OrmCompares, right : OrmCompares]
OrmTable == FoldSet(LAMBDA row, rows : Append(rows, row), << >>, [Range(OrmColumns) -> OrmValues])
TreeTrue(tree, row) ==
  LET is(c) == row[c.col] = c.val
  IN CASE tree.op = "=" -> is(tree) [] tree.op = "AND" -> is(tree.left) /\ is(tree.right) [] OTHER -> is(tree.left) \/ is(tree.right)
OrmWheres == {<< >>} \cup {<<t>> : t \in OrmTrees} \cup {<<t, c>> : t \in OrmTrees, c \in OrmCompares}
OrmSamples ==
  [kind : {"query"}, wheres : OrmWheres, all : BOOLEAN, limit : {-1}, offset : {-1}, mysql : {FALSE}]
  \cup [kind : {"query"}, wheres : {<< >>} \cup {<<c>> : c \in OrmCompares}, all : BOOLEAN, limit : OrmLengths
        \cup {-1}, offset : OrmLengths \cup {-1}, mysql : BOOLEAN]
  \cup [kind : {"field"}, type : {"string"}, text : DOMAIN OrmTexts, mysql : BOOLEAN]
  \cup [kind : {"field"}, type : {"int"}, text : {"7", "42"}, mysql : BOOLEAN]
  \cup [kind : {"field"}, type : {"bool"}, text : {"t", "f"}, mysql : BOOLEAN]
OrmModel == [c \in Range(OrmColumns) |-> IF c = "id" THEN Unset ELSE "z"]

\* The SQL says what the C++ says: rows are selected, counted, changed and
\* deleted exactly where all conditions hold, with each value where it was
\* compared or assigned, whatever the nesting and however many conditions there
\* are; nothing is rewritten or emptied without a condition unless all() was
\* called; a page is the page asked for on both databases; a new key is left to
\* the database, and an old one is never rewritten. What was written to a field
\* is read back, even a string that looks like a number.
OrmFaithful ==
  /\ sample.kind = "query" =>
       LET q == sample
           wanted(row) == \A i \in DOMAIN q.wheres : TreeTrue(q.wheres[i], row)
           found == SelectSeq(OrmTable, wanted)
           skipped == IF q.offset = -1 THEN 0 ELSE q.offset
           up == update_model(q, OrmModel)
           del == delete_statement(q)
       IN /\ Run(OrmTable, count_statement(q)) = found
          /\ Run(OrmTable, select_statement(q, q.mysql)) =
               SubSeq(found, skipped + 1, IF q.limit = -1 \/ skipped + q.limit > Len(found) THEN Len(found) ELSE skipped + q.limit)
          /\ q.mysql /\ q.offset # -1 => select_statement(q, q.mysql).limit # -1
          /\ (q.wheres = << >> /\ ~q.all) <=> (up.verb = Refused /\ del.verb = Refused)
          /\ up.verb # Refused => Run(OrmTable,
                up) = [i \in DOMAIN OrmTable |-> IF wanted(OrmTable[i]) THEN [OrmModel EXCEPT !["id"] = OrmTable[i]["id"]] ELSE OrmTable[i]]
          /\ del.verb # Refused => Run(OrmTable, del) = SelectSeq(OrmTable, LAMBDA row : ~wanted(row))
          /\ Run(<< >>, insert_statement(OrmModel)) = <<[OrmModel EXCEPT !["id"] = "new"]>>
          /\ Len(q.wheres) = 2 /\ q.wheres[1].op = "=" =>
               LET f == mongo_where([i \in 1..2 |-> [c \in {q.wheres[i].col} |-> q.wheres[i].val]])
               IN q.wheres[1].col # q.wheres[2].col => mongo_get(Range(OrmTable), f) = Range(found)
  /\ sample.kind = "field" =>
       LET v == [type |-> sample.type, text |-> sample.text]
       IN rows_to_models(Shown(json_to_param(v), sample.type, sample.mysql), sample.type, TRUE) = v
====
