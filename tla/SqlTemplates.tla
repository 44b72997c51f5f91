---------------------------- MODULE SqlTemplates ----------------------------
(***************************************************************************)
(* One operation of the document from its where and set templates to the   *)
(* statements Postgres gets: the loader rewrites the templates once        *)
(* (_rewrite_set, _rewrite_where), the builder numbers the placeholders    *)
(* and collects the parameters at each invocation (build_select,           *)
(* build_mutation).  A template is a sequence of tokens: white space is    *)
(* left out and taken to stand wherever two tokens would run together, an  *)
(* absent where is an empty one.  Every loop of the code takes one step    *)
(* here for each of its iterations.                                        *)
(***************************************************************************)
EXTENDS Integers, FiniteSets, Sequences

CONSTANTS Field,      \* keys of the type's columns map
          Unmapped,   \* identifiers that are not
          Column, ColumnOf,
          Arg, Value,
          MaxTokens, MaxSet, \* bounds on the templates the document has
          None

ASSUME TemplateAssumption ==
  /\ Field \cap Unmapped = {}
  /\ ColumnOf \in [Field -> Column]
  /\ None \notin Value \cup Arg
  /\ MaxTokens \in Nat /\ MaxSet \in Nat

Item(kind, of) == [kind |-> kind, of |-> of]

(* _classify.  "plain" is every operator, keyword, literal and punctuation *)
(* mark but "(": all are copied.  A placeholder other than ${args.NAME} is *)
(* "unsupported".                                                          *)
Token == [kind : {"arg"}, of : Arg]
           \cup [kind : {"identifier"}, of : Field \cup Unmapped]
           \cup [kind : {"plain", "open", "unsupported"}, of : {None}]

(* An entry of set; the value is the argument its template names, or None  *)
(* when the template is not a single placeholder.                          *)
Assignment == [field : Field \cup Unmapped, value : Arg \cup {None}]

VARIABLES
  kind, set, where,     \* the document's operation
  stage, pos, prev,     \* the running loop, its index, prev_meaningful
  set_columns, where_sql, where_args, \* the resolved operation
  args,                 \* of the invocation; None: omitted
  text, params, number, \* the statement being built, the next "$n"
  write, read           \* the statements built

document == <<kind, set, where>>
resolved == <<set_columns, where_sql, where_args>>
statement == <<text, params, number>>
vars == <<document, stage, pos, prev, resolved, args, statement, write, read>>

Nothing == [text |-> <<>>, params |-> <<>>]

Init ==
  /\ kind \in {"select", "insert", "update", "delete"}
  /\ set \in UNION {[1 .. n -> Assignment] : n \in 0 .. MaxSet}
  /\ \A i, j \in DOMAIN set : set[i].field = set[j].field => i = j
  /\ kind \in {"select", "delete"} => set = <<>>
  /\ where \in UNION {[1 .. n -> Token] : n \in 0 .. MaxTokens}
  /\ stage = "set" /\ pos = 1 /\ prev = Item("plain", None)
  /\ set_columns = <<>> /\ where_sql = <<>> /\ where_args = <<>>
  /\ args = [a \in Arg |-> None]
  /\ text = <<>> /\ params = <<>> /\ number = 1
  /\ write = Nothing /\ read = Nothing

Stop(end) ==
  /\ stage' = end
  /\ UNCHANGED <<document, pos, prev, resolved, args, statement, write, read>>

(* The loop over `items` is done. *)
EndLoop(loop, items, next) ==
  /\ stage = loop
  /\ pos = Len(items) + 1
  /\ stage' = next
  /\ pos' = 1

-----------------------------------------------------------------------------
(* Loading.                                                                *)

(* Mutant: the rewritten set is a list of pairs. *)
AssignedTwice(column, value) ==
  Append(set_columns, [column |-> column, value |-> value])

(* rewritten[columns[field]] = value: a column two fields share keeps its  *)
(* first place and gets the last value.                                    *)
Assigned(column, value) ==
  LET new == [column |-> column, value |-> value] IN
  IF \E i \in DOMAIN set_columns : set_columns[i].column = column
  THEN [i \in DOMAIN set_columns |->
          IF set_columns[i].column = column THEN new ELSE set_columns[i]]
  ELSE Append(set_columns, new)

RewriteSet ==
  /\ stage = "set"
  /\ pos \in DOMAIN set
  /\ set[pos].field \in Field
  /\ set_columns' = Assigned(ColumnOf[set[pos].field], set[pos].value)
  /\ pos' = pos + 1
  /\ UNCHANGED <<document, stage, prev, where_sql, where_args, args, statement, write, read>>

RejectSet ==
  /\ stage = "set"
  /\ pos \in DOMAIN set
  /\ set[pos].field \notin Field
  /\ Stop("rejected")

EndSet ==
  /\ EndLoop("set", set, "where")
  /\ UNCHANGED <<document, prev, resolved, args, statement, write, read>>

(* Mutant: prev_meaningful is not looked at. *)
AcceptsCalls(token) ==
  \/ token.kind \in {"arg", "plain", "open"}
  \/ token.kind = "identifier" /\ token.of \in Field

Accepts(token) ==
  \/ token.kind \in {"arg", "plain"}
  \/ token.kind = "open" /\ prev.kind # "identifier"
  \/ token.kind = "identifier" /\ token.of \in Field

Rewritten(token) ==
  IF token.kind = "identifier" THEN Item("column", ColumnOf[token.of]) ELSE token

(* Mutant: where_args as a set, each name once. *)
RewriteWhereOnce ==
  /\ stage = "where"
  /\ pos \in DOMAIN where
  /\ Accepts(where[pos])
  /\ where_sql' = Append(where_sql, Rewritten(where[pos]))
  /\ where_args' = IF where[pos].kind = "arg"
                      /\ \A i \in DOMAIN where_args : where_args[i] # where[pos].of
                   THEN Append(where_args, where[pos].of) ELSE where_args
  /\ prev' = where[pos]
  /\ pos' = pos + 1
  /\ UNCHANGED <<document, stage, set_columns, args, statement, write, read>>

RewriteWhere ==
  /\ stage = "where"
  /\ pos \in DOMAIN where
  /\ Accepts(where[pos])
  /\ where_sql' = Append(where_sql, Rewritten(where[pos]))
  /\ where_args' = IF where[pos].kind = "arg"
                   THEN Append(where_args, where[pos].of) ELSE where_args
  /\ prev' = where[pos]
  /\ pos' = pos + 1
  /\ UNCHANGED <<document, stage, set_columns, args, statement, write, read>>

RejectWhere ==
  /\ stage = "where"
  /\ pos \in DOMAIN where
  /\ ~ Accepts(where[pos])
  /\ Stop("rejected")

EndWhere ==
  /\ EndLoop("where", where, "resolved")
  /\ UNCHANGED <<document, prev, resolved, args, statement, write, read>>

-----------------------------------------------------------------------------
(* Building, once per invocation.                                          *)

Invoke ==
  /\ stage = "resolved"
  /\ args' \in [Arg -> Value \cup {None}]
  /\ stage' = CASE kind = "select" -> "bind_read"
                [] kind = "delete" -> "bind_where"
                [] OTHER -> "bind_set"
  /\ UNCHANGED <<document, pos, prev, resolved, statement, write, read>>

Given == {a \in Arg : args[a] # None}

(* Mutant: args.get(name). *)
BindDefaulting(arg, before) ==
  /\ arg \in Arg
  /\ text' = Append(before, Item("param", number))
  /\ params' = Append(params, args[arg])
  /\ number' = number + 1

(* params.append(args[name]), and "$n" in its place. *)
Bind(arg, before) ==
  /\ arg \in Given
  /\ text' = Append(before, Item("param", number))
  /\ params' = Append(params, args[arg])
  /\ number' = number + 1

BindSet ==
  /\ stage = "bind_set"
  /\ pos \in DOMAIN set_columns
  /\ Bind(set_columns[pos].value, Append(text, Item("column", set_columns[pos].column)))
  /\ pos' = pos + 1
  /\ UNCHANGED <<document, stage, prev, resolved, args, write, read>>

(* Mutant: the where of an update is numbered from $1. *)
EndBindSetRestarting ==
  /\ EndLoop("bind_set", set_columns, IF kind = "insert" THEN "built" ELSE "bind_where")
  /\ write' = IF kind = "insert" THEN [text |-> text, params |-> params] ELSE write
  /\ number' = 1
  /\ UNCHANGED <<document, prev, resolved, args, text, params, read>>

(* An update goes on with its where at len(params) + 1. *)
EndBindSet ==
  /\ EndLoop("bind_set", set_columns, IF kind = "insert" THEN "built" ELSE "bind_where")
  /\ write' = IF kind = "insert" THEN [text |-> text, params |-> params] ELSE write
  /\ UNCHANGED <<document, prev, resolved, args, statement, read>>

(* _renumber_where, for the write and for the read. *)
BindWhere ==
  /\ stage \in {"bind_where", "bind_read"}
  /\ pos \in DOMAIN where_sql
  /\ \/ /\ where_sql[pos].kind = "arg"
        /\ Bind(where_sql[pos].of, text)
     \/ /\ where_sql[pos].kind # "arg"
        /\ text' = Append(text, where_sql[pos])
        /\ UNCHANGED <<params, number>>
  /\ pos' = pos + 1
  /\ UNCHANGED <<document, stage, prev, resolved, args, write, read>>

(* Parameters the running _renumber_where has collected. *)
WhereParams ==
  Len(params) - IF stage = "bind_where" /\ kind = "update" THEN Len(set_columns) ELSE 0

(* The assertion at the end: "placeholder count mismatch". *)
Asserted(next) == IF WhereParams = Len(where_args) THEN next ELSE "assertion"

EndBindWhere ==
  /\ EndLoop("bind_where", where_sql,
             Asserted(IF kind = "update" THEN "bind_read" ELSE "built"))
  /\ write' = [text |-> text, params |-> params]
  /\ text' = <<>> /\ params' = <<>> /\ number' = 1
  /\ UNCHANGED <<document, prev, resolved, args, read>>

EndBindRead ==
  /\ EndLoop("bind_read", where_sql, Asserted("built"))
  /\ read' = [text |-> text, params |-> params]
  /\ UNCHANGED <<document, prev, resolved, args, statement, write>>

(* KeyError for an argument the request omits, ValueError for a set value  *)
(* that is not a single placeholder.                                       *)
Raises ==
  /\ \/ /\ stage = "bind_set" /\ pos \in DOMAIN set_columns
        /\ set_columns[pos].value \notin Given
     \/ /\ stage \in {"bind_where", "bind_read"} /\ pos \in DOMAIN where_sql
        /\ where_sql[pos].kind = "arg"
        /\ where_sql[pos].of \notin Given
  /\ Stop("raised")

Finished == stage \in {"rejected", "raised", "assertion", "built"} /\ UNCHANGED vars

Next ==
  \/ RewriteSet \/ RejectSet \/ EndSet
  \/ RewriteWhere \/ RejectWhere \/ EndWhere
  \/ Invoke \/ BindSet \/ EndBindSet \/ BindWhere \/ EndBindWhere \/ EndBindRead
  \/ Raises \/ Finished

Spec == Init /\ [][Next]_vars

-----------------------------------------------------------------------------
(* The tokens of a statement. *)
Emitted == Token \cup [kind : {"column"}, of : Column]
                 \cup [kind : {"param"}, of : Nat \ {0}]

Statement == [text : Seq(Emitted), params : Seq(Value)]

(* Type invariant; in particular a parameter is always a value the request *)
(* gave, never a default for one it left out.                              *)
TypeOK ==
  /\ kind \in {"select", "insert", "update", "delete"}
  /\ set \in Seq(Assignment) /\ where \in Seq(Token)
  /\ stage \in {"set", "where", "resolved", "bind_set", "bind_where", "bind_read",
                "rejected", "raised", "assertion", "built"}
  /\ pos \in Nat \ {0} /\ prev \in Token
  /\ set_columns \in Seq([column : Column, value : Arg \cup {None}])
  /\ where_sql \in Seq(Emitted) /\ where_args \in Seq(Arg)
  /\ args \in [Arg -> Value \cup {None}]
  /\ text \in Seq(Emitted) /\ params \in Seq(Value) /\ number \in Nat \ {0}
  /\ write \in Statement /\ read \in Statement

(* What the allowlist of where says, token by token.                       *)
Allowed(i) ==
  CASE where[i].kind = "open" -> i = 1 \/ where[i - 1].kind # "identifier"
    [] where[i].kind = "identifier" -> where[i].of \in Field
    [] OTHER -> where[i].kind # "unsupported"

(* The loader accepts exactly the documents whose fields are mapped and    *)
(* whose where has only allowed tokens and no function call.               *)
AllowlistExact ==
  LET Good == /\ \A i \in DOMAIN set : set[i].field \in Field
              /\ \A i \in DOMAIN where : Allowed(i)
  IN  /\ stage = "rejected" => ~ Good
      /\ stage \notin {"set", "where", "rejected"} => Good

(* Position p of statement s is a parameter that carries argument a. *)
Carries(s, p, a) ==
  /\ p \in DOMAIN s.text
  /\ s.text[p].kind = "param"
  /\ s.text[p].of \in DOMAIN s.params
  /\ s.params[s.text[p].of] = args[a]

WhereCarried(s, offset) ==
  \A i \in DOMAIN where : where[i].kind = "arg" => Carries(s, offset + i, where[i].of)

SetCarried(s) ==
  \A i \in DOMAIN set_columns :
    /\ s.text[2 * i - 1] = Item("column", set_columns[i].column)
    /\ Carries(s, 2 * i, set_columns[i].value)

(* In every statement that reaches Postgres, whatever the numbering of the *)
(* SET list, the WHERE after it and the SELECT that follows an update, the *)
(* placeholder written for ${args.X} carries the request's X.              *)
EveryArgumentBound ==
  stage = "built" =>
    /\ kind \in {"insert", "update"} => SetCarried(write)
    /\ kind = "update" => WhereCarried(write, 2 * Len(set_columns))
    /\ kind = "delete" => WhereCarried(write, 0)
    /\ kind \in {"select", "update"} => WhereCarried(read, 0)

(* No field among the first n after the i-th has the i-th's column. *)
LastOf(i, n) == \A j \in i + 1 .. n : ColumnOf[set[j].field] # ColumnOf[set[i].field]

Assigns(s, column, arg) ==
  \E n \in DOMAIN set_columns :
    s.text[2 * n - 1] = Item("column", column) /\ Carries(s, 2 * n, arg)

(* From the set of the document to the INSERT or UPDATE: the column of     *)
(* each field is assigned the argument its template names, unless a field  *)
(* after it in sorted order has the same column, and no column is assigned *)
(* twice, which Postgres would refuse.                                     *)
AssignmentsKept ==
  stage = "built" /\ kind \in {"insert", "update"} =>
    /\ \A i \in DOMAIN set :
         LastOf(i, Len(set)) => Assigns(write, ColumnOf[set[i].field], set[i].value)
    /\ \A m, n \in DOMAIN set_columns :
         write.text[2 * m - 1] = write.text[2 * n - 1] => m = n

(* The placeholders of a statement are $1 .. $n for its n parameters:      *)
(* Postgres refuses a statement with any other count.                      *)
Numbers(s) == {s.text[p].of : p \in {i \in DOMAIN s.text : s.text[i].kind = "param"}}

NumberedFromOne ==
  stage = "built" => \A s \in {write, read} : Numbers(s) = 1 .. Len(s.params)

(* The builder's assertion on the loader's where_args never fails.         *)
AssertionHolds == stage # "assertion"
-----------------------------------------------------------------------------
(* The inductive invariant: what each loop has done for the items before   *)
(* pos.                                                                    *)

ArgsIn(n) == {i \in 1 .. n : where[i].kind = "arg"}

Good(fields, tokens) ==
  /\ \A i \in 1 .. fields : set[i].field \in Field
  /\ \A i \in 1 .. tokens : Allowed(i)

Running == [text |-> text, params |-> params]

SetDone(s, n) ==
  \A i \in 1 .. n :
    /\ s.text[2 * i - 1] = Item("column", set_columns[i].column)
    /\ Carries(s, 2 * i, set_columns[i].value)

WhereDone(s, offset, n) ==
  \A i \in 1 .. n : where[i].kind = "arg" => Carries(s, offset + i, where[i].of)

LoadInv ==
  /\ stage = "set" => /\ pos <= Len(set) + 1
                      /\ prev = Item("plain", None)
                      /\ where_sql = <<>> /\ where_args = <<>>
                      /\ Good(pos - 1, 0)
  /\ stage = "where" => /\ pos <= Len(where) + 1
                        /\ prev = IF pos = 1 THEN Item("plain", None) ELSE where[pos - 1]
                        /\ Len(where_sql) = pos - 1
                        /\ Good(Len(set), pos - 1)
  /\ stage = "rejected" => ~ Good(Len(set), Len(where))
  /\ stage \notin {"set", "where", "rejected"} => /\ Len(where_sql) = Len(where)
                                                 /\ Good(Len(set), Len(where))
  /\ Len(where_sql) <= Len(where)
  /\ \A i \in DOMAIN where_sql : where_sql[i] = Rewritten(where[i])
  /\ Len(where_args) = Cardinality(ArgsIn(Len(where_sql)))

NumberInv ==
  /\ number = Len(params) + 1
  /\ \A s \in {Running, write, read} : Numbers(s) = 1 .. Len(s.params)
  /\ stage \in {"set", "where", "resolved"} => text = <<>> /\ params = <<>>
  /\ stage = "resolved" => pos = 1

BuildInv ==
  /\ stage = "bind_set" => /\ kind \in {"insert", "update"}
                           /\ pos <= Len(set_columns) + 1
                           /\ Len(text) = 2 * (pos - 1) /\ Len(params) = pos - 1
                           /\ SetDone(Running, pos - 1)
  /\ stage = "bind_where" =>
       LET columns == IF kind = "update" THEN Len(set_columns) ELSE 0 IN
         /\ kind \in {"update", "delete"}
         /\ pos <= Len(where) + 1
         /\ Len(text) = 2 * columns + pos - 1
         /\ Len(params) = columns + Cardinality(ArgsIn(pos - 1))
         /\ SetDone(Running, columns)
         /\ WhereDone(Running, 2 * columns, pos - 1)
  /\ stage = "bind_read" =>
         /\ kind \in {"select", "update"}
         /\ pos <= Len(where) + 1
         /\ Len(text) = pos - 1
         /\ Len(params) = Cardinality(ArgsIn(pos - 1))
         /\ WhereDone(Running, 0, pos - 1)
  /\ stage = "bind_read" /\ kind = "update" =>
         /\ SetDone(write, Len(set_columns))
         /\ WhereDone(write, 2 * Len(set_columns), Len(where))
  /\ EveryArgumentBound

(* What set_columns holds of the first n fields. *)
Collected(n) ==
  /\ \A i \in 1 .. n : LastOf(i, n) =>
       \E m \in DOMAIN set_columns :
         set_columns[m] = [column |-> ColumnOf[set[i].field], value |-> set[i].value]
  /\ \A m, k \in DOMAIN set_columns :
       set_columns[m].column = set_columns[k].column => m = k

CollectInv ==
  stage # "rejected" => Collected(IF stage = "set" THEN pos - 1 ELSE Len(set))

IInv == TypeOK /\ LoadInv /\ NumberInv /\ BuildInv /\ AssertionHolds
=============================================================================
