------------------------- MODULE SqlTemplatesProofs -------------------------
(***************************************************************************)
(* For every document, every columns map and every request: the loader     *)
(* accepts what the allowlist allows, and the statements the builder emits *)
(* carry in each placeholder the argument its template names.              *)
(***************************************************************************)
EXTENDS SqlTemplates, FiniteSetTheorems, TLAPS

(* How many of the first n tokens are placeholders. *)
LEMMA CountArgs ==
  ASSUME where \in Seq(Token), NEW n \in Nat
  PROVE  /\ Cardinality(ArgsIn(n)) \in Nat
         /\ Cardinality(ArgsIn(0)) = 0
         /\ where[n + 1].kind = "arg" =>
              Cardinality(ArgsIn(n + 1)) = Cardinality(ArgsIn(n)) + 1
         /\ where[n + 1].kind # "arg" =>
              Cardinality(ArgsIn(n + 1)) = Cardinality(ArgsIn(n))
<1>1. IsFiniteSet(ArgsIn(n))
  <2>1. IsFiniteSet(1 .. n)
    BY FS_Interval
  <2> QED  BY <2>1, FS_Subset DEF ArgsIn
<1>2. Cardinality(ArgsIn(n)) \in Nat
  BY <1>1, FS_CardinalityType
<1>3. ArgsIn(0) = {}
  BY DEF ArgsIn
<1>4. ASSUME where[n + 1].kind = "arg"
      PROVE  Cardinality(ArgsIn(n + 1)) = Cardinality(ArgsIn(n)) + 1
  <2>1. ArgsIn(n + 1) = ArgsIn(n) \cup {n + 1}
    BY <1>4 DEF ArgsIn
  <2>2. n + 1 \notin ArgsIn(n)
    BY DEF ArgsIn
  <2> QED  BY <1>1, <2>1, <2>2, FS_AddElement
<1>5. ASSUME where[n + 1].kind # "arg" PROVE ArgsIn(n + 1) = ArgsIn(n)
  BY <1>5 DEF ArgsIn
<1> QED  BY <1>2, <1>3, <1>4, <1>5, FS_EmptySet

(* A token more adds its number, if it is a parameter. *)
LEMMA NumbersAppend ==
  ASSUME NEW t \in Seq(Emitted), NEW x \in Emitted, NEW p, NEW q
  PROVE  Numbers([text |-> Append(t, x), params |-> p]) =
           Numbers([text |-> t, params |-> q])
             \cup (IF x.kind = "param" THEN {x.of} ELSE {})
<1> DEFINE longer == Append(t, x)
<1>1. /\ DOMAIN longer = 1 .. Len(t) + 1 /\ DOMAIN t = 1 .. Len(t) /\ Len(t) \in Nat
      /\ longer[Len(t) + 1] = x
      /\ \A i \in 1 .. Len(t) : longer[i] = t[i]
  OBVIOUS
<1> HIDE DEF longer
<1>2. Numbers([text |-> longer, params |-> p]) =
        {longer[i].of : i \in {j \in DOMAIN longer : longer[j].kind = "param"}}
  BY DEF Numbers
<1>3. Numbers([text |-> t, params |-> q]) =
        {t[i].of : i \in {j \in DOMAIN t : t[j].kind = "param"}}
  BY DEF Numbers
<1>4. CASE x.kind = "param"
  <2>1. {j \in DOMAIN longer : longer[j].kind = "param"} =
          {j \in DOMAIN t : t[j].kind = "param"} \cup {Len(t) + 1}
    BY <1>1, <1>4
  <2> QED  BY <1>1, <1>2, <1>3, <1>4, <2>1 DEF longer
<1>5. CASE x.kind # "param"
  <2>1. {j \in DOMAIN longer : longer[j].kind = "param"} =
          {j \in DOMAIN t : t[j].kind = "param"}
    BY <1>1, <1>5
  <2> QED  BY <1>1, <1>2, <1>3, <1>5, <2>1 DEF longer
<1> QED  BY <1>4, <1>5

LEMMA InitInv == Init => IInv
<1> SUFFICES ASSUME Init PROVE IInv
  OBVIOUS
<1>1. set \in Seq(Assignment) /\ where \in Seq(Token)
  BY DEF Init
<1>2. TypeOK
  BY <1>1, TemplateAssumption DEF Init, TypeOK, Nothing, Statement, Token, Item
<1>3. LoadInv
  BY <1>1, CountArgs DEF Init, LoadInv, Good
<1>4. NumberInv
  BY DEF Init, NumberInv, Numbers, Running, Nothing
<1>5. BuildInv /\ AssertionHolds
  BY DEF Init, BuildInv, EveryArgumentBound, AssertionHolds
<1> QED  BY <1>2, <1>3, <1>4, <1>5 DEF IInv

(* What the loader copies is a token of a statement, and an argument stays one. *)
LEMMA Items ==
  /\ Item("plain", None) \in Token
  /\ Token \subseteq Emitted
  /\ \A c \in Column : Item("column", c) \in Emitted
  /\ \A n \in Nat \ {0} : Item("param", n) \in Emitted
  /\ \A t \in Token : /\ t.kind = "identifier" => t.of \in Field \cup Unmapped
                      /\ t.kind = "arg" => t.of \in Arg
  /\ \A t \in Token : Accepts(t) =>
       /\ Rewritten(t) \in Emitted
       /\ Rewritten(t).kind = "arg" <=> t.kind = "arg"
       /\ Rewritten(t).kind # "param"
BY TemplateAssumption DEF Item, Token, Emitted, Accepts, Rewritten

(* The loading loops do not touch what building works on. *)
LEMMA LoadingKeepsBuilt ==
  ASSUME IInv, stage \in {"set", "where"},
         stage' \in {"set", "where", "resolved", "rejected"},
         stage' = "resolved" => pos' = 1,
         UNCHANGED <<kind, args, statement, write, read>>
  PROVE  NumberInv' /\ BuildInv' /\ AssertionHolds'
<1>1. NumberInv'
  BY DEF IInv, NumberInv, Numbers, Running, statement
<1>2. BuildInv' /\ AssertionHolds'
  BY DEF IInv, BuildInv, EveryArgumentBound, AssertionHolds
<1> QED  BY <1>1, <1>2

LEMMA RewriteSetInv == IInv /\ RewriteSet => IInv'
<1> SUFFICES ASSUME IInv, RewriteSet PROVE IInv'
  OBVIOUS
<1>1. set_columns' \in Seq([column : Column, value : Arg \cup {None}])
  <2>1. /\ set[pos] \in Assignment
        /\ ColumnOf[set[pos].field] \in Column
    BY TemplateAssumption DEF IInv, TypeOK, RewriteSet
  <2> DEFINE Entry == [column : Column, value : Arg \cup {None}]
             new == [column |-> ColumnOf[set[pos].field], value |-> set[pos].value]
  <2>2. new \in Entry
    BY <2>1 DEF Assignment
  <2>3. set_columns \in Seq(Entry)
    BY DEF IInv, TypeOK
  <2> HIDE DEF Entry
  <2>4. Append(set_columns, new) \in Seq(Entry)
    BY <2>2, <2>3
  <2>5. [i \in DOMAIN set_columns |->
           IF set_columns[i].column = ColumnOf[set[pos].field]
           THEN new ELSE set_columns[i]] \in Seq(Entry)
    BY <2>2, <2>3
  <2>6. set_columns' \in Seq(Entry)
    BY <2>4, <2>5 DEF RewriteSet, Assigned
  <2> QED  BY <2>6 DEF Entry
<1>2. TypeOK'
  BY <1>1 DEF IInv, TypeOK, RewriteSet, document, statement
<1>3. LoadInv'
  BY DEF IInv, TypeOK, LoadInv, RewriteSet, document, Good, Rewritten, ArgsIn
<1>4. NumberInv' /\ BuildInv' /\ AssertionHolds'
  BY LoadingKeepsBuilt DEF RewriteSet, document
<1> QED  BY <1>2, <1>3, <1>4 DEF IInv

LEMMA RejectSetInv == IInv /\ RejectSet => IInv'
<1> SUFFICES ASSUME IInv, RejectSet PROVE IInv'
  OBVIOUS
<1>1. TypeOK'
  BY DEF IInv, TypeOK, RejectSet, Stop, document, resolved, statement
<1>2. LoadInv'
  BY DEF IInv, TypeOK, LoadInv, RejectSet, Stop, document, resolved, Good, Rewritten, ArgsIn
<1>3. NumberInv' /\ BuildInv' /\ AssertionHolds'
  BY LoadingKeepsBuilt DEF RejectSet, Stop, document
<1> QED  BY <1>1, <1>2, <1>3 DEF IInv

LEMMA EndSetInv == IInv /\ EndSet => IInv'
<1> SUFFICES ASSUME IInv, EndSet PROVE IInv'
  OBVIOUS
<1>1. TypeOK'
  BY DEF IInv, TypeOK, EndSet, EndLoop, document, resolved, statement
<1>2. LoadInv'
  BY DEF IInv, TypeOK, LoadInv, EndSet, EndLoop, document, resolved, Good, Rewritten, ArgsIn
<1>3. NumberInv' /\ BuildInv' /\ AssertionHolds'
  BY LoadingKeepsBuilt DEF EndSet, EndLoop, document
<1> QED  BY <1>1, <1>2, <1>3 DEF IInv

(* Accepts looks at the token before through prev; Allowed looks at the    *)
(* template.                                                               *)
LEMMA AcceptsIsAllowed ==
  ASSUME IInv, stage = "where", pos \in DOMAIN where
  PROVE  Accepts(where[pos]) <=> Allowed(pos)
<1>1. where[pos] \in Token /\ (pos # 1 => where[pos - 1] \in Token)
  BY DEF IInv, TypeOK
<1>2. prev = IF pos = 1 THEN Item("plain", None) ELSE where[pos - 1]
  BY DEF IInv, LoadInv
<1> QED  BY <1>1, <1>2 DEF Accepts, Allowed, Item, Token

LEMMA RewriteWhereInv == IInv /\ RewriteWhere => IInv'
<1> SUFFICES ASSUME IInv, RewriteWhere PROVE IInv'
  OBVIOUS
<1>1. where[pos] \in Token /\ Accepts(where[pos]) /\ Rewritten(where[pos]) \in Emitted
  BY Items DEF IInv, TypeOK, RewriteWhere
<1>2. TypeOK'
  BY <1>1, Items DEF IInv, TypeOK, RewriteWhere, document, statement
<1>3. LoadInv'
  <2>1. Allowed(pos)
    BY <1>1, AcceptsIsAllowed DEF RewriteWhere
  <2>2. /\ stage = "where" /\ stage' = "where" /\ pos \in 1 .. Len(where)
        /\ pos' = pos + 1 /\ prev' = where[pos]
        /\ Len(where_sql) = pos - 1
        /\ where_sql' = Append(where_sql, Rewritten(where[pos]))
        /\ UNCHANGED <<kind, set, where>>
    BY DEF IInv, TypeOK, LoadInv, RewriteWhere, document
  <2>3. Good(Len(set), pos)
    BY <2>1, <2>2 DEF IInv, LoadInv, Good
  <2>4. /\ Len(where_sql') = pos /\ Len(where_sql') <= Len(where)
        /\ \A i \in DOMAIN where_sql' : where_sql'[i] = Rewritten(where[i])
    BY <1>1, <2>2 DEF IInv, TypeOK, LoadInv
  <2>5. Len(where_args') = Cardinality(ArgsIn(pos))
    <3>1. /\ Len(where_args) = Cardinality(ArgsIn(pos - 1))
          /\ pos - 1 \in Nat /\ pos - 1 + 1 = pos
      BY <2>2 DEF IInv, LoadInv
    <3>2. CASE where[pos].kind = "arg"
      <4>1. Len(where_args') = Len(where_args) + 1
        BY <1>1, <3>2, Items DEF IInv, TypeOK, RewriteWhere
      <4> QED  BY <3>1, <3>2, <4>1, CountArgs DEF IInv, TypeOK
    <3>3. CASE where[pos].kind # "arg"
      BY <3>1, <3>3, CountArgs DEF IInv, TypeOK, RewriteWhere
    <3> QED  BY <3>2, <3>3
  <2>6. /\ Len(where_sql') = pos' - 1
        /\ (\A i \in DOMAIN where_sql : where_sql[i] = Rewritten(where[i]))'
    BY <2>2, <2>4 DEF Rewritten
  <2>7. ArgsIn(Len(where_sql))' = ArgsIn(pos)
    BY <2>2, <2>4 DEF ArgsIn
  <2>8. Good(Len(set), pos - 1)'
    BY <2>2, <2>3 DEF IInv, TypeOK, Good, Allowed
  <2> QED  BY <2>2, <2>4, <2>5, <2>6, <2>7, <2>8 DEF LoadInv
<1>4. NumberInv' /\ BuildInv' /\ AssertionHolds'
  BY LoadingKeepsBuilt DEF RewriteWhere, document
<1> QED  BY <1>2, <1>3, <1>4 DEF IInv

LEMMA RejectWhereInv == IInv /\ RejectWhere => IInv'
<1> SUFFICES ASSUME IInv, RejectWhere PROVE IInv'
  OBVIOUS
<1>1. TypeOK'
  BY DEF IInv, TypeOK, RejectWhere, Stop, document, resolved, statement
<1>2. LoadInv'
  <2>1. ~ Allowed(pos) /\ pos \in 1 .. Len(where)
    BY AcceptsIsAllowed DEF IInv, TypeOK, RejectWhere
  <2> QED
    BY <2>1 DEF IInv, TypeOK, LoadInv, RejectWhere, Stop, document, resolved,
                Good, Allowed, Rewritten, ArgsIn
<1>3. NumberInv' /\ BuildInv' /\ AssertionHolds'
  BY LoadingKeepsBuilt DEF RejectWhere, Stop, document
<1> QED  BY <1>1, <1>2, <1>3 DEF IInv

LEMMA EndWhereInv == IInv /\ EndWhere => IInv'
<1> SUFFICES ASSUME IInv, EndWhere PROVE IInv'
  OBVIOUS
<1>1. TypeOK'
  BY DEF IInv, TypeOK, EndWhere, EndLoop, document, resolved, statement
<1>2. LoadInv'
  BY DEF IInv, TypeOK, LoadInv, EndWhere, EndLoop, document, resolved, Good, Allowed, Rewritten, ArgsIn
<1>3. NumberInv' /\ BuildInv' /\ AssertionHolds'
  BY LoadingKeepsBuilt DEF EndWhere, EndLoop, document
<1> QED  BY <1>1, <1>2, <1>3 DEF IInv

-----------------------------------------------------------------------------
(* Building.                                                               *)

(* t goes on from s. *)
Grows(s, t) ==
  /\ \A p \in DOMAIN s.text : p \in DOMAIN t.text /\ t.text[p] = s.text[p]
  /\ \A p \in DOMAIN s.params : p \in DOMAIN t.params /\ t.params[p] = s.params[p]

LEMMA DoneGrows ==
  ASSUME NEW s \in Statement, NEW t \in Statement, Grows(s, t), NEW n \in Nat
  PROVE  /\ SetDone(s, n) /\ 2 * n <= Len(s.text) => SetDone(t, n)
         /\ \A offset \in Nat : WhereDone(s, offset, n) => WhereDone(t, offset, n)
<1>1. \A p, a : Carries(s, p, a) => Carries(t, p, a)
  BY DEF Grows, Carries
<1>2. s.text \in Seq(Emitted)
  BY DEF Statement
<1>3. ASSUME SetDone(s, n), 2 * n <= Len(s.text) PROVE SetDone(t, n)
  <2>1. \A i \in 1 .. n : 2 * i - 1 \in DOMAIN s.text
    BY <1>2, <1>3
  <2> QED  BY <1>1, <1>3, <2>1 DEF SetDone, Grows
<1>4. \A offset \in Nat : WhereDone(s, offset, n) => WhereDone(t, offset, n)
  BY <1>1 DEF WhereDone
<1> QED  BY <1>3, <1>4

(* A placeholder carries the argument it was bound to, and what was bound  *)
(* before stays.                                                           *)
LEMMA BindEffect ==
  ASSUME IInv, NEW arg, NEW before \in Seq(Emitted), Bind(arg, before), arg \in Arg,
         Numbers([text |-> before, params |-> params]) = 1 .. Len(params),
         UNCHANGED args
  PROVE  /\ text' \in Seq(Emitted) /\ params' \in Seq(Value) /\ number' \in Nat \ {0}
         /\ number' = Len(params') + 1
         /\ Len(text') = Len(before) + 1 /\ Len(params') = Len(params) + 1
         /\ Numbers(Running') = 1 .. Len(params')
         /\ Grows([text |-> before, params |-> params], Running')
         /\ Carries(Running', Len(before) + 1, arg)
<1>1. /\ number = Len(params) + 1 /\ params \in Seq(Value) /\ Len(params) \in Nat
      /\ args \in [Arg -> Value \cup {None}]
  BY DEF IInv, TypeOK, NumberInv
<1>2. Item("param", number) \in Emitted /\ args[arg] \in Value
  BY <1>1, Items DEF Bind, Given
<1>3. /\ text' = Append(before, Item("param", number))
      /\ params' = Append(params, args[arg])
      /\ number' = number + 1
  BY DEF Bind
<1>4. /\ text' \in Seq(Emitted) /\ Len(text') = Len(before) + 1
      /\ text'[Len(before) + 1] = Item("param", number)
      /\ DOMAIN before = 1 .. Len(before) /\ DOMAIN text' = 1 .. Len(before) + 1
      /\ \A i \in DOMAIN before : text'[i] = before[i]
      /\ Len(before) \in Nat
  BY <1>2, <1>3
<1>5. /\ params' \in Seq(Value) /\ Len(params') = Len(params) + 1
      /\ params'[number] = args[arg]
      /\ DOMAIN params = 1 .. Len(params) /\ DOMAIN params' = 1 .. Len(params) + 1
      /\ \A i \in DOMAIN params : params'[i] = params[i]
  BY <1>1, <1>2, <1>3
<1>6. Numbers(Running') = 1 .. Len(params')
  <2>1. Item("param", number).kind = "param" /\ Item("param", number).of = number
    BY DEF Item
  <2>2. Numbers([text |-> Append(before, Item("param", number)), params |-> params'])
          = Numbers([text |-> before, params |-> params]) \cup {number}
    BY <1>2, <2>1, NumbersAppend
  <2>3. Numbers(Running') = (1 .. Len(params)) \cup {number}
    BY <1>3, <2>2 DEF Running
  <2>4. (1 .. Len(params)) \cup {number} = 1 .. Len(params) + 1
    BY <1>1
  <2> QED  BY <1>5, <2>3, <2>4
<1>7. Grows([text |-> before, params |-> params], Running')
  BY <1>4, <1>5 DEF Grows, Running
<1>8. Carries(Running', Len(before) + 1, arg)
  BY <1>1, <1>4, <1>5 DEF Carries, Running, Item
<1> QED  BY <1>1, <1>3, <1>4, <1>5, <1>6, <1>7, <1>8

Building == {"resolved", "bind_set", "bind_where", "bind_read"}

(* The building loops do not touch what loading left. *)
LEMMA BuildingKeepsLoaded ==
  ASSUME IInv, stage \in Building,
         stage' \in {"bind_set", "bind_where", "bind_read", "raised", "assertion", "built"},
         UNCHANGED <<set, where, where_sql, where_args>>
  PROVE  LoadInv'
BY DEF IInv, LoadInv, Building, Good, Allowed, Rewritten, ArgsIn

LEMMA InvokeInv == IInv /\ Invoke => IInv'
<1> SUFFICES ASSUME IInv, Invoke PROVE IInv'
  OBVIOUS
<1>1. TypeOK'
  BY DEF IInv, TypeOK, Invoke, document, resolved, statement
<1>2. LoadInv'
  BY BuildingKeepsLoaded DEF Invoke, document, resolved, Building
<1>3. NumberInv'
  BY DEF IInv, NumberInv, Invoke, statement, Numbers, Running
<1>4. BuildInv'
  <2>1. /\ pos = 1 /\ pos' = 1 /\ text' = <<>> /\ params' = <<>>
        /\ kind' = kind /\ where' = where
        /\ kind \in {"select", "insert", "update", "delete"}
        /\ stage' = CASE kind = "select" -> "bind_read"
                       [] kind = "delete" -> "bind_where"
                       [] OTHER -> "bind_set"
    BY DEF IInv, TypeOK, NumberInv, Invoke, document, statement
  <2>2. Cardinality(ArgsIn(pos - 1))' = 0
    <3>1. ArgsIn(pos - 1)' = {}
      BY <2>1 DEF ArgsIn
    <3> QED  BY <3>1, FS_EmptySet
  <2>3. set_columns \in Seq([column : Column, value : Arg \cup {None}])
    BY DEF IInv, TypeOK
  <2> QED  BY <2>1, <2>2, <2>3 DEF Invoke, resolved, BuildInv, SetDone, WhereDone, Running, EveryArgumentBound
<1>5. AssertionHolds'
  BY DEF Invoke, AssertionHolds
<1> QED  BY <1>1, <1>2, <1>3, <1>4, <1>5 DEF IInv

LEMMA BindSetInv == IInv /\ BindSet => IInv'
<1> SUFFICES ASSUME IInv, BindSet PROVE IInv'
  OBVIOUS
<1> DEFINE entry == set_columns[pos]
           before == Append(text, Item("column", entry.column))
<1>1. /\ stage = "bind_set" /\ stage' = "bind_set" /\ pos' = pos + 1
      /\ pos \in Nat \ {0} /\ pos \in 1 .. Len(set_columns)
      /\ set_columns \in Seq([column : Column, value : Arg \cup {None}])
      /\ entry.column \in Column /\ entry.value \in Arg
      /\ text \in Seq(Emitted) /\ params \in Seq(Value)
      /\ kind \in {"insert", "update"}
      /\ Len(text) = 2 * (pos - 1) /\ Len(params) = pos - 1
      /\ SetDone(Running, pos - 1)
      /\ Numbers(Running) = 1 .. Len(params)
      /\ Bind(entry.value, before)
      /\ UNCHANGED <<document, prev, resolved, args, write, read>>
  <2>1. /\ stage = "bind_set" /\ stage' = "bind_set" /\ pos' = pos + 1
        /\ pos \in DOMAIN set_columns
        /\ Bind(entry.value, before)
        /\ UNCHANGED <<document, prev, resolved, args, write, read>>
    BY DEF BindSet
  <2>2. /\ set_columns \in Seq([column : Column, value : Arg \cup {None}])
        /\ text \in Seq(Emitted) /\ params \in Seq(Value)
        /\ pos \in Nat \ {0}
    BY DEF IInv, TypeOK
  <2>3. pos \in 1 .. Len(set_columns)
    BY <2>1, <2>2
  <2>4. entry.column \in Column
    <3> DEFINE Entry == [column : Column, value : Arg \cup {None}]
    <3>1. set_columns \in Seq(Entry)
      BY <2>2
    <3>2. \A e \in Entry : e.column \in Column
      OBVIOUS
    <3> HIDE DEF Entry
    <3>3. set_columns[pos] \in Entry
      BY <2>3, <3>1
    <3> QED  BY <3>2, <3>3
  <2>5. entry.value \in Arg
    BY <2>1 DEF Bind, Given
  <2>6. /\ kind \in {"insert", "update"}
        /\ Len(text) = 2 * (pos - 1) /\ Len(params) = pos - 1
        /\ SetDone(Running, pos - 1)
    BY <2>1 DEF IInv, BuildInv
  <2>7. Numbers(Running) = 1 .. Len(params)
    BY DEF IInv, NumberInv, Running
  <2> QED  BY <2>1, <2>2, <2>3, <2>4, <2>5, <2>6, <2>7
<1>2. /\ Item("column", entry.column) \in Emitted
      /\ Item("column", entry.column).kind = "column"
  BY <1>1, Items DEF Item
<1> HIDE DEF entry
<1>3. /\ before \in Seq(Emitted) /\ Len(before) = 2 * pos - 1
      /\ before[2 * pos - 1] = Item("column", entry.column)
      /\ \A i \in DOMAIN text : i \in DOMAIN before /\ before[i] = text[i]
      /\ 2 * pos - 1 \in DOMAIN before
  <2> DEFINE column == Item("column", entry.column)
  <2>1. column \in Emitted /\ text \in Seq(Emitted) /\ before = Append(text, column)
    BY <1>1, <1>2
  <2> HIDE DEF column, before
  <2>2. /\ before \in Seq(Emitted) /\ Len(before) = Len(text) + 1
        /\ before[Len(text) + 1] = column
        /\ \A i \in DOMAIN text : i \in DOMAIN before /\ before[i] = text[i]
        /\ Len(text) + 1 \in DOMAIN before
    BY <2>1
  <2>3. Len(text) + 1 = 2 * pos - 1
    BY <1>1
  <2> QED  BY <2>2, <2>3 DEF column
<1>4. Numbers([text |-> before, params |-> params]) = 1 .. Len(params)
  <2>1. Numbers([text |-> before, params |-> params])
          = Numbers([text |-> text, params |-> params]) \cup {}
    BY <1>1, <1>2, NumbersAppend
  <2> QED  BY <1>1, <2>1 DEF Running
<1> HIDE DEF before
<1>5. /\ text' \in Seq(Emitted) /\ params' \in Seq(Value) /\ number' \in Nat \ {0}
      /\ number' = Len(params') + 1
      /\ Len(text') = 2 * pos /\ Len(params') = pos
      /\ Numbers(Running') = 1 .. Len(params')
      /\ Grows([text |-> before, params |-> params], Running')
      /\ Carries(Running', 2 * pos, entry.value)
  <2>1. UNCHANGED args
    BY <1>1
  <2>2. /\ Len(text') = Len(before) + 1 /\ Len(params') = Len(params) + 1
        /\ text' \in Seq(Emitted) /\ params' \in Seq(Value) /\ number' \in Nat \ {0}
        /\ number' = Len(params') + 1
        /\ Numbers(Running') = 1 .. Len(params')
        /\ Grows([text |-> before, params |-> params], Running')
        /\ Carries(Running', Len(before) + 1, entry.value)
    BY <1>1, <1>3, <1>4, <2>1, BindEffect
  <2>3. Len(before) + 1 = 2 * pos /\ Len(params) + 1 = pos
    BY <1>1, <1>3
  <2> QED  BY <2>2, <2>3
<1>6. TypeOK'
  BY <1>1, <1>5 DEF IInv, TypeOK, document, resolved
<1>7. LoadInv'
  BY <1>1, BuildingKeepsLoaded DEF document, resolved, Building
<1>8. NumberInv'
  <2>1. Running'.params = params'
    BY DEF Running
  <2> QED  BY <1>1, <1>5, <2>1 DEF IInv, NumberInv, Numbers
<1>9. SetDone(Running', pos)
  <2>1. Running \in Statement /\ Running' \in Statement
    BY <1>1, <1>5 DEF Running, Statement
  <2>2. Grows(Running, Running')
    BY <1>3, <1>5 DEF Grows, Running
  <2>3. pos - 1 \in Nat /\ 2 * (pos - 1) <= Len(Running.text)
    BY <1>1 DEF Running
  <2>4. SetDone(Running', pos - 1)
    BY <1>1, <2>1, <2>2, <2>3, DoneGrows
  <2>5. Running'.text[2 * pos - 1] = Item("column", entry.column)
    BY <1>3, <1>5 DEF Grows
  <2>6. Carries(Running', 2 * pos, entry.value)
    BY <1>5
  <2>7. \A i \in 1 .. pos : i \in 1 .. pos - 1 \/ i = pos
    BY <1>1
  <2> QED  BY <2>4, <2>5, <2>6, <2>7 DEF SetDone, entry
<1>10. BuildInv'
  <2>1. SetDone(Running, pos - 1)'
    BY <1>1, <1>9 DEF SetDone, Carries, Running, resolved
  <2> QED  BY <1>1, <1>5, <2>1 DEF BuildInv, EveryArgumentBound, document, resolved
<1>11. AssertionHolds'
  BY <1>1 DEF AssertionHolds
<1> QED  BY <1>6, <1>7, <1>8, <1>10, <1>11 DEF IInv

LEMMA EndBindSetInv == IInv /\ EndBindSet => IInv'
<1> SUFFICES ASSUME IInv, EndBindSet PROVE IInv'
  OBVIOUS
<1>1. /\ stage = "bind_set" /\ kind \in {"insert", "update"}
      /\ stage' = IF kind = "insert" THEN "built" ELSE "bind_where"
      /\ pos = Len(set_columns) + 1 /\ pos' = 1
      /\ write' = IF kind = "insert" THEN Running ELSE write
      /\ UNCHANGED <<document, prev, resolved, args, statement, read>>
  BY DEF IInv, BuildInv, EndBindSet, EndLoop, Running
<1>2. TypeOK'
  BY <1>1 DEF IInv, TypeOK, document, resolved, statement, Running, Statement
<1>3. LoadInv'
  BY <1>1, BuildingKeepsLoaded DEF document, resolved, Building
<1>4. NumberInv'
  <2>1. Running' = Running
    BY <1>1 DEF Running, statement
  <2> QED  BY <1>1, <2>1 DEF IInv, NumberInv, Numbers, statement
<1>5. /\ set_columns \in Seq([column : Column, value : Arg \cup {None}])
      /\ Len(text) = 2 * Len(set_columns) /\ Len(params) = Len(set_columns)
      /\ SetDone(Running, Len(set_columns))
  <2>1. pos - 1 = Len(set_columns)
    BY <1>1 DEF IInv, TypeOK
  <2> QED  BY <1>1, <2>1 DEF IInv, TypeOK, BuildInv
<1>6. BuildInv'
  <2>1. CASE kind = "insert"
    <3>1. SetCarried(write)'
      BY <1>1, <1>5, <2>1 DEF SetCarried, SetDone, Carries, Running, document, resolved
    <3> QED  BY <1>1, <2>1, <3>1 DEF BuildInv, EveryArgumentBound, document
  <2>2. CASE kind = "update"
    <3>1. SetDone(Running, Len(set_columns))'
      BY <1>1, <1>5 DEF SetDone, Carries, Running, resolved, statement
    <3>2. Cardinality(ArgsIn(pos - 1))' = 0 /\ WhereDone(Running, 2 * Len(set_columns), pos - 1)'
      <4>1. ArgsIn(pos - 1)' = {}
        BY <1>1 DEF ArgsIn
      <4>2. WhereDone(Running, 2 * Len(set_columns), pos - 1)'
        BY <1>1 DEF WhereDone
      <4> QED  BY <4>1, <4>2, FS_EmptySet
    <3>3. where \in Seq(Token)
      BY DEF IInv, TypeOK
    <3> QED
      BY <1>1, <1>5, <2>2, <3>1, <3>2, <3>3
         DEF BuildInv, EveryArgumentBound, document, resolved, statement
  <2> QED  BY <1>1, <2>1, <2>2
<1>7. AssertionHolds'
  BY <1>1 DEF AssertionHolds
<1> QED  BY <1>2, <1>3, <1>4, <1>6, <1>7 DEF IInv

(* Parameters before a where: those of the SET list of an update. *)
Columns == IF stage = "bind_where" /\ kind = "update" THEN Len(set_columns) ELSE 0

(* What a running _renumber_where has done, for a write and for a read.    *)
LEMMA Renumbering ==
  ASSUME IInv, stage \in {"bind_where", "bind_read"}
  PROVE  /\ Columns \in Nat
         /\ pos <= Len(where) + 1
         /\ Len(text) = 2 * Columns + pos - 1
         /\ Len(params) = Columns + Cardinality(ArgsIn(pos - 1))
         /\ SetDone(Running, Columns)
         /\ WhereDone(Running, 2 * Columns, pos - 1)
<1>1. set_columns \in Seq([column : Column, value : Arg \cup {None}]) /\ Len(set_columns) \in Nat
  BY DEF IInv, TypeOK
<1>2. CASE stage = "bind_where"
  BY <1>1, <1>2 DEF IInv, BuildInv, Columns
<1>3. CASE stage = "bind_read"
  <2>1. Columns = 0
    BY <1>3 DEF Columns
  <2>2. SetDone(Running, 0)
    BY DEF SetDone
  <2>3. pos \in Nat /\ pos - 1 \in Nat
    BY DEF IInv, TypeOK
  <2>4. Cardinality(ArgsIn(pos - 1)) \in Nat
    BY <2>3, CountArgs DEF IInv, TypeOK
  <2> QED  BY <1>3, <2>1, <2>2, <2>3, <2>4 DEF IInv, BuildInv
<1> QED  BY <1>2, <1>3

(* The count of the assertion is that of the placeholders of where. *)
LEMMA CountsAgree ==
  ASSUME IInv, stage \in {"bind_where", "bind_read"}, pos = Len(where_sql) + 1
  PROVE  /\ WhereParams = Len(where_args)
         /\ pos - 1 = Len(where)
<1>1. Len(where_sql) = Len(where) /\ Len(where) \in Nat
  BY DEF IInv, TypeOK, LoadInv
<1>2. pos - 1 = Len(where)
  BY <1>1
<1>3. Len(params) = Columns + Cardinality(ArgsIn(Len(where)))
  BY <1>2, Renumbering
<1>4. Cardinality(ArgsIn(Len(where))) \in Nat
  BY <1>1, CountArgs DEF IInv, TypeOK
<1>5. WhereParams = Len(params) - Columns
  BY DEF WhereParams, Columns
<1>6. Columns \in Nat
  BY Renumbering
<1>7. Len(where_args) = Cardinality(ArgsIn(Len(where)))
  BY <1>1 DEF IInv, LoadInv
<1> QED  BY <1>2, <1>3, <1>4, <1>5, <1>6, <1>7

LEMMA BindWhereInv == IInv /\ BindWhere => IInv'
<1> SUFFICES ASSUME IInv, BindWhere PROVE IInv'
  OBVIOUS
<1>1. /\ stage \in {"bind_where", "bind_read"} /\ stage' = stage /\ pos' = pos + 1
      /\ pos \in Nat \ {0} /\ pos \in 1 .. Len(where) /\ pos \in DOMAIN where_sql
      /\ UNCHANGED <<document, prev, resolved, args, write, read>>
  BY DEF IInv, TypeOK, LoadInv, BindWhere
<1>2. /\ where[pos] \in Token /\ where_sql[pos] = Rewritten(where[pos])
      /\ where_sql[pos] \in Emitted
      /\ text \in Seq(Emitted) /\ params \in Seq(Value)
      /\ number \in Nat \ {0} /\ number = Len(params) + 1
      /\ Numbers(Running) = 1 .. Len(params)
  BY <1>1 DEF IInv, TypeOK, LoadInv, NumberInv, Running
<1>3. /\ where_sql[pos].kind = "arg" <=> where[pos].kind = "arg"
      /\ where_sql[pos].kind # "param"
      /\ where[pos].kind = "arg" => where_sql[pos].of = where[pos].of /\ where[pos].of \in Arg
  BY <1>2 DEF Rewritten, Item, Token
<1>4. /\ Columns \in Nat
      /\ Len(text) = 2 * Columns + pos - 1
      /\ Len(params) = Columns + Cardinality(ArgsIn(pos - 1))
      /\ SetDone(Running, Columns)
      /\ WhereDone(Running, 2 * Columns, pos - 1)
      /\ Cardinality(ArgsIn(pos - 1)) \in Nat
  <2>1. pos - 1 \in Nat /\ where \in Seq(Token)
    BY <1>1 DEF IInv, TypeOK
  <2>2. Cardinality(ArgsIn(pos - 1)) \in Nat
    BY <2>1, CountArgs
  <2> QED  BY <1>1, <2>2, Renumbering
<1>5. /\ text' \in Seq(Emitted) /\ params' \in Seq(Value) /\ number' \in Nat \ {0}
      /\ number' = Len(params') + 1
      /\ Len(text') = 2 * Columns + pos
      /\ Len(params') = Columns + Cardinality(ArgsIn(pos))
      /\ Numbers(Running') = 1 .. Len(params')
      /\ Grows(Running, Running')
      /\ where[pos].kind = "arg" => Carries(Running', 2 * Columns + pos, where[pos].of)
  <2>1. pos - 1 \in Nat /\ pos - 1 + 1 = pos
    BY <1>1
  <2>2. CASE where[pos].kind = "arg"
    <3>1. Bind(where[pos].of, text)
      BY <1>3, <2>2 DEF BindWhere
    <3>2. Numbers([text |-> text, params |-> params]) = 1 .. Len(params)
      BY <1>2 DEF Running
    <3>3. UNCHANGED args
      BY <1>1
    <3>4. /\ text' \in Seq(Emitted) /\ params' \in Seq(Value) /\ number' \in Nat \ {0}
          /\ number' = Len(params') + 1
          /\ Len(text') = Len(text) + 1 /\ Len(params') = Len(params) + 1
          /\ Numbers(Running') = 1 .. Len(params')
          /\ Grows([text |-> text, params |-> params], Running')
          /\ Carries(Running', Len(text) + 1, where[pos].of)
      BY <1>2, <1>3, <2>2, <3>1, <3>2, <3>3, BindEffect
    <3>5. Cardinality(ArgsIn(pos)) = Cardinality(ArgsIn(pos - 1)) + 1
      BY <2>1, <2>2, CountArgs DEF IInv, TypeOK
    <3>6. Len(text) + 1 = 2 * Columns + pos
      BY <1>1, <1>4
    <3> QED  BY <1>4, <3>4, <3>5, <3>6 DEF Running
  <2>3. CASE where[pos].kind # "arg"
    <3>1. text' = Append(text, where_sql[pos]) /\ UNCHANGED <<params, number>>
      BY <1>3, <2>3 DEF BindWhere
    <3>2. Cardinality(ArgsIn(pos)) = Cardinality(ArgsIn(pos - 1))
      BY <2>1, <2>3, CountArgs DEF IInv, TypeOK
    <3>3. /\ text' \in Seq(Emitted) /\ Len(text') = Len(text) + 1
          /\ \A i \in DOMAIN text : i \in DOMAIN text' /\ text'[i] = text[i]
      BY <1>2, <3>1
    <3>4. Numbers(Running') = Numbers(Running) \cup {}
      <4>1. Numbers([text |-> Append(text, where_sql[pos]), params |-> params])
              = Numbers([text |-> text, params |-> params]) \cup {}
        <5> DEFINE x == where_sql[pos]
        <5>1. x \in Emitted /\ x.kind # "param" /\ text \in Seq(Emitted)
          BY <1>2, <1>3
        <5> HIDE DEF x
        <5>2. Numbers([text |-> Append(text, x), params |-> params])
                = Numbers([text |-> text, params |-> params]) \cup {}
          BY <5>1, NumbersAppend
        <5> QED  BY <5>2 DEF x
      <4> QED  BY <3>1, <4>1 DEF Running
    <3>5. Grows(Running, Running')
      BY <3>1, <3>3 DEF Grows, Running
    <3>6. Len(text') = 2 * Columns + pos
      BY <1>1, <1>4, <3>3
    <3>7. params' = params /\ number' = number
      BY <3>1
    <3> QED  BY <1>2, <1>4, <2>3, <3>2, <3>3, <3>4, <3>5, <3>6, <3>7
  <2> QED  BY <2>2, <2>3
<1>6. TypeOK'
  BY <1>1, <1>5 DEF IInv, TypeOK, document, resolved
<1>7. LoadInv'
  BY <1>1, BuildingKeepsLoaded DEF document, resolved, Building
<1>8. NumberInv'
  <2>1. Running'.params = params'
    BY DEF Running
  <2> QED  BY <1>1, <1>5, <2>1 DEF IInv, NumberInv, Numbers
<1>9. /\ SetDone(Running', Columns)
      /\ WhereDone(Running', 2 * Columns, pos)
  <2>1. Running \in Statement /\ Running' \in Statement
    BY <1>2, <1>5 DEF Running, Statement
  <2>2. 2 * Columns <= Len(Running.text) /\ pos - 1 \in Nat /\ 2 * Columns \in Nat
    BY <1>1, <1>4 DEF Running
  <2>3. SetDone(Running', Columns)
    BY <1>4, <1>5, <2>1, <2>2, DoneGrows
  <2>4. WhereDone(Running', 2 * Columns, pos - 1)
    BY <1>4, <1>5, <2>1, <2>2, DoneGrows
  <2>5. \A i \in 1 .. pos : i \in 1 .. pos - 1 \/ i = pos
    BY <1>1
  <2>6. WhereDone(Running', 2 * Columns, pos)
    BY <1>5, <2>4, <2>5 DEF WhereDone
  <2> QED  BY <2>3, <2>6
<1>10. BuildInv'
  <2>1. /\ Columns' = Columns /\ pos' - 1 = pos /\ pos' <= Len(where) + 1
        /\ ArgsIn(pos - 1)' = ArgsIn(pos)
        /\ kind' = kind /\ where' = where /\ set_columns' = set_columns /\ write' = write
    BY <1>1 DEF Columns, ArgsIn, document, resolved
  <2>2. /\ SetDone(Running, Columns)'
        /\ WhereDone(Running, 2 * Columns, pos - 1)'
    BY <1>1, <1>9, <2>1 DEF SetDone, WhereDone, Carries, Running
  <2>3. CASE stage = "bind_where"
    <3>1. Columns = IF kind = "update" THEN Len(set_columns) ELSE 0
      BY <2>3 DEF Columns
    <3>2. kind \in {"update", "delete"}
      BY <2>3 DEF IInv, BuildInv
    <3>3. Len(text') = 2 * Columns + pos' - 1
      BY <1>1, <1>4, <1>5
    <3> QED  BY <1>1, <1>5, <2>1, <2>2, <2>3, <3>1, <3>2, <3>3 DEF BuildInv, EveryArgumentBound
  <2>4. CASE stage = "bind_read"
    <3>1. Columns = 0 /\ Columns' = 0
      BY <2>1, <2>4 DEF Columns
    <3>2. /\ kind \in {"select", "update"}
          /\ kind = "update" => /\ SetDone(write, Len(set_columns))
                                /\ WhereDone(write, 2 * Len(set_columns), Len(where))
      BY <2>4 DEF IInv, BuildInv
    <3>3. kind = "update" => /\ SetDone(write, Len(set_columns))'
                             /\ WhereDone(write, 2 * Len(set_columns), Len(where))'
      BY <1>1, <2>1, <3>2 DEF SetDone, WhereDone, Carries
    <3>4. Len(text') = pos' - 1 /\ Len(params') = Cardinality(ArgsIn(pos - 1))'
      <4>1. Cardinality(ArgsIn(pos)) \in Nat
        BY <1>1, CountArgs DEF IInv, TypeOK
      <4>2. Len(text') = 2 * 0 + pos /\ Len(params') = 0 + Cardinality(ArgsIn(pos))
        BY <1>5, <3>1
      <4> QED  BY <1>1, <2>1, <4>1, <4>2
    <3>5. WhereDone(Running, 0, pos - 1)'
      BY <2>2, <3>1 DEF WhereDone
    <3> QED  BY <1>1, <2>1, <2>4, <3>2, <3>3, <3>4, <3>5 DEF BuildInv, EveryArgumentBound
  <2> QED  BY <1>1, <2>3, <2>4
<1>11. AssertionHolds'
  BY <1>1 DEF AssertionHolds
<1> QED  BY <1>6, <1>7, <1>8, <1>10, <1>11 DEF IInv

(* Done for all items is what the properties ask for. *)
LEMMA AllDone ==
  ASSUME TypeOK, NEW s
  PROVE  /\ SetDone(s, Len(set_columns)) => SetCarried(s)
         /\ \A offset \in Nat : WhereDone(s, offset, Len(where)) => WhereCarried(s, offset)
<1>1. DOMAIN set_columns = 1 .. Len(set_columns) /\ DOMAIN where = 1 .. Len(where)
  BY DEF TypeOK
<1> QED  BY <1>1 DEF SetDone, SetCarried, WhereDone, WhereCarried

LEMMA EndBindWhereInv == IInv /\ EndBindWhere => IInv'
<1> SUFFICES ASSUME IInv, EndBindWhere PROVE IInv'
  OBVIOUS
<1>1. /\ stage = "bind_where" /\ kind \in {"update", "delete"}
      /\ pos = Len(where_sql) + 1 /\ pos' = 1
      /\ write' = Running
      /\ text' = <<>> /\ params' = <<>> /\ number' = 1
      /\ UNCHANGED <<document, prev, resolved, args, read>>
  BY DEF IInv, BuildInv, EndBindWhere, EndLoop, Running
<1>2. stage' = IF kind = "update" THEN "bind_read" ELSE "built"
  BY <1>1, CountsAgree DEF EndBindWhere, EndLoop, Asserted
<1>3. /\ set_columns \in Seq([column : Column, value : Arg \cup {None}])
      /\ where \in Seq(Token)
      /\ Columns = IF kind = "update" THEN Len(set_columns) ELSE 0
      /\ SetDone(Running, Columns)
      /\ WhereDone(Running, 2 * Columns, Len(where))
  BY <1>1, Renumbering, CountsAgree DEF IInv, TypeOK, Columns
<1>4. TypeOK'
  <2>1. Running \in Statement
    BY DEF IInv, TypeOK, Running, Statement
  <2>2. write' \in Statement
    BY <1>1, <2>1
  <2> QED  BY <1>1, <1>2, <2>2 DEF IInv, TypeOK, document, resolved
<1>5. LoadInv'
  BY <1>1, <1>2, BuildingKeepsLoaded DEF document, resolved, Building
<1>6. NumberInv'
  <2>1. Numbers(Running') = {} /\ Running'.params = <<>>
    BY <1>1 DEF Running, Numbers
  <2>2. Numbers(write') = 1 .. Len(write'.params) /\ Numbers(read') = 1 .. Len(read'.params)
    BY <1>1 DEF IInv, NumberInv
  <2>3. 1 .. Len(<<>>) = {}
    OBVIOUS
  <2>4. number' = Len(params') + 1
    BY <1>1
  <2>5. (\A s \in {Running, write, read} : Numbers(s) = 1 .. Len(s.params))'
    BY <2>1, <2>2, <2>3
  <2> QED  BY <1>1, <1>2, <2>4, <2>5 DEF NumberInv
<1>7. BuildInv'
  <2>1. CASE kind = "update"
    <3>1. /\ SetDone(write, Len(set_columns))'
          /\ WhereDone(write, 2 * Len(set_columns), Len(where))'
      BY <1>1, <1>3, <2>1 DEF SetDone, WhereDone, Carries, Running, document, resolved
    <3>2. Cardinality(ArgsIn(pos - 1))' = 0 /\ WhereDone(Running, 0, pos - 1)'
      <4>1. ArgsIn(pos - 1)' = {}
        BY <1>1 DEF ArgsIn
      <4>2. WhereDone(Running, 0, pos - 1)'
        BY <1>1 DEF WhereDone
      <4> QED  BY <4>1, <4>2, FS_EmptySet
    <3>3. Len(text') = pos' - 1 /\ Len(params') = 0 /\ pos' <= Len(where') + 1
      BY <1>1, <1>3 DEF document
    <3> QED
      BY <1>1, <1>2, <2>1, <3>1, <3>2, <3>3 DEF BuildInv, EveryArgumentBound, document
  <2>2. CASE kind = "delete"
    <3>1. WhereCarried(Running, 0)
      <4>1. WhereDone(Running, 0, Len(where))
        BY <1>3, <2>2
      <4> QED  BY <4>1, AllDone DEF IInv
    <3>2. WhereCarried(write, 0)'
      BY <1>1, <3>1 DEF WhereCarried, Carries, Running, document
    <3> QED  BY <1>1, <1>2, <2>2, <3>2 DEF BuildInv, EveryArgumentBound, document
  <2> QED  BY <1>1, <2>1, <2>2
<1>8. AssertionHolds'
  BY <1>2 DEF AssertionHolds
<1> QED  BY <1>4, <1>5, <1>6, <1>7, <1>8 DEF IInv

LEMMA EndBindReadInv == IInv /\ EndBindRead => IInv'
<1> SUFFICES ASSUME IInv, EndBindRead PROVE IInv'
  OBVIOUS
<1>1. /\ stage = "bind_read" /\ kind \in {"select", "update"}
      /\ pos = Len(where_sql) + 1 /\ pos' = 1
      /\ read' = Running
      /\ UNCHANGED <<document, prev, resolved, args, statement, write>>
  BY DEF IInv, BuildInv, EndBindRead, EndLoop, Running
<1>2. stage' = "built"
  BY <1>1, CountsAgree DEF EndBindRead, EndLoop, Asserted
<1>3. TypeOK'
  <2>1. Running \in Statement
    BY DEF IInv, TypeOK, Running, Statement
  <2> QED  BY <1>1, <1>2, <2>1 DEF IInv, TypeOK, document, resolved, statement
<1>4. LoadInv'
  BY <1>1, <1>2, BuildingKeepsLoaded DEF document, resolved, Building
<1>5. NumberInv'
  <2>1. Running' = Running
    BY <1>1 DEF Running, statement
  <2> QED  BY <1>1, <1>2, <2>1 DEF IInv, NumberInv, Numbers, statement
<1>6. BuildInv'
  <2>1. WhereCarried(read, 0)'
    <3>1. WhereDone(Running, 0, Len(where))
      BY <1>1, Renumbering, CountsAgree DEF Columns
    <3>2. WhereCarried(Running, 0)
      BY <3>1, AllDone DEF IInv
    <3> QED  BY <1>1, <3>2 DEF WhereCarried, Carries, Running, document
  <2>2. ASSUME kind = "update"
        PROVE  SetCarried(write)' /\ WhereCarried(write, 2 * Len(set_columns))'
    <3>1. /\ SetDone(write, Len(set_columns))
          /\ WhereDone(write, 2 * Len(set_columns), Len(where))
          /\ 2 * Len(set_columns) \in Nat
      BY <1>1, <2>2 DEF IInv, TypeOK, BuildInv
    <3>2. SetCarried(write) /\ WhereCarried(write, 2 * Len(set_columns))
      BY <3>1, AllDone DEF IInv
    <3> QED
      BY <1>1, <3>2 DEF SetCarried, WhereCarried, Carries, document, resolved
  <2> QED  BY <1>1, <1>2, <2>1, <2>2 DEF BuildInv, EveryArgumentBound, document
<1>7. AssertionHolds'
  BY <1>2 DEF AssertionHolds
<1> QED  BY <1>3, <1>4, <1>5, <1>6, <1>7 DEF IInv

LEMMA RaisesInv == IInv /\ Raises => IInv'
<1> SUFFICES ASSUME IInv, Raises PROVE IInv'
  OBVIOUS
<1>1. /\ stage \in Building /\ stage' = "raised"
      /\ UNCHANGED <<document, pos, prev, resolved, args, statement, write, read>>
  BY DEF Raises, Stop, Building
<1>2. TypeOK'
  BY <1>1 DEF IInv, TypeOK, document, resolved, statement
<1>3. LoadInv'
  BY <1>1, BuildingKeepsLoaded DEF document, resolved
<1>4. NumberInv'
  <2>1. Running' = Running
    BY <1>1 DEF Running, statement
  <2> QED  BY <1>1, <2>1 DEF IInv, NumberInv, Numbers, statement
<1>5. BuildInv' /\ AssertionHolds'
  BY <1>1 DEF BuildInv, EveryArgumentBound, AssertionHolds
<1> QED  BY <1>2, <1>3, <1>4, <1>5 DEF IInv

LEMMA StutterInv == IInv /\ UNCHANGED vars => IInv'
<1> SUFFICES ASSUME IInv, UNCHANGED vars PROVE IInv'
  OBVIOUS
<1> USE DEF IInv, vars, document, resolved, statement
<1>1. TypeOK'
  BY DEF TypeOK
<1>2. LoadInv'
  BY DEF LoadInv, Good, Allowed, Rewritten, ArgsIn
<1>3. NumberInv'
  BY DEF NumberInv, Numbers, Running
<1>4. BuildInv'
  BY DEF BuildInv, EveryArgumentBound, SetDone, WhereDone, SetCarried, WhereCarried,
         Carries, Running, ArgsIn
<1>5. AssertionHolds'
  BY DEF AssertionHolds
<1> QED  BY <1>1, <1>2, <1>3, <1>4, <1>5

LEMMA NextInv == IInv /\ [Next]_vars => IInv'
BY RewriteSetInv, RejectSetInv, EndSetInv, RewriteWhereInv, RejectWhereInv, EndWhereInv,
   InvokeInv, BindSetInv, EndBindSetInv, BindWhereInv, EndBindWhereInv, EndBindReadInv,
   RaisesInv, StutterInv DEF Next, Finished

-----------------------------------------------------------------------------
(* Which of the fields get to the statement.                               *)

(* One more field: it takes the place of those of its column. *)
LEMMA OneMoreField ==
  ASSUME IInv, RewriteSet, Collected(pos - 1)
  PROVE  Collected(pos - 1)'
<1> DEFINE column == ColumnOf[set[pos].field]
           new == [column |-> column, value |-> set[pos].value]
<1>1. /\ pos \in 1 .. Len(set) /\ Len(set) \in Nat
      /\ set_columns' = Assigned(column, set[pos].value)
      /\ set' = set /\ pos' - 1 = pos
  BY DEF IInv, TypeOK, RewriteSet, document
<1>2. Len(set_columns) \in Nat /\ DOMAIN set_columns = 1 .. Len(set_columns)
  BY DEF IInv, TypeOK
<1> HIDE DEF column
<1>3. CASE \E m \in DOMAIN set_columns : set_columns[m].column = column
  <2>1. /\ DOMAIN set_columns' = DOMAIN set_columns
        /\ \A m \in DOMAIN set_columns :
             set_columns'[m] = IF set_columns[m].column = column THEN new ELSE set_columns[m]
    BY <1>1, <1>3 DEF Assigned
  <2>2. \A m \in DOMAIN set_columns : set_columns'[m].column = set_columns[m].column
    BY <2>1
  <2>3. ASSUME NEW i \in 1 .. pos, LastOf(i, pos)
        PROVE  \E m \in DOMAIN set_columns' :
                 set_columns'[m] = [column |-> ColumnOf[set[i].field], value |-> set[i].value]
    <3>1. CASE i = pos
      BY <1>3, <2>1, <3>1 DEF column
    <3>2. CASE i # pos
      <4>1. i \in 1 .. pos - 1 /\ LastOf(i, pos - 1) /\ ColumnOf[set[i].field] # column
        BY <1>1, <2>3, <3>2 DEF LastOf, column
      <4>2. PICK m \in DOMAIN set_columns :
              set_columns[m] = [column |-> ColumnOf[set[i].field], value |-> set[i].value]
        BY <4>1 DEF Collected
      <4> QED  BY <2>1, <4>1, <4>2
    <3> QED  BY <3>1, <3>2
  <2>4. \A m, k \in DOMAIN set_columns' :
          set_columns'[m].column = set_columns'[k].column => m = k
    BY <2>1, <2>2 DEF Collected
  <2> QED  BY <1>1, <2>3, <2>4 DEF Collected, LastOf
<1>4. CASE ~ \E m \in DOMAIN set_columns : set_columns[m].column = column
  <2>1. set_columns' = Append(set_columns, new)
    BY <1>1, <1>4 DEF Assigned
  <2>2. set_columns \in Seq([column : Column, value : Arg \cup {None}])
    BY DEF IInv, TypeOK
  <2> HIDE DEF new
  <2>3. /\ DOMAIN set_columns' = 1 .. Len(set_columns) + 1
        /\ set_columns'[Len(set_columns) + 1] = new
        /\ \A m \in DOMAIN set_columns : set_columns'[m] = set_columns[m]
    BY <2>1, <2>2
  <2>4. ASSUME NEW i \in 1 .. pos, LastOf(i, pos)
        PROVE  \E m \in DOMAIN set_columns' :
                 set_columns'[m] = [column |-> ColumnOf[set[i].field], value |-> set[i].value]
    <3>1. CASE i = pos
      BY <1>2, <2>3, <3>1 DEF column, new
    <3>2. CASE i # pos
      <4>1. i \in 1 .. pos - 1 /\ LastOf(i, pos - 1)
        BY <1>1, <2>4, <3>2 DEF LastOf
      <4>2. PICK m \in DOMAIN set_columns :
              set_columns[m] = [column |-> ColumnOf[set[i].field], value |-> set[i].value]
        BY <4>1 DEF Collected
      <4> QED  BY <1>2, <2>3, <4>2
    <3> QED  BY <3>1, <3>2
  <2>5. new.column = column
    BY DEF new
  <2>6. \A m, k \in DOMAIN set_columns' :
          set_columns'[m].column = set_columns'[k].column => m = k
    BY <1>2, <1>4, <2>3, <2>5 DEF Collected
  <2> QED  BY <1>1, <2>4, <2>6 DEF Collected, LastOf
<1> QED  BY <1>3, <1>4

LEMMA NextCollect == IInv /\ CollectInv /\ [Next]_vars => CollectInv'
<1> SUFFICES ASSUME IInv, CollectInv, [Next]_vars PROVE CollectInv'
  OBVIOUS
<1>1. CASE RewriteSet
  <2>1. Collected(pos - 1)'
    BY <1>1, OneMoreField DEF CollectInv, RewriteSet
  <2>2. stage' = "set"
    BY <1>1 DEF RewriteSet
  <2> QED  BY <2>1, <2>2 DEF CollectInv, Collected
<1>2. CASE EndSet
  <2>1. /\ stage = "set" /\ stage' = "where" /\ pos - 1 = Len(set)
        /\ UNCHANGED <<set, set_columns>>
    BY <1>2 DEF IInv, TypeOK, EndSet, EndLoop, document, resolved
  <2> QED  BY <2>1 DEF CollectInv, Collected, LastOf
<1>3. CASE RejectSet \/ RejectWhere
  BY <1>3 DEF RejectSet, RejectWhere, Stop, CollectInv
<1>4. CASE ~ (RewriteSet \/ EndSet \/ RejectSet \/ RejectWhere)
  <2>1. UNCHANGED <<set, set_columns>>
    BY <1>4 DEF Next, RewriteWhere, EndWhere, Invoke, BindSet, EndBindSet, BindWhere,
                EndBindWhere, EndBindRead, Raises, Stop, Finished, vars, document, resolved
  <2>2. \/ stage # "set" /\ stage # "rejected" /\ stage' # "set"
        \/ stage' = stage /\ pos' = pos
    BY <1>4 DEF Next, RewriteWhere, EndWhere, Invoke, BindSet, EndBindSet, BindWhere,
                EndBindWhere, EndBindRead, EndLoop, Asserted, Raises, Stop, Finished, vars
  <2> QED  BY <2>1, <2>2 DEF CollectInv, Collected, LastOf
<1> QED  BY <1>1, <1>2, <1>3, <1>4

-----------------------------------------------------------------------------
(* What every loop of the loader and the builder has done so far. *)
THEOREM Progress == Spec => []IInv
BY InitInv, NextInv, PTL DEF Spec

(* The builder binds only values the request gave. *)
THEOREM TypeCorrect == Spec => []TypeOK
<1>1. IInv => TypeOK
  BY DEF IInv
<1> QED  BY <1>1, Progress, PTL

(* The loader accepts exactly the documents the allowlist allows. *)
THEOREM Allowlist == Spec => []AllowlistExact
<1>1. IInv => AllowlistExact
  <2> SUFFICES ASSUME IInv PROVE AllowlistExact
    OBVIOUS
  <2>1. DOMAIN set = 1 .. Len(set) /\ DOMAIN where = 1 .. Len(where)
    BY DEF IInv, TypeOK
  <2> QED  BY <2>1 DEF IInv, LoadInv, Good, AllowlistExact
<1> QED  BY <1>1, Progress, PTL

(* Every placeholder of every statement carries its argument. *)
THEOREM Binding == Spec => []EveryArgumentBound
<1>1. IInv => EveryArgumentBound
  BY DEF IInv, BuildInv
<1> QED  BY <1>1, Progress, PTL

(* The statement assigns to each column what the last field mapped to it   *)
(* says, and no column twice.                                              *)
THEOREM Assignments == Spec => []AssignmentsKept
<1>1. Init => CollectInv
  BY DEF Init, CollectInv, Collected
<1>2. Spec => []CollectInv
  BY <1>1, InitInv, NextInv, NextCollect, PTL DEF Spec
<1>3. IInv /\ CollectInv => AssignmentsKept
  <2> SUFFICES ASSUME IInv, CollectInv, stage = "built", kind \in {"insert", "update"}
               PROVE  AssignmentsKept
    BY DEF AssignmentsKept
  <2>1. SetCarried(write)
    BY DEF IInv, BuildInv, EveryArgumentBound
  <2>2. Collected(Len(set)) /\ DOMAIN set = 1 .. Len(set)
    BY DEF IInv, TypeOK, CollectInv
  <2>3. ASSUME NEW i \in DOMAIN set, LastOf(i, Len(set))
        PROVE  Assigns(write, ColumnOf[set[i].field], set[i].value)
    <3>1. PICK m \in DOMAIN set_columns :
            set_columns[m] = [column |-> ColumnOf[set[i].field], value |-> set[i].value]
      BY <2>2, <2>3 DEF Collected
    <3> QED  BY <2>1, <3>1 DEF SetCarried, Assigns
  <2>4. ASSUME NEW m \in DOMAIN set_columns, NEW k \in DOMAIN set_columns,
               write.text[2 * m - 1] = write.text[2 * k - 1]
        PROVE  m = k
    <3>1. Item("column", set_columns[m].column) = Item("column", set_columns[k].column)
      BY <2>1, <2>4 DEF SetCarried
    <3>2. set_columns[m].column = set_columns[k].column
      BY <3>1 DEF Item
    <3> QED  BY <2>2, <3>2 DEF Collected
  <2> QED  BY <2>3, <2>4 DEF AssignmentsKept
<1> QED  BY <1>2, <1>3, Progress, PTL

(* The placeholders of a statement are $1 .. $n for its n parameters. *)
THEOREM Numbering == Spec => []NumberedFromOne
<1>1. IInv => NumberedFromOne
  BY DEF IInv, NumberInv, NumberedFromOne
<1> QED  BY <1>1, Progress, PTL

(* The assertion of _renumber_where never fails. *)
THEOREM NoMismatch == Spec => []AssertionHolds
<1>1. IInv => AssertionHolds
  BY DEF IInv
<1> QED  BY <1>1, Progress, PTL
=============================================================================
