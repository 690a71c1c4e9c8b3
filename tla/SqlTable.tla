------------------------------- MODULE SqlTable -------------------------------
(***************************************************************************)
(* What a call of the SQLite wrapper (src/src/db_sql_ops.c) promises its   *)
(* caller, for one table with columns (key, val): a call that returns     *)
(* STD_ERR_OK has had exactly the effect of its SQL statement, and one     *)
(* that returns anything else has had none.  A SELECT that succeeds       *)
(* yields the column of a row the WHERE clause matches, or the empty      *)
(* string when none does.                                                  *)
(*                                                                         *)
(* The meaning of a statement (Effect) is SQLite's; the wrapper only       *)
(* builds the statement and reports how it went.                           *)
(***************************************************************************)
EXTENDS Integers, Sequences

CONSTANTS
    Keys,       \* values of the key column
    Vals,       \* values of the val column
    NoVal,      \* the empty string an unmatched SELECT leaves in output_str
    NoArg,      \* an argument a statement does not have
    All         \* no WHERE clause

\* A WHERE clause "col = eq", or none at all.
Conds == [col : {"key"}, eq : Keys] \cup [col : {"val"}, eq : Vals] \cup {All}

\* A statement: its kind and the row, value and condition it names.
Stmt(kind, row, val, cond) == [kind |-> kind, row |-> row, val |-> val, cond |-> cond]
Row == [key : Keys, val : Vals]
NoStmt == Stmt("NONE", NoArg, NoArg, NoArg)

Stmts ==
    {NoStmt, Stmt("CREATE", NoArg, NoArg, NoArg), Stmt("DROP", NoArg, NoArg, NoArg),
     Stmt("TRIGGER", NoArg, NoArg, NoArg)}
    \cup {Stmt("INSERT", r, NoArg, NoArg) : r \in Row}
    \cup {Stmt("DELETE", NoArg, NoArg, c) : c \in Conds}
    \cup {Stmt("UPDATE", NoArg, v, c) : v \in Vals, c \in Conds}
    \cup {Stmt("SELECT", NoArg, NoArg, c) : c \in Conds}

\* The wrapper's entry points.
Ops == {"none", "open", "close", "create_table", "drop_table", "insert", "delete",
        "delete_all_records", "create_trigger", "set_attribute", "get_attribute",
        "execute_sql_command", "raw_sql_execute"}

\* The database file: whether the table exists, whether the trigger does,
\* and the rows in rowid order.
EmptyDb == [exists |-> FALSE, trigger |-> FALSE, rows |-> <<>>]

Matches(r, c) == c = All \/ r[c.col] = c.eq

Matching(rows, c) == SelectSeq(rows, LAMBDA r : Matches(r, c))

\* SQLite's effect of a statement that ran to completion.  Dropping the
\* table drops its trigger; what the trigger itself does is not modelled.
Effect(s, d) ==
    CASE s.kind = "CREATE"  -> [exists |-> TRUE, trigger |-> FALSE, rows |-> <<>>]
      [] s.kind = "DROP"    -> EmptyDb
      [] s.kind = "INSERT"  -> [d EXCEPT !.rows = Append(@, s.row)]
      [] s.kind = "DELETE"  -> [d EXCEPT !.rows = SelectSeq(@, LAMBDA r : ~Matches(r, s.cond))]
      [] s.kind = "UPDATE"  -> [d EXCEPT !.rows = [i \in DOMAIN @ |->
                                    IF Matches(@[i], s.cond) THEN [@[i] EXCEPT !.val = s.val]
                                    ELSE @[i]]]
      [] s.kind = "TRIGGER" -> [d EXCEPT !.trigger = TRUE]
      [] OTHER              -> d

\* What a successful db_sql_get_attribute may leave in output_str.
Answers(s, d) ==
    LET m == Matching(d.rows, s.cond) IN
    IF m = <<>> THEN {NoVal} ELSE {m[i].val : i \in DOMAIN m}

VARIABLES
    db,     \* the database file
    call,   \* the last call: [op, stmt]
    ok,     \* it returned STD_ERR_OK
    out     \* what the last call returned in output_str (NoVal: nothing)

Init ==
    /\ db = EmptyDb
    /\ call = [op |-> "none", stmt |-> NoStmt]
    /\ ok = TRUE
    /\ out = NoVal

\* A call succeeds with its statement's effect ...
Succeed(c) ==
    /\ ok' = TRUE
    /\ db' = Effect(c.stmt, db)
    /\ IF c.op = "get_attribute" THEN out' \in Answers(c.stmt, db) ELSE out' = NoVal

\* ... or fails without one.
Fail(c) ==
    /\ ok' = FALSE
    /\ out' = NoVal
    /\ UNCHANGED db

Next ==
    /\ call' \in [op : Ops, stmt : Stmts]
    /\ Succeed(call') \/ Fail(call')

Spec == Init /\ [][Next]_<<db, call, ok, out>>

================================================================================
