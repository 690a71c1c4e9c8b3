------------------------------- MODULE DbSqlOps -------------------------------
(***************************************************************************)
(* The SQLite wrapper of src/src/db_sql_ops.c on one connection and one    *)
(* table (key, val), as the caller sees it: every public function is one  *)
(* action, including the helpers it calls                                  *)
(* (db_sql_construct_sql_cmd, db_sql_execute_sql_command,                  *)
(* db_sql_execute_select_cmd, db_sql_finalize, db_sql_error_report).       *)
(*                                                                         *)
(* SQLite is the environment: sqlite3_prepare_v2 fails on a statement the  *)
(* schema does not allow; the first sqlite3_step may find the database     *)
(* locked by another connection (SQLITE_BUSY);                             *)
(* sqlite3_finalize returns the error of the statement's last step, or     *)
(* SQLITE_OK.  SQL text is abstracted to the statement it denotes          *)
(* (SqlTable's Stmt).  STD_ERR_OK is 0, as in std_error_codes.h, which the *)
(* repository does not contain.                                            *)
(***************************************************************************)
EXTENDS Integers, Sequences

CONSTANTS
    Keys, Vals, NoVal, NoArg, All,
    ValLen,         \* the length of each val, for sqlite3_column_bytes
    Inserts,        \* records the caller inserts
    WhereConds,     \* WHERE clauses the caller passes
    RawStmts,       \* statements the caller passes to db_sql_raw_sql_execute
    MaxRows,        \* bound on the rows the caller keeps in the table
    MaxLeaked       \* bound on statements left unfinalized

SQLITE_OK == 0
SQLITE_ERROR == 1
SQLITE_BUSY == 5
SQLITE_CANTOPEN == 14
SQLITE_ROW == 100
SQLITE_DONE == 101

STD_ERR_OK == 0

\* db_error_code_t
DB_ERR_UNSUPP_OP_TYPE == 4

DB_SQL_MAX_RECORDS == 4

VARIABLES
    conn,       \* the handle: "none", "open", "unopened" (open failed), "closed", "crashed"
    db,         \* the database file (SqlTable's record)
    stmts,      \* prepared statements not finalized
    rc,         \* what the last call returned
    last,       \* the last call: [op, stmt]
    out,        \* what the last call wrote to output_str (NoVal: nothing)
    output_len  \* what the last call wrote to *output_len (0: nothing)

vars == <<conn, db, stmts, rc, last, out, output_len>>

Table == INSTANCE SqlTable WITH call <- last, ok <- (rc = STD_ERR_OK)

Stmt(k, r, v, c) == Table!Stmt(k, r, v, c)
NoStmt == Table!NoStmt
Matching(rows, c) == Table!Matching(rows, c)

Init ==
    /\ conn = "none"
    /\ db = Table!EmptyDb
    /\ stmts = 0
    /\ rc = STD_ERR_OK
    /\ last = [op |-> "none", stmt |-> NoStmt]
    /\ out = NoVal
    /\ output_len = 0

----------------------------------------------------------------------------
(* Helpers                                                                 *)

\* The statement the snprintf of each case builds; every opcode of
\* db_sql_opcode_t has a case, so rc stays STD_ERR_OK.  SELECT reads the
\* val column; DELETE with a NULL condition has no WHERE clause.
db_sql_construct_sql_cmd(op, param, cond) ==
    CASE op = "INSERT" -> Stmt("INSERT", param, NoArg, NoArg)
      [] op = "UPDATE" -> Stmt("UPDATE", NoArg, param, cond)
      [] op \in {"DELETE", "SELECT"} -> Stmt(op, NoArg, NoArg, cond)
      [] OTHER -> Stmt(op, NoArg, NoArg, NoArg)

db_sql_error_report(r, value) == IF r # value THEN r ELSE STD_ERR_OK

\* sqlite3_prepare_v2 resolves the table (and the trigger) in the schema.
Prepares(s) ==
    /\ conn = "open"
    /\ CASE s.kind = "CREATE"  -> ~db.exists
         [] s.kind = "TRIGGER" -> db.exists /\ ~db.trigger
         [] OTHER              -> db.exists

\* What the first sqlite3_step may return.
FirstStep(s) ==
    {SQLITE_BUSY} \cup
    IF s.kind = "SELECT" /\ Matching(db.rows, s.cond) # <<>>
    THEN {SQLITE_ROW} ELSE {SQLITE_DONE}

\* The caller's bound on the table.
Room(s) == s.kind = "INSERT" => Len(db.rows) < MaxRows

\* sqlite3_finalize after a last step that returned step.
db_sql_finalize(step) == IF step \in {SQLITE_ROW, SQLITE_DONE} THEN SQLITE_OK ELSE step

\* Mutant: the result of sqlite3_step returned, SQLITE_DONE on success.
db_sql_execute_sql_command_step_rc(s, opcode) ==
    IF ~Prepares(s) THEN {[rc |-> SQLITE_ERROR, db |-> db, leaked |-> FALSE]}
    ELSE IF opcode \notin {"CREATE", "DROP", "INSERT", "DELETE", "TRIGGER", "UPDATE"}
    THEN {[rc |-> DB_ERR_UNSUPP_OP_TYPE, db |-> db, leaked |-> TRUE]}
    ELSE {[rc |-> st, db |-> IF st = SQLITE_DONE THEN Table!Effect(s, db) ELSE db,
           leaked |-> FALSE] : st \in FirstStep(s)}

\* Mutant: a step error returned before sqlite3_finalize, like the
\* unsupported opcode's early return.
db_sql_execute_sql_command_no_finalize(s, opcode) ==
    IF ~Prepares(s) THEN {[rc |-> SQLITE_ERROR, db |-> db, leaked |-> FALSE]}
    ELSE IF opcode \notin {"CREATE", "DROP", "INSERT", "DELETE", "TRIGGER", "UPDATE"}
    THEN {[rc |-> DB_ERR_UNSUPP_OP_TYPE, db |-> db, leaked |-> TRUE]}
    ELSE {[rc |-> db_sql_finalize(st), db |-> IF st = SQLITE_DONE THEN Table!Effect(s, db) ELSE db,
           leaked |-> st # SQLITE_DONE] : st \in FirstStep(s)}

\* The outcomes of db_sql_execute_sql_command: prepare, step once for the
\* opcodes it supports, finalize.  For any other opcode it returns
\* DB_ERR_UNSUPP_OP_TYPE before sqlite3_finalize: the statement leaks.
db_sql_execute_sql_command(s, opcode) ==
    IF ~Prepares(s) THEN {[rc |-> SQLITE_ERROR, db |-> db, leaked |-> FALSE]}
    ELSE IF opcode \notin {"CREATE", "DROP", "INSERT", "DELETE", "TRIGGER", "UPDATE"}
    THEN {[rc |-> DB_ERR_UNSUPP_OP_TYPE, db |-> db, leaked |-> TRUE]}
    ELSE {[rc |-> db_sql_finalize(st), db |-> IF st = SQLITE_DONE THEN Table!Effect(s, db) ELSE db,
           leaked |-> FALSE] : st \in FirstStep(s)}

\* The outcomes of a loop of sqlite3_step while it returns SQLITE_ROW: the
\* rows it went through before the step that returned SQLITE_DONE, or
\* SQLITE_BUSY after any number of them.
StepLoop(s) ==
    LET m == IF s.kind = "SELECT" THEN Matching(db.rows, s.cond) ELSE <<>> IN
    {[st |-> SQLITE_BUSY, rows |-> SubSeq(m, 1, k)] : k \in 0..Len(m)}
    \cup {[st |-> SQLITE_DONE, rows |-> m]}

\* The outcomes of db_sql_execute_select_cmd: the rows the step loop
\* copies (one per db_output slot), and finalize's result.
db_sql_execute_select_cmd(s) ==
    IF ~Prepares(s) THEN {[rc |-> SQLITE_ERROR, rows |-> <<>>]}
    ELSE {[rc |-> db_sql_finalize(o.st), rows |-> o.rows] : o \in StepLoop(s)}

Returned(op, s, r) ==
    /\ last' = [op |-> op, stmt |-> s]
    /\ rc' = r

\* A call that writes neither output parameter.
NoOutput == out' = NoVal /\ output_len' = 0

\* A wrapper that runs s through db_sql_execute_sql_command and passes
\* the result through db_sql_error_report (set_attribute's own if/else
\* returns the same).
Execute(op, s, opcode) ==
    /\ conn \in {"open", "unopened"}
    /\ Room(s)
    /\ \E o \in db_sql_execute_sql_command(s, opcode) :
          /\ db' = o.db
          /\ stmts' = IF o.leaked THEN stmts + 1 ELSE stmts
          /\ Returned(op, s, db_sql_error_report(o.rc, SQLITE_OK))
    /\ NoOutput
    /\ UNCHANGED conn

----------------------------------------------------------------------------
(* The public functions                                                    *)

\* sqlite3_open returns a handle even when it fails; the PRAGMA's result
\* is ignored.
db_sql_open ==
    /\ conn \in {"none", "closed"}
    /\ \E r \in {SQLITE_OK, SQLITE_CANTOPEN} :
          /\ conn' = IF r = SQLITE_OK THEN "open" ELSE "unopened"
          /\ Returned("open", NoStmt, db_sql_error_report(r, SQLITE_OK))
    /\ NoOutput
    /\ UNCHANGED <<db, stmts>>

\* sqlite3_close refuses while a statement is unfinalized.  The
\* sqlite3_errmsg after it reads the freed handle for the log line only.
db_sql_close ==
    /\ conn \in {"open", "unopened"}
    /\ LET r == IF stmts > 0 THEN SQLITE_BUSY ELSE SQLITE_OK IN
       /\ conn' = IF r = SQLITE_OK THEN "closed" ELSE conn
       /\ Returned("close", NoStmt, db_sql_error_report(r, SQLITE_OK))
    /\ NoOutput
    /\ UNCHANGED <<db, stmts>>

db_sql_create_table ==
    Execute("create_table", db_sql_construct_sql_cmd("CREATE", NoArg, NoArg), "CREATE")

db_sql_drop_table ==
    Execute("drop_table", db_sql_construct_sql_cmd("DROP", NoArg, NoArg), "DROP")

db_sql_insert(r) ==
    Execute("insert", db_sql_construct_sql_cmd("INSERT", r, NoArg), "INSERT")

db_sql_delete(c) ==
    Execute("delete", db_sql_construct_sql_cmd("DELETE", NoArg, c), "DELETE")

db_sql_delete_all_records ==
    Execute("delete_all_records", db_sql_construct_sql_cmd("DELETE", NoArg, All), "DELETE")

\* The caller's own CREATE TRIGGER statement.
db_sql_create_trigger ==
    Execute("create_trigger", Stmt("TRIGGER", NoArg, NoArg, NoArg), "TRIGGER")

db_sql_set_attribute(v, c) ==
    Execute("set_attribute", db_sql_construct_sql_cmd("UPDATE", v, c), "UPDATE")

\* A caller running a query through db_sql_execute_sql_command, which
\* returns its result unreported.
ExecuteSqlCommand(s, opcode) ==
    /\ conn \in {"open", "unopened"}
    /\ stmts < MaxLeaked
    /\ \E o \in db_sql_execute_sql_command(s, opcode) :
          /\ db' = o.db
          /\ stmts' = IF o.leaked THEN stmts + 1 ELSE stmts
          /\ Returned("execute_sql_command", s, o.rc)
    /\ NoOutput
    /\ UNCHANGED conn

\* The step loop writes db_output[count] for every row; the fifth row's
\* slot is past the DB_SQL_MAX_RECORDS pointers of get_attribute's array,
\* and safestrncpy writes through whatever lies there: the process may die
\* or go on.  Without an error, output_str is the first row's column, or
\* the empty string when no row matched.
db_sql_get_attribute(c) ==
    LET s == db_sql_construct_sql_cmd("SELECT", NoArg, c) IN
    /\ conn \in {"open", "unopened"}
    /\ \E o \in db_sql_execute_select_cmd(s) :
          \/ /\ Len(o.rows) > DB_SQL_MAX_RECORDS
             /\ conn' = "crashed"
             /\ UNCHANGED <<db, stmts, rc, last, out, output_len>>
          \/ /\ Returned("get_attribute", s, o.rc)
             /\ out' = IF o.rc = SQLITE_OK /\ o.rows # <<>> THEN o.rows[1].val ELSE NoVal
             /\ output_len' = 0
             /\ UNCHANGED <<conn, db, stmts>>

\* Any statement: -1 when it does not compile.  Without a buffer, one step
\* and finalize.  With one, the step loop memcpys column 0 of every row to
\* the buffer and sets *output_len to the length of the last one (and
\* leaves it alone when there is no row).
db_sql_raw_sql_execute(s, buffered) ==
    /\ conn \in {"open", "unopened"}
    /\ Room(s)
    /\ IF ~Prepares(s)
       THEN /\ Returned("raw_sql_execute", s, -1)
            /\ output_len' = 0
            /\ UNCHANGED db
       ELSE IF ~buffered
       THEN \E st \in FirstStep(s) :
              /\ db' = IF st = SQLITE_DONE THEN Table!Effect(s, db) ELSE db
              /\ output_len' = 0
              /\ Returned("raw_sql_execute", s, db_sql_finalize(st))
       ELSE \E o \in StepLoop(s) :
              /\ db' = IF o.st = SQLITE_DONE THEN Table!Effect(s, db) ELSE db
              /\ output_len' = IF o.rows # <<>> THEN ValLen[o.rows[Len(o.rows)].val] ELSE 0
              /\ Returned("raw_sql_execute", s, db_sql_finalize(o.st))
    /\ out' = NoVal
    /\ UNCHANGED <<conn, stmts>>

\* The process starts again after dying; the file keeps what SQLite
\* committed.
Restart ==
    /\ conn = "crashed"
    /\ conn' = "none"
    /\ stmts' = 0
    /\ UNCHANGED <<db, rc, last, out, output_len>>

Next ==
    \/ db_sql_open \/ db_sql_close \/ Restart
    \/ db_sql_create_table \/ db_sql_drop_table \/ db_sql_delete_all_records
    \/ db_sql_create_trigger
    \/ \E r \in Inserts : db_sql_insert(r)
    \/ \E c \in WhereConds : db_sql_delete(c) \/ db_sql_get_attribute(c)
    \/ \E v \in Vals, c \in WhereConds : db_sql_set_attribute(v, c)
    \/ \E c \in WhereConds : ExecuteSqlCommand(Stmt("SELECT", NoArg, NoArg, c), "SELECT")
    \/ \E s \in RawStmts, b \in BOOLEAN : db_sql_raw_sql_execute(s, b)

Spec == Init /\ [][Next]_vars

----------------------------------------------------------------------------

TypeOK ==
    /\ conn \in {"none", "open", "unopened", "closed", "crashed"}
    /\ stmts \in 0..MaxLeaked
    /\ last.op \in Table!Ops
    /\ out \in Vals \cup {NoVal}
    /\ \A i \in DOMAIN db.rows : db.rows[i] \in Table!Row

\* Every call returns STD_ERR_OK exactly when its statement ran to its
\* end: a call that reports success has had the whole effect of its
\* statement, and one that reports an error (a statement that does not
\* compile, a busy database, an unsupported opcode) has had
\* none; a successful db_sql_get_attribute returns a matching row's value.
\* This rests on db_sql_execute_sql_command returning what
\* sqlite3_finalize says of the last step, and on db_sql_error_report
\* mapping SQLITE_OK to STD_ERR_OK.
SqlTableRefinement == Table!Spec

================================================================================
