------------------------------ MODULE MC_DbSqlOps ------------------------------
(***************************************************************************)
(* One table of at most five rows, one more than the DB_SQL_MAX_RECORDS    *)
(* slots of db_sql_get_attribute; two keys and two values of different     *)
(* lengths, so that the first and the last row a WHERE clause matches can  *)
(* differ.                                                                 *)
(***************************************************************************)
EXTENDS DbSqlOps, TLC

CONSTANTS v1, v2

MC_Keys == {1, 2}

MC_Vals == {v1, v2}

MC_ValLen == (v1 :> 2) @@ (v2 :> 5)

MC_Inserts == {[key |-> 1, val |-> v1], [key |-> 2, val |-> v2]}

\* WHERE key = 1
MC_WhereConds == {[col |-> "key", eq |-> 1]}

\* a query, and a CREATE TABLE that fails to compile once the table exists
MC_RawStmts == {Stmt("SELECT", NoArg, NoArg, [col |-> "key", eq |-> 1]),
                Stmt("CREATE", NoArg, NoArg, NoArg)}
================================================================================
