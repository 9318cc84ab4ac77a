------------------------------ MODULE Storage ------------------------------
(***************************************************************************)
(* Opening the SQLite store and the integrity codes of its event rows      *)
(* (pkg/storage/sqlite.go).  Several daemons, or lives of the library, may *)
(* open one database file, at once or one after the other; each statement  *)
(* is atomic and may fail (SQLITE_BUSY), and nothing else is.              *)
(*                                                                         *)
(* A key is a number; a row is the store that saved it and the key it was  *)
(* signed with, NoKey for the rows an older version left.                  *)
(***************************************************************************)
EXTENDS Naturals

CONSTANTS
    Store,    \* the openers
    MaxRows   \* bound: how many rows are saved

NoKey == 0
Old   == "an older version"

VARIABLES
    tables,   \* which tables there are
    column,   \* the table events has the column hmac
    keyRow,   \* the row of hmac_key
    nextKey,  \* keys are made from the clock: each is new
    rows,     \* the rows of events
    open,     \* where each opener is
    hmacKey   \* s.hmacKey

dbVars == <<tables, column, keyRow, rows>>
vars == <<dbVars, nextKey, open, hmacKey>>

\* A new file, one of an older version with a row in it, or one of this version.
Init ==
    /\ \/ tables = {} /\ column = FALSE /\ rows = {} /\ keyRow = NoKey /\ nextKey = 1
       \/ /\ tables = {"jobs", "events"} /\ column = FALSE
          /\ rows = {[id |-> 1, by |-> Old, mac |-> NoKey]} /\ keyRow = NoKey /\ nextKey = 1
       \/ /\ tables = {"jobs", "events", "hmac_key"} /\ column = TRUE
          /\ rows = {} /\ keyRow = 1 /\ nextKey = 2
    /\ open = [s \in Store |-> "closed"] /\ hmacKey = [s \in Store |-> NoKey]

Goto(s, label) == open' = [open EXCEPT ![s] = label]

\* NewStore closes the database again and returns the error.
Fail(s) == Goto(s, "failed") /\ UNCHANGED <<dbVars, nextKey, hmacKey>>

NewStore(s) ==
    /\ open[s] = "closed" /\ Goto(s, "jobs")
    /\ UNCHANGED <<dbVars, nextKey, hmacKey>>

\* CREATE TABLE IF NOT EXISTS, one statement after the other; events is created
\* with its column.  (Two more tables, which nothing here reads, are left out.)
CreateTable(s) ==
    \/ \E t \in {"jobs", "events", "hmac_key"} :
        /\ open[s] = t
        /\ tables' = tables \cup {t}
        /\ column' = (column \/ (t = "events" /\ t \notin tables))
        /\ Goto(s, CASE t = "jobs" -> "events" [] t = "events" -> "hmac_key" [] OTHER -> "alter")
        /\ UNCHANGED <<keyRow, nextKey, rows, hmacKey>>
    \/ open[s] \in {"jobs", "events", "hmac_key"} /\ Fail(s)

\* ALTER TABLE: whatever its error, it is taken for "the column exists".
AddColumn(s) ==
    /\ open[s] = "alter"
    /\ column' \in {column, TRUE}
    /\ Goto(s, "select")
    /\ UNCHANGED <<tables, keyRow, nextKey, rows, hmacKey>>

\* loadOrCreateHMACKey: any error of the SELECT is taken for "no key yet".
SelectKey(s) ==
    /\ open[s] = "select"
    /\ \/ /\ keyRow # NoKey
          /\ hmacKey' = [hmacKey EXCEPT ![s] = keyRow] /\ Goto(s, "open")
       \/ Goto(s, "insert") /\ UNCHANGED hmacKey
    /\ UNCHANGED <<dbVars, nextKey>>

\* Mutant: INSERT OR REPLACE.
ReplaceKey(s) ==
    /\ open[s] = "insert"
    /\ keyRow' = nextKey /\ nextKey' = nextKey + 1
    /\ hmacKey' = [hmacKey EXCEPT ![s] = nextKey] /\ Goto(s, "open")
    /\ UNCHANGED <<tables, column, rows>>

\* INSERT with id 1, the primary key: an error when there is a row by now.
InsertKey(s) ==
    /\ open[s] = "insert"
    /\ \/ /\ keyRow = NoKey
          /\ keyRow' = nextKey /\ nextKey' = nextKey + 1
          /\ hmacKey' = [hmacKey EXCEPT ![s] = nextKey] /\ Goto(s, "open")
          /\ UNCHANGED <<tables, column, rows>>
       \/ Fail(s)

\* SaveEvent: without the column every insert is an error.
SaveEvent(s) ==
    /\ open[s] = "open" /\ column
    /\ \E id \in 1..MaxRows :
        /\ \A r \in rows : r.id < id
        /\ id = 1 \/ \E r \in rows : r.id = id - 1
        /\ rows' = rows \cup {[id |-> id, by |-> s, mac |-> hmacKey[s]]}
    /\ UNCHANGED <<tables, column, keyRow, nextKey, open, hmacKey>>

Close(s) ==
    /\ open[s] = "open" /\ Goto(s, "over")
    /\ UNCHANGED <<dbVars, nextKey, hmacKey>>

Next == \E s \in Store : \/ NewStore(s) \/ CreateTable(s) \/ AddColumn(s) \/ SelectKey(s)
                         \/ InsertKey(s) \/ SaveEvent(s) \/ Close(s)

Spec == Init /\ [][Next]_vars

\* VerifyEventIntegrity: the rows it returns as tampered with.
VerifyEventIntegrity(s) == {r \in rows : r.mac = NoKey \/ r.mac # hmacKey[s]}

-----------------------------------------------------------------------------
(* Properties.                                                             *)

\* Every store that is open, whoever made the key and whatever failed on the
\* way, takes every row any store ever saved for intact; only the rows of a
\* version without the column are reported (loadOrCreateHMACKey).
SavedVerifies ==
    \A s \in Store : open[s] = "open" =>
        \A r \in rows : r \in VerifyEventIntegrity(s) <=> r.by = Old
=============================================================================
