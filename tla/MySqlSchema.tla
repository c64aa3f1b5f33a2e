---------------------------- MODULE MySqlSchema ----------------------------
(***************************************************************************)
(* MySqlManager::Init: what the server does to the schema of its database  *)
(* each time it starts.  A step is one statement sent to the database; the *)
(* process can be killed and started again between any two, and every      *)
(* statement can fail because the database cannot be reached.              *)
(*                                                                         *)
(* A table is the sequence of its columns as DESC lists them; "odd" holds  *)
(* the columns whose type DESC prints is not part of the declared one.     *)
(* That is always so for u_sex, declared "bit" and printed "bit(1)".       *)
(*                                                                         *)
(* Names that UserStore, the other user of this database, has too begin    *)
(* with Schema here, so that a module can extend both.                     *)
(*                                                                         *)
(* A definition introduced by "Slip:" is a plausible mistake in the code   *)
(* that follows it; no specification uses it.                              *)
(***************************************************************************)
EXTENDS Naturals, Sequences, SequencesExt

CONSTANTS
  InitialDatabase,   \* does the database exist at first?
  Foreign,           \* a column the program does not know
  InitialForeign,    \* may a table have such a column at first?
  MaxStarts          \* bound: starts of the program

ASSUME InitialAssumption == InitialDatabase \in BOOLEAN /\ InitialForeign \in BOOLEAN
ASSUME StartsAssumption == MaxStarts \in Nat \ {0}

\* The constructor: columns in the order of std::map.  The insertion of
\* tab_textData is commented out and mapField is not cleared, so its columns
\* become columns of tab_assetsCollect.
m_mapTable == [
  tab_assetsCollect |-> <<"c_assetsTitle", "c_assetsType", "c_id", "c_uID", "t_courses",
                          "t_id", "t_title", "t_uID", "t_upName">>,
  tab_audioData     |-> <<"a_audioTitle", "a_courses", "a_filePath", "a_headImgPath",
                          "a_id", "a_uID", "a_upName">>,
  tab_browseRecords |-> <<"b_assetsType", "b_browseTime", "b_browseTitle", "b_id", "b_uID">>,
  tab_user          |-> <<"u_headImage", "u_id", "u_password", "u_sex", "u_userName">>,
  tab_videoData     |-> <<"v_courses", "v_filePath", "v_headImgPath", "v_id", "v_synopsis",
                          "v_uID", "v_upName", "v_videoTitle">>]

Tables == DOMAIN m_mapTable

\* Its iteration order.
TableOrder ==
  <<"tab_assetsCollect", "tab_audioData", "tab_browseRecords", "tab_user", "tab_videoData">>

\* Slip: every table in the order of the map, tab_user where it comes.
CheckOrderByName == TableOrder

\* The order of the checks in Init: tab_user first, the others refer to it.
CheckOrder == <<"tab_user">> \o TableOrder

VARIABLES
  database,   \* does the database exist?
  schema,     \* existing tables -> their columns
  odd,        \* columns that look different
  pc,         \* "connect", "database", "desc", "add", "modify", "create",
              \* "createAgain", "ok", "failed" or "hung"
  todo,       \* tables still to be checked
  mapChange,  \* columns to be modified
  faulted,    \* history: a statement failed for lack of a connection
  starts      \* history: how many times the program was started

schemaVars == <<database, schema, odd, pc, todo, mapChange, faulted, starts>>

\* Any tables made by an earlier start; one of them may have lost a column, or,
\* with InitialForeign, gained one.
SchemaInit ==
  /\ database = InitialDatabase
  /\ \E made \in SUBSET Tables :
       /\ "tab_user" \notin made => made = {}
       /\ ~InitialDatabase => made = {}
       /\ LET asMade == [t \in made |-> m_mapTable[t]] IN
          \/ schema = asMade
          \/ \E t \in made : \E i \in DOMAIN m_mapTable[t] :
               schema = [asMade EXCEPT ![t] = RemoveAt(@, i)]
          \/ \E t \in made : InitialForeign /\ schema = [asMade EXCEPT ![t] = Append(@, Foreign)]
  /\ odd \in SUBSET ({"u_sex", "v_videoTitle", "a_id"} \cap UNION {Range(schema[t]) : t \in DOMAIN schema})
  /\ "tab_user" \in DOMAIN schema /\ "u_sex" \in Range(schema["tab_user"]) => "u_sex" \in odd
  /\ pc = "connect"
  /\ todo = CheckOrder
  /\ mapChange = {}
  /\ faulted = FALSE
  /\ starts = 1

-----------------------------------------------------------------------------

Table == Head(todo)

\* The check of a table is over and Init goes on.
NextTable ==
  /\ todo' = Tail(todo)
  /\ pc' = IF Tail(todo) = << >> THEN "ok" ELSE "desc"

\* A statement fails because the server cannot be reached; Init goes on at p.
Fault(p) ==
  /\ faulted' = TRUE
  /\ pc' = p
  /\ UNCHANGED <<database, schema, odd, todo, mapChange, starts>>

\* MySQLTool::connect names the database: without one it fails.
Connect ==
  /\ pc = "connect"
  /\ \/ /\ pc' = IF database THEN "database" ELSE "failed"
        /\ UNCHANGED <<database, schema, odd, todo, mapChange, faulted, starts>>
     \/ Fault("failed")

\* CheckDatabase finds the database it is connected to.  When its query fails
\* CreateDatabase runs, and reports failure whatever happens.
CheckDatabase ==
  /\ pc = "database"
  /\ \/ /\ pc' = "desc"
        /\ UNCHANGED <<database, schema, odd, todo, mapChange, faulted, starts>>
     \/ Fault("failed")

\* Where the loop over the rows of DESC ends: at a column nobody declared, at
\* one that looks different, or after the last.
Stop(t) ==
  LET ends == {i \in DOMAIN schema[t] :
                 schema[t][i] \notin Range(m_mapTable[t]) \/ schema[t][i] \in odd}
  IN  IF ends = {} THEN Len(schema[t]) ELSE CHOOSE i \in ends : \A j \in ends : i <= j

\* Slip: a column that looks different is skipped like an unknown one.
ScanStuckOnOdd(t) ==
  LET seen == Range(SubSeq(schema[t], 1, Stop(t)))
      rest == Range(m_mapTable[t]) \ seen
  IN  [hung |-> seen \cap odd # {} \/ ~(seen \subseteq Range(m_mapTable[t])),
       rest |-> rest, change |-> {}]

\* The loop itself: declared columns it did not see, and the one to modify.  At
\* an unknown column "continue" repeats the same row for ever.
Scan(t) ==
  LET seen == Range(SubSeq(schema[t], 1, Stop(t)))
  IN  [hung |-> ~(seen \subseteq Range(m_mapTable[t])),
       rest |-> Range(m_mapTable[t]) \ seen,
       change |-> seen \cap odd]

\* CheckTable up to EndQuery; without an answer it creates the table.
Desc ==
  /\ pc = "desc"
  /\ \/ /\ Table \notin DOMAIN schema
        /\ pc' = "create"
        /\ UNCHANGED <<todo, mapChange>>
     \/ /\ Table \in DOMAIN schema
        /\ LET found == Scan(Table)
           IN  IF found.hung
               THEN pc' = "hung" /\ UNCHANGED <<todo, mapChange>>
               ELSE IF found.rest # {}
               THEN pc' = "add" /\ mapChange' = found.change /\ UNCHANGED todo
               ELSE IF found.change # {}
               THEN pc' = "modify" /\ mapChange' = found.change /\ UNCHANGED todo
               ELSE NextTable /\ UNCHANGED mapChange
  /\ UNCHANGED <<database, schema, odd, faulted, starts>>

DescFails == pc = "desc" /\ Fault("create")

\* "alter table ... add colum": the statement is not SQL, CheckTable returns
\* false and Init turns to CreateTable.
AddColumn ==
  /\ pc = "add"
  /\ pc' = "createAgain"
  /\ mapChange' = {}
  /\ UNCHANGED <<database, schema, odd, todo, faulted, starts>>

\* "alter table ... modify column".  A bit column looks as before.
ModifyColumn ==
  /\ pc = "modify"
  /\ mapChange' = {}
  /\ \/ /\ odd' = odd \ (mapChange \ {"u_sex"})
        /\ NextTable
        /\ UNCHANGED faulted
     \/ /\ faulted' = TRUE
        /\ pc' = "createAgain"
        /\ UNCHANGED <<odd, todo>>
  /\ UNCHANGED <<database, schema, starts>>

\* The foreign keys of the other tables refer to tab_user(u_id); a table that exists
\* is not made again, whatever its keys.
Creatable(t) ==
  \/ t \in DOMAIN schema
  \/ t = "tab_user"
  \/ "tab_user" \in DOMAIN schema /\ "u_id" \in Range(schema["tab_user"])

\* "create table if not exists", called by CheckTable and, if CheckTable returns
\* false, by Init.
CreateTable ==
  /\ pc \in {"create", "createAgain"}
  /\ IF Creatable(Table)
     THEN /\ schema' = [t \in DOMAIN schema \cup {Table} |->
                          IF t \in DOMAIN schema THEN schema[t] ELSE m_mapTable[t]]
          /\ odd' = IF Table = "tab_user" /\ Table \notin DOMAIN schema
                    THEN odd \cup {"u_sex"} ELSE odd
          /\ NextTable
     ELSE /\ pc' = IF pc = "create" THEN "createAgain" ELSE "failed"
          /\ UNCHANGED <<schema, odd, todo>>
  /\ UNCHANGED <<database, mapChange, faulted, starts>>

CreateTableFails ==
  \/ pc = "create" /\ Fault("createAgain")
  \/ pc = "createAgain" /\ Fault("failed")

\* The process is killed, or ends, and is started again.
SchemaRestart ==
  /\ pc # "connect"
  /\ pc' = "connect"
  /\ todo' = CheckOrder
  /\ mapChange' = {}
  /\ faulted' = FALSE
  /\ starts < MaxStarts
  /\ starts' = starts + 1
  /\ UNCHANGED <<database, schema, odd>>

Step ==
  \/ Connect
  \/ CheckDatabase
  \/ Desc
  \/ DescFails
  \/ AddColumn
  \/ ModifyColumn
  \/ CreateTable
  \/ CreateTableFails

SchemaNext == Step \/ SchemaRestart

SchemaSpec == SchemaInit /\ [][SchemaNext]_schemaVars

\* A start that nobody interrupts goes on.
SchemaFairSpec == SchemaSpec /\ WF_schemaVars(Step)

-----------------------------------------------------------------------------
(* Properties *)

\* The type invariant.
SchemaTypeOK ==
  /\ database \in BOOLEAN
  /\ DOMAIN schema \subseteq Tables
  /\ \A t \in DOMAIN schema : schema[t] \in Seq(Range(m_mapTable[t]) \cup {Foreign})
  /\ pc \in {"connect", "database", "desc", "add", "modify", "create", "createAgain",
             "ok", "failed", "hung"}
  /\ \E n \in 0 .. Len(CheckOrder) : todo = SubSeq(CheckOrder, n + 1, Len(CheckOrder))
  /\ faulted \in BOOLEAN
  /\ starts \in 1 .. MaxStarts

\* The user table, if there is one, has the column the foreign keys refer to.
Referable == "tab_user" \in DOMAIN schema => "u_id" \in Range(schema["tab_user"])

\* Init succeeds whenever the database can be reached throughout, whichever
\* tables an earlier, interrupted start left behind; but not on a tab_user without
\* u_id, which the refused "add colum" never gives back.
InitSucceeds == pc = "failed" => faulted \/ ~database \/ ~Referable

\* When Init succeeds every table of m_mapTable exists, even if statements
\* failed on the way.
OkMeansTables == pc = "ok" => DOMAIN schema = Tables

\* The outcome of a start is right: it fails only for a reason, and success means
\* a complete set of tables.
StartsSound == SchemaTypeOK /\ InitSucceeds /\ OkMeansTables

\* The last start comes to an end, whatever the ones before it left, unless a
\* table has a column the program does not know.
InitEnds ==
  <>[](\/ pc \in {"ok", "failed"}
       \/ \E t \in DOMAIN schema : Foreign \in Range(schema[t]))

\* Missing columns are completed by a start that is connected throughout.
MissingColumnsAdded ==
  pc = "ok" /\ ~faulted => \A t \in Tables : Range(m_mapTable[t]) \subseteq Range(schema[t])
=============================================================================
