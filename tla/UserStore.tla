----------------------------- MODULE UserStore -----------------------------
(***************************************************************************)
(* The users and resources of the IM server: UserManager keeps a copy of   *)
(* every database row in memory, the handlers of ClientSession add to both *)
(* through MySqlManager and MySQLTool.  Everything runs in the loop        *)
(* thread, so a handler is one step; the database server, the connection   *)
(* to it and the process itself fail on their own.                         *)
(*                                                                         *)
(* A row's id is a letter and the time in seconds (getTableID: its random  *)
(* digits are seeded with that second), so rows of one table made in the   *)
(* same second have the same id and the primary key refuses the second.    *)
(* The digits of the time are not padded: Stamp gives the place of a       *)
(* second's id in the order of ids and need be neither monotone nor        *)
(* injective.                                                              *)
(*                                                                         *)
(* The three resource tables differ in their columns only and are one      *)
(* variable, with the kind in the row; a client is taken to name in        *)
(* fileType the kind it uploads.  The order of the lists sent to clients   *)
(* is left out, the order of users is not: it decides which of two users   *)
(* of one name is found.                                                   *)
(*                                                                         *)
(* A definition introduced by "Slip:" is a plausible mistake in the code   *)
(* that follows it; no specification uses it.                              *)
(***************************************************************************)
EXTENDS Integers, Sequences, SequencesExt

CONSTANTS
  Names, Passwords, Titles,
  Kinds,        \* "video", "audio", "text"
  MaxTime,      \* bound: seconds the clock runs
  Stamp,        \* second -> place of its ids in their order
  SeedUser,     \* a user someone has put into the database, and resources of
  SeedTitle,    \* some kinds: on empty tables the process does not come up
  Mixes,        \* bound: sets of requests clients make in one behaviour
  MaxCollect,   \* bound: entries of m_cacheCollect
  Nobody        \* no such user

ASSUME StampAssumption == MaxTime \in Nat \ {0} /\ Stamp \in [0 .. MaxTime -> Nat]
ASSUME MixesAssumption ==
  Mixes \subseteq SUBSET {"register", "upload", "history", "collect"}
ASSUME SeedAssumption == SeedUser \in Names /\ Passwords # {}

User == [id : Nat, name : Names, password : Passwords, sex : BOOLEAN]
Asset == [id : Nat, kind : Kinds, title : Titles \cup {SeedTitle}, upName : Names, uID : Nat]
Mark == [id : Nat, uID : Nat, kind : Kinds, title : Titles]

ASSUME NobodyAssumption == Nobody \notin User

VARIABLES
  requests,         \* which requests clients make
  tab_user, tab_assets, tab_browse, tab_collect,   \* the database
  m_cachedUsers,    \* list<User>
  m_cacheAssets,    \* m_cacheVideoInfo, m_cacheAudioInfo and m_cacheWordInfo
  m_cacheBrowse,
  m_cacheCollect,   \* list<collectInfo>
  m_mysql,          \* "up", "stale" (the server hung up) or "null"
  dbUp,             \* does the database server run?
  running,          \* does the process run?
  now,
  acked,            \* history: rows whose request was answered with 1
  lost              \* history: a statement took effect, its answer was lost

tables == <<tab_user, tab_assets, tab_browse, tab_collect>>
caches == <<m_cachedUsers, m_cacheAssets, m_cacheBrowse, m_cacheCollect>>
env == <<requests, dbUp, running, now>>
vars == <<requests, tables, caches, m_mysql, dbUp, running, now, acked, lost>>

\* getTableID, without the letter of the table.
TableID == Stamp[now]

-----------------------------------------------------------------------------
(* Loading: LoadUserFromDB and load...InfoFromDB *)

\* atoi of a string of one character, given by its code.
Atoi(char) == IF char \in 48 .. 57 THEN char - 48 ELSE 0

\* u_sex is a BIT column.  It arrives as the byte 0 or 1, which toBool hands to
\* atoi: no digit, hence 0.
toBool(bit) == Atoi(IF bit THEN 1 ELSE 0) # 0

\* A SELECT without an ORDER BY gives the rows in the order of the key.
InKeyOrder(rows) ==
  CHOOSE s \in SetToSeqs(rows) : \A i, j \in DOMAIN s : i < j => s[i].id < s[j].id

LoadUsers(rows) == InKeyOrder({[u EXCEPT !.sex = toBool(@)] : u \in rows})

LoadCollect(rows) == InKeyOrder(rows)

\* Before the first start.  The tables are as MySqlManager makes them, empty, but for
\* a user and what was uploaded for it by hand.
Init ==
  LET seed == [id |-> 0, name |-> SeedUser, password |-> CHOOSE p \in Passwords : TRUE,
               sex |-> FALSE]
  IN  /\ requests \in Mixes
      /\ tab_user = {seed}
      /\ \E filled \in SUBSET Kinds :
           tab_assets = {[id |-> 0, kind |-> k, title |-> SeedTitle, upName |-> SeedUser,
                          uID |-> 0] : k \in filled}
      /\ tab_browse = {}
      /\ tab_collect = {}
      /\ m_cachedUsers = << >>
      /\ m_cacheAssets = {}
      /\ m_cacheBrowse = {}
      /\ m_cacheCollect = << >>
      /\ m_mysql = "null"
      /\ dbUp = TRUE
      /\ running = FALSE
      /\ now = 1
      /\ acked = {}
      /\ lost = FALSE

-----------------------------------------------------------------------------
(* MySQLTool *)

\* Slip: without a handle a statement is refused, and nobody connects.
ExecuteNoConnect(fits) ==
  IF m_mysql = "null" THEN {[ok |-> FALSE, applied |-> FALSE, link |-> "null"]}
  ELSE IF ~dbUp THEN {[ok |-> FALSE, applied |-> FALSE, link |-> "null"]}
  ELSE {[ok |-> fits, applied |-> fits, link |-> "up"]}
       \cup [ok : {FALSE}, applied : {FALSE, fits}, link : {"stale"}]

\* Execute, for a statement that the constraints of the tables let pass (fits)
\* or not.  Without a handle it connects and then reports failure all the same.
\* A server that hung up is connected to again and the statement repeated; if
\* that fails the handle is gone.  The answer to a statement can be lost.
Execute(fits) ==
  IF m_mysql = "null" THEN {[ok |-> FALSE, applied |-> FALSE, link |-> "up"]}
  ELSE IF ~dbUp THEN {[ok |-> FALSE, applied |-> FALSE, link |-> "null"]}
  ELSE {[ok |-> fits, applied |-> fits, link |-> "up"]}
       \cup [ok : {FALSE}, applied : {FALSE, fits}, link : {"stale"}]

\* Without a handle and without a server the statement goes to a null MYSQL*.
Executable == running /\ ~(m_mysql = "null" /\ ~dbUp)

Executed(r) ==
  /\ m_mysql' = r.link
  /\ lost' = (lost \/ (r.applied /\ ~r.ok))

Fresh(rows) == \A row \in rows : row.id # TableID

-----------------------------------------------------------------------------
(* ClientSession's handlers and what they call of UserManager *)

\* GetUserInfoByUsername: the first of the list.
Matches(n) == {i \in DOMAIN m_cachedUsers : m_cachedUsers[i].name = n}

GetUserInfoByUsername(n) ==
  IF Matches(n) = {} THEN Nobody
  ELSE m_cachedUsers[CHOOSE i \in Matches(n) : \A j \in Matches(n) : i <= j]

\* OnLoginResponse: what responsesState says.
LoginState(n, p) ==
  LET u == GetUserInfoByUsername(n)
  IN  IF u = Nobody THEN 0 ELSE IF u.password = p THEN 1 ELSE -1

\* AddUser: a user the database took, as far as the answer says, is cached.
AddUser(user, r) ==
  /\ Executed(r)
  /\ tab_user' = IF r.applied THEN tab_user \cup {user} ELSE tab_user
  /\ m_cachedUsers' = IF r.ok THEN Append(m_cachedUsers, user) ELSE m_cachedUsers

\* OnRegisterResponse.  Nobody asks whether the name is taken.
Register(n, p, x) ==
  /\ Executable
  /\ "register" \in requests
  /\ LET user == [id |-> TableID, name |-> n, password |-> p, sex |-> x] IN
     \E r \in Execute(Fresh(tab_user)) :
       /\ AddUser(user, r)
       /\ acked' = IF r.ok THEN acked \cup {user} ELSE acked
  /\ UNCHANGED <<tab_assets, tab_browse, tab_collect, m_cacheAssets, m_cacheBrowse,
                 m_cacheCollect, env>>

\* Slip: an upload is answered from the cache, before the database has it.
UploadAcksFirst(n, k, t) ==
  /\ Executable
  /\ "upload" \in requests
  /\ GetUserInfoByUsername(n) # Nobody
  /\ LET info == [id |-> TableID, kind |-> k, title |-> t, upName |-> n,
                  uID |-> GetUserInfoByUsername(n).id]
     IN  \E r \in Execute(Fresh({a \in tab_assets : a.kind = k})) :
           /\ Executed(r)
           /\ tab_assets' = IF r.applied THEN tab_assets \cup {info} ELSE tab_assets
           /\ m_cacheAssets' = IF r.ok THEN m_cacheAssets \cup {info} ELSE m_cacheAssets
           /\ acked' = acked \cup {info}
  /\ UNCHANGED <<tab_user, tab_browse, tab_collect, m_cachedUsers, m_cacheBrowse,
                 m_cacheCollect, env>>

\* addVideoInfoFromDB, addAudioInfoFromDB and addWordInfoFromDB.
AddInfo(info, r) ==
  /\ Executed(r)
  /\ tab_assets' = IF r.applied THEN tab_assets \cup {info} ELSE tab_assets
  /\ m_cacheAssets' = IF r.ok THEN m_cacheAssets \cup {info} ELSE m_cacheAssets

\* OnUploadVideoResponse, OnUploadAudioResponse, OnUploadTextResponse.
\* For an unknown user the row has an empty u_id, which the foreign key refuses.
Upload(n, k, t) ==
  /\ Executable
  /\ "upload" \in requests
  /\ IF GetUserInfoByUsername(n) = Nobody
     THEN \E r \in Execute(FALSE) :
            /\ Executed(r)
            /\ UNCHANGED <<tab_assets, m_cacheAssets, acked>>
     ELSE LET info == [id |-> TableID, kind |-> k, title |-> t, upName |-> n,
                       uID |-> GetUserInfoByUsername(n).id]
          IN  \E r \in Execute(Fresh({a \in tab_assets : a.kind = k})) :
                /\ AddInfo(info, r)
                /\ acked' = IF r.ok THEN acked \cup {info} ELSE acked
  /\ UNCHANGED <<tab_user, tab_browse, tab_collect, m_cachedUsers, m_cacheBrowse,
                 m_cacheCollect, env>>

\* addBrowseInfoFromDB.
AddBrowseInfoFromDB(info, r) ==
  /\ Executed(r)
  /\ tab_browse' = IF r.applied THEN tab_browse \cup {info} ELSE tab_browse
  /\ m_cacheBrowse' = IF r.ok THEN m_cacheBrowse \cup {info} ELSE m_cacheBrowse

\* OnAddHistoryInfoResponse.  An unknown user is answered before the database is asked.
AddHistory(n, k, t) ==
  /\ Executable
  /\ "history" \in requests
  /\ GetUserInfoByUsername(n) # Nobody
  /\ LET info == [id |-> TableID, uID |-> GetUserInfoByUsername(n).id, kind |-> k, title |-> t]
     IN  \E r \in Execute(Fresh(tab_browse)) :
           /\ AddBrowseInfoFromDB(info, r)
           /\ acked' = IF r.ok THEN acked \cup {info} ELSE acked
  /\ UNCHANGED <<tab_user, tab_assets, tab_collect, m_cachedUsers, m_cacheAssets,
                 m_cacheCollect, env>>

\* addCollectInfoFromDB.
AddCollectInfoFromDB(info, r) ==
  /\ Executed(r)
  /\ tab_collect' = IF r.applied THEN tab_collect \cup {info} ELSE tab_collect
  /\ m_cacheCollect' = IF r.ok THEN Append(m_cacheCollect, info) ELSE m_cacheCollect

\* OnAddCollectInfoResponse with collectState > 0.  The table as MySqlManager makes it
\* has columns t_* that must not be NULL and that this insert leaves out: a server in
\* strict mode always refuses it, which is one of the outcomes of Execute.
AddCollect(n, k, t) ==
  /\ Executable
  /\ "collect" \in requests
  /\ Len(m_cacheCollect) < MaxCollect
  /\ GetUserInfoByUsername(n) # Nobody
  /\ LET info == [id |-> TableID, uID |-> GetUserInfoByUsername(n).id, kind |-> k, title |-> t]
     IN  \E r \in Execute(Fresh(tab_collect)) :
           AddCollectInfoFromDB(info, r)
  /\ UNCHANGED <<tab_user, tab_assets, tab_browse, m_cachedUsers, m_cacheAssets,
                 m_cacheBrowse, acked, env>>

\* removeOneCollectInfo compares user, title and type.
SameMark(c, uid, k, t) == c.uID = uid /\ c.kind = k /\ c.title = t

\* Slip: every entry that matches leaves the cache before the statement runs.
RemoveCollectEarly(n, k, t) ==
  /\ Executable
  /\ "collect" \in requests
  /\ GetUserInfoByUsername(n) # Nobody
  /\ LET uid == GetUserInfoByUsername(n).id
         hits == {i \in DOMAIN m_cacheCollect : SameMark(m_cacheCollect[i], uid, k, t)}
     IN  /\ hits # {}
         /\ \E r \in Execute(TRUE) :
              /\ Executed(r)
              /\ tab_collect' = IF r.applied
                                THEN {c \in tab_collect : ~SameMark(c, uid, k, t)}
                                ELSE tab_collect
              /\ m_cacheCollect' = SelectSeq(m_cacheCollect, LAMBDA c : ~SameMark(c, uid, k, t))
  /\ UNCHANGED <<tab_user, tab_assets, tab_browse, m_cachedUsers, m_cacheAssets,
                 m_cacheBrowse, acked, env>>

\* OnAddCollectInfoResponse with collectState <= 0, removeOneCollectInfo: only
\* what is cached is deleted; the database loses every row that matches, the
\* cache the first.
RemoveCollect(n, k, t) ==
  /\ Executable
  /\ "collect" \in requests
  /\ GetUserInfoByUsername(n) # Nobody
  /\ LET uid == GetUserInfoByUsername(n).id
         hits == {i \in DOMAIN m_cacheCollect : SameMark(m_cacheCollect[i], uid, k, t)}
     IN  /\ hits # {}
         /\ \E r \in Execute(TRUE) :
              /\ Executed(r)
              /\ tab_collect' = IF r.applied
                                THEN {c \in tab_collect : ~SameMark(c, uid, k, t)}
                                ELSE tab_collect
              /\ m_cacheCollect' = IF r.ok
                                   THEN RemoveAt(m_cacheCollect,
                                          CHOOSE i \in hits : \A j \in hits : i <= j)
                                   ELSE m_cacheCollect
  /\ UNCHANGED <<tab_user, tab_assets, tab_browse, m_cachedUsers, m_cacheAssets,
                 m_cacheBrowse, acked, env>>

\* GetDynamicInfoFromDB: what a user has uploaded.
GetDynamicInfoFromDB(n) == {a \in m_cacheAssets : a.upName = n}

\* OnGetNotmalInfoResponse lists every cached resource.
OnGetNotmalInfoResponse == m_cacheAssets

\* OnGetDynamicInfoResponse lists a user's own; every login asks for it.
OnGetDynamicInfoResponse(n) == GetDynamicInfoFromDB(n)

\* The cached resources a row of the result names.
Named(m) == {a \in m_cacheAssets : a.kind = m.kind /\ a.title = m.title}

\* GetHistoryInfoFromDB, when the query ended as r says: the visits come from the
\* database, what was visited from the cache.  A failed query lists nothing, and the
\* client is sent the empty history all the same.
GetHistoryInfoFromDB(n, r) ==
  IF GetUserInfoByUsername(n) = Nobody \/ ~r.ok THEN {}
  ELSE UNION {Named(m) : m \in {b \in tab_browse : b.uID = GetUserInfoByUsername(n).id}}

\* The query of GetCollectInfoFromDB or GetHistoryInfoFromDB: MySQLTool::Query
\* treats the handle as Execute does, and no constraint is in its way.  A user nobody
\* knows is answered without a query.
QueryMarks(n) ==
  /\ Executable
  /\ GetUserInfoByUsername(n) # Nobody
  /\ \E r \in Execute(TRUE) : m_mysql' = r.link
  /\ UNCHANGED <<tables, caches, env, acked, lost>>

\* Sent for by their own messages and by every login.
OnGetHistoryInfoResponse(n) == QueryMarks(n)
OnGetCollectInfoResponse(n) == QueryMarks(n)

\* mysql_query(nullptr): SIGSEGV, and signal_exit leaves.
QueryNull ==
  /\ running
  /\ m_mysql = "null"
  /\ ~dbUp
  /\ running' = FALSE
  /\ UNCHANGED <<requests, tables, caches, m_mysql, dbUp, now, acked, lost>>

-----------------------------------------------------------------------------
(* The database server, the process, the clock *)

DbStops ==
  /\ dbUp
  /\ dbUp' = FALSE
  /\ m_mysql' = IF m_mysql = "up" THEN "stale" ELSE m_mysql
  /\ UNCHANGED <<requests, tables, caches, running, now, acked, lost>>

DbStarts ==
  /\ ~dbUp
  /\ dbUp' = TRUE
  /\ UNCHANGED <<requests, tables, caches, m_mysql, running, now, acked, lost>>

\* wait_timeout.
DbHangsUp ==
  /\ m_mysql = "up"
  /\ m_mysql' = "stale"
  /\ UNCHANGED <<tables, caches, env, acked, lost>>

Kill ==
  /\ running
  /\ running' = FALSE
  /\ UNCHANGED <<requests, tables, caches, m_mysql, dbUp, now, acked, lost>>

\* Slip: the resources are not read again.
RestartWithoutAssets ==
  /\ ~running
  /\ dbUp
  /\ running' = TRUE
  /\ m_mysql' = "up"
  /\ m_cachedUsers' = LoadUsers(tab_user)
  /\ m_cacheAssets' = {}
  /\ m_cacheBrowse' = tab_browse
  /\ m_cacheCollect' = LoadCollect(tab_collect)
  /\ lost' = FALSE
  /\ UNCHANGED <<requests, tables, dbUp, now, acked>>

\* loadVideoInfoFromDB and its like read a first row without asking whether there
\* is one: on an empty table Value(-1) of an empty vector, SIGSEGV.
Loadable == \A k \in Kinds : \E a \in tab_assets : a.kind = k

\* main: connect, then UserManager::Init.  A process that cannot load dies at once.
Restart ==
  /\ ~running
  /\ dbUp
  /\ Loadable
  /\ running' = TRUE
  /\ m_mysql' = "up"
  /\ m_cachedUsers' = LoadUsers(tab_user)
  /\ m_cacheAssets' = tab_assets
  /\ m_cacheBrowse' = tab_browse
  /\ m_cacheCollect' = LoadCollect(tab_collect)
  /\ lost' = FALSE
  /\ UNCHANGED <<requests, tables, dbUp, now, acked>>

Tick ==
  /\ now < MaxTime
  /\ now' = now + 1
  /\ UNCHANGED <<requests, tables, caches, m_mysql, dbUp, running, acked, lost>>

Request ==
  \E n \in Names :
    \/ \E p \in Passwords, x \in BOOLEAN : Register(n, p, x)
    \/ \E k \in Kinds, t \in Titles : \/ Upload(n, k, t)
                                      \/ AddHistory(n, k, t)
                                      \/ AddCollect(n, k, t)
                                      \/ RemoveCollect(n, k, t)
    \/ OnGetHistoryInfoResponse(n)
    \/ OnGetCollectInfoResponse(n)

Environment == DbStops \/ DbStarts \/ DbHangsUp \/ Kill \/ Tick

Next == Request \/ QueryNull \/ Restart \/ Environment

Spec == Init /\ [][Next]_vars

\* Clients go on asking.
Asked == QueryNull \/ \E n \in Names : OnGetHistoryInfoResponse(n)

\* Someone starts the database server again, and the process as often as it takes;
\* only a request makes MySQLTool connect again.
FairSpec ==
  /\ Spec
  /\ WF_vars(DbStarts)
  /\ SF_vars(Restart)
  /\ WF_vars(Asked)

-----------------------------------------------------------------------------
(* Properties *)

\* The type invariant.
TypeOK ==
  /\ requests \in Mixes
  /\ tab_user \subseteq User
  /\ tab_assets \subseteq Asset
  /\ tab_browse \subseteq Mark
  /\ tab_collect \subseteq Mark
  /\ m_cachedUsers \in Seq(User)
  /\ m_cacheAssets \subseteq Asset
  /\ m_cacheBrowse \subseteq Mark
  /\ m_cacheCollect \in Seq(Mark)
  /\ m_mysql \in {"up", "stale", "null"}
  /\ dbUp \in BOOLEAN
  /\ running \in BOOLEAN
  /\ now \in 0 .. MaxTime
  /\ acked \subseteq User \cup Asset \cup Mark
  /\ lost \in BOOLEAN

\* Two rows are the same user; u_sex does not survive toBool.
SameUser(u, v) == u.id = v.id /\ u.name = v.name /\ u.password = v.password

\* What the process shows is in the database: no user, resource or visit is
\* cached that was refused, whatever became of connections and answers.
CachedIsStored ==
  /\ \A u \in Range(m_cachedUsers) : \E v \in tab_user : SameUser(u, v)
  /\ m_cacheAssets \subseteq tab_assets
  /\ m_cacheBrowse \subseteq tab_browse

\* Unless the answer to a statement was lost since the start, the process knows
\* every row; in particular every bookmark the database lists can be removed.
StoredIsCached ==
  running /\ ~lost =>
    /\ \A v \in tab_user : \E u \in Range(m_cachedUsers) : SameUser(u, v)
    /\ tab_assets \subseteq m_cacheAssets
    /\ tab_browse \subseteq m_cacheBrowse
    /\ tab_collect \subseteq Range(m_cacheCollect)

\* The caches and the tables hold the same rows, but for what a lost answer hides.
CacheConsistent == TypeOK /\ CachedIsStored /\ StoredIsCached

\* A request answered with success is on disk: a crash, an outage or a refused
\* key never takes it back.
AckedIsStored == acked \subseteq tab_user \cup tab_assets \cup tab_browse

\* The users whose name nobody else has registered.
SoleUsers == {u \in tab_user : \A v \in tab_user : v.name = u.name => v = u}

\* A user whose registration was answered with success can log in whenever the
\* server runs, restarts included, if nobody else has registered the name.
RegisteredCanLogin ==
  running => \A u \in acked \cap SoleUsers : LoginState(u.name, u.password) = 1

\* An upload answered with success is in the list of all resources and in that of
\* its user's uploads whenever the server runs: both are made from the cache,
\* which a restart has to bring back.
UploadsListed ==
  running =>
    \A a \in acked \cap tab_assets :
      a \in OnGetNotmalInfoResponse /\ a \in OnGetDynamicInfoResponse(a.upName)

\* A visit answered with success shows in the user's history whenever the server
\* runs and the query for it is answered, for a user whose name nobody else has
\* registered: the user's id finds the row again after a restart has read the users
\* in another order.
VisitsListed ==
  running =>
    \A r \in Execute(TRUE), m \in acked \cap tab_browse, u \in SoleUsers :
      r.ok /\ m.uID = u.id => Named(m) \subseteq GetHistoryInfoFromDB(u.name, r)

\* What was answered with success is served whenever the server runs, crashes and
\* restarts in between; visits while the database answers.
AckedIsServed == RegisteredCanLogin /\ UploadsListed /\ VisitsListed

\* The process runs and a statement can reach the database.
Answering == running /\ dbUp /\ m_mysql # "null"

\* From whatever outages, lost handles, crashes and failed requests have left, the
\* process comes back to where a statement reaches the database: a handle that is gone
\* is made anew by a request, or the null handle kills the process and the restart
\* makes one.  Nothing is said of a database in which a table of resources is empty:
\* the process never comes up on it.
Recovers == Loadable ~> Answering
=============================================================================
