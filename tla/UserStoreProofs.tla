-------------------------- MODULE UserStoreProofs --------------------------
(***************************************************************************)
(* Proofs about UserStore, for every set of names, passwords, titles and   *)
(* kinds, every length of the run and every order of the ids.              *)
(*                                                                         *)
(* That the caches and the tables agree is inductive once it is known that *)
(* the tables read back in key order are finite and have a key.  That what *)
(* was acknowledged is served needs more: a cache is only as good as the   *)
(* restart that fills it, so every acknowledged row has to be in a table,  *)
(* its user in the list of users, and a user's id has to name one user.    *)
(*                                                                         *)
(* The second part is about MySqlSchema, what the start of the server does *)
(* to the same database, for any number of starts.  tab_user is checked    *)
(* first and the others refer to its u_id; SchemaInv says that every table *)
(* whose check is over is there, so that a later one can fail for lack of  *)
(* that column only.                                                       *)
(***************************************************************************)
EXTENDS UserStore, MySqlSchema, TLAPS, SequenceTheorems, FunctionTheorems, FiniteSetTheorems,
        WellFoundedInduction

\* The id is the primary key of a table.
Keyed(rows) == \A r, s \in rows : r.id = s.id => r = s

\* The tables that are read in the order of their key.
KeyInv ==
  /\ IsFiniteSet(tab_user) /\ Keyed(tab_user)
  /\ IsFiniteSet(tab_collect) /\ Keyed(tab_collect)

\* What was acknowledged is in the cache, also in that of a process that died; the
\* user of an acknowledged visit is.
ServedInv ==
  /\ \A u \in acked \intersect User : \E v \in Range(m_cachedUsers) : SameUser(u, v)
  /\ acked \intersect Asset \subseteq m_cacheAssets
  /\ \A m \in acked \intersect Mark : \E v \in Range(m_cachedUsers) : v.id = m.uID

\* The inductive invariant.
StoreInv ==
  /\ TypeOK /\ KeyInv /\ CachedIsStored /\ StoredIsCached /\ AckedIsStored /\ ServedInv

-----------------------------------------------------------------------------
(* Reading a table in the order of its key *)

\* Different numbers can be put in order: place each by the count of those that
\* are not larger.
LEMMA SortingPermutation ==
  ASSUME NEW n \in Nat, NEW key \in [1..n -> Nat], IsInjective(key)
  PROVE  \E p \in [1..n -> 1..n] : \A i, j \in 1..n : i < j => key[p[i]] < key[p[j]]
<1> DEFINE D == 1..n
           Below(i) == {j \in D : key[j] <= key[i]}
           rank == [i \in D |-> Cardinality(Below(i))]
<1>1. IsFiniteSet(D) /\ Cardinality(D) = n BY FS_Interval
<1>2. ASSUME NEW i \in D
      PROVE  IsFiniteSet(Below(i)) /\ Cardinality(Below(i)) \in D
  <2>1. Below(i) \in SUBSET D /\ i \in Below(i) OBVIOUS
  <2> HIDE DEF Below, D
  <2>2. IsFiniteSet(Below(i)) /\ Cardinality(Below(i)) <= n BY <1>1, <2>1, FS_Subset
  <2>3. Cardinality(Below(i)) \in Nat BY <2>2, FS_CardinalityType
  <2>4. Cardinality(Below(i)) # 0 BY <2>1, <2>2, FS_EmptySet
  <2> QED BY <2>2, <2>3, <2>4 DEF D
<1>3. ASSUME NEW i \in D, NEW j \in D, key[i] < key[j]
      PROVE  rank[i] < rank[j]
  <2>1. Below(i) \in SUBSET Below(j) /\ j \in Below(j) /\ j \notin Below(i) BY <1>3
  <2> HIDE DEF Below, D
  <2>2. Cardinality(Below(i)) <= Cardinality(Below(j)) BY <1>2, <2>1, FS_Subset
  <2>3. Cardinality(Below(i)) # Cardinality(Below(j)) BY <1>2, <2>1, FS_Subset
  <2>4. Cardinality(Below(i)) \in Nat /\ Cardinality(Below(j)) \in Nat BY <1>2 DEF D
  <2> QED BY <2>2, <2>3, <2>4
<1>4. rank \in [D -> D] BY <1>2
<1>5. ASSUME NEW i \in D, NEW j \in D, i # j PROVE key[i] < key[j] \/ key[j] < key[i]
  BY <1>5 DEF IsInjective
<1>6. \A i \in D : rank[i] \in Nat
  <2>1. \A i \in D : rank[i] \in D BY <1>4
  <2> HIDE DEF rank
  <2> QED BY <2>1
<1> HIDE DEF rank
<1>7. ASSUME NEW i \in D, NEW j \in D, i # j PROVE rank[i] # rank[j]
  BY <1>3, <1>5, <1>6, <1>7
<1>8. rank \in Surjection(D, D)
  <2>1. rank \in Injection(D, D) BY <1>4, <1>7 DEF Injection, IsInjective
  <2> HIDE DEF D
  <2> QED BY <1>1, <2>1, FS_Injection
<1> DEFINE p == [m \in D |-> CHOOSE i \in D : rank[i] = m]
<1>9. \A m \in D : p[m] \in D /\ rank[p[m]] = m BY <1>8 DEF Surjection
<1>10. p \in [D -> D] BY <1>9
<1> HIDE DEF p
<1>11. ASSUME NEW i \in D, NEW j \in D, i < j PROVE key[p[i]] < key[p[j]]
  <2>1. p[i] \in D /\ p[j] \in D /\ rank[p[i]] = i /\ rank[p[j]] = j BY <1>9
  <2>2. p[i] # p[j] /\ ~(j < i) BY <1>11, <2>1
  <2>3. key[p[j]] < key[p[i]] => j < i BY <1>3, <2>1
  <2> QED BY <1>5, <2>1, <2>2, <2>3
<1> QED BY <1>10, <1>11

\* SELECT gives every row of a table once.
LEMMA KeyOrder ==
  ASSUME NEW rows, IsFiniteSet(rows), Keyed(rows), \A r \in rows : r.id \in Nat
  PROVE  InKeyOrder(rows) \in Seq(rows) /\ Range(InKeyOrder(rows)) = rows
<1> DEFINE n == Cardinality(rows)
           D == 1..n
<1>1. n \in Nat /\ IsFiniteSet(D) /\ Cardinality(D) = n
  <2>1. n \in Nat BY FS_CardinalityType
  <2> HIDE DEF n
  <2> QED BY <2>1, FS_Interval
<1>2. PICK g \in Bijection(D, rows) : TRUE BY FS_CardinalityType DEF ExistsBijection
<1>3. g \in [D -> rows] /\ \A i, j \in D : g[i] = g[j] => i = j
  BY <1>2 DEF Bijection, Injection, IsInjective
<1> HIDE DEF n
<1> DEFINE key == [i \in D |-> g[i].id]
<1>4. key \in [D -> Nat] /\ IsInjective(key)
  BY <1>3 DEF IsInjective, Keyed
<1> HIDE DEF key
<1>5. PICK p \in [D -> D] : \A i, j \in D : i < j => key[p[i]] < key[p[j]]
  BY <1>1, <1>4, SortingPermutation
<1> DEFINE t == [i \in D |-> g[p[i]]]
<1>6. t \in [D -> rows] /\ \A i \in D : t[i] = g[p[i]] BY <1>3
<1>7. \A i, j \in D : i < j => t[i].id < t[j].id BY <1>5, <1>6 DEF key
<1>8. \A i \in D : t[i].id \in Nat BY <1>6
<1> HIDE DEF t
<1>9. \A i, j \in D : i # j => t[i] # t[j]
  <2> SUFFICES ASSUME NEW i \in D, NEW j \in D, i # j PROVE t[i].id # t[j].id OBVIOUS
  <2>1. i < j \/ j < i OBVIOUS
  <2> QED BY <1>7, <1>8, <2>1
<1>10. t \in SetToSeqs(rows) BY <1>6, <1>9 DEF SetToSeqs, n
<1>11. DOMAIN t = D BY <1>6
<1>12. InKeyOrder(rows) \in SetToSeqs(rows) BY <1>7, <1>10, <1>11 DEF InKeyOrder
<1> DEFINE s == InKeyOrder(rows)
<1>13. s \in [D -> rows] /\ \A i, j \in D : i # j => s[i] # s[j] BY <1>12 DEF SetToSeqs, n
<1> HIDE DEF s
<1>14. s \in Surjection(D, rows)
  <2>1. s \in Injection(D, rows) BY <1>13 DEF Injection, IsInjective
  <2> HIDE DEF D
  <2> QED BY <1>1, <2>1, FS_Injection DEF n
<1>15. s \in Seq(rows) BY <1>1, <1>13
<1>16. Range(s) = rows BY <1>13, <1>14 DEF Range, Surjection
<1> QED BY <1>15, <1>16 DEF s

\* LoadUserFromDB: every row is cached and nothing else, but for the sex.
LEMMA LoadUsersFacts ==
  ASSUME NEW rows, rows \subseteq User, IsFiniteSet(rows), Keyed(rows)
  PROVE  /\ LoadUsers(rows) \in Seq(User)
         /\ \A u \in rows : \E v \in Range(LoadUsers(rows)) : SameUser(u, v)
         /\ \A v \in Range(LoadUsers(rows)) : \E u \in rows : SameUser(v, u)
<1> DEFINE read == [u \in rows |-> [u EXCEPT !.sex = toBool(@)]]
           T == {[u EXCEPT !.sex = toBool(@)] : u \in rows}
<1>1. \A u \in rows : read[u] \in User /\ SameUser(u, read[u]) /\ SameUser(read[u], u)
  BY DEF User, SameUser, toBool, Atoi
<1>2. read \in Surjection(rows, T) BY DEF Surjection
<1>3. \A v \in T : \E u \in rows : v = read[u] OBVIOUS
<1>4. \A u \in rows : read[u] \in T OBVIOUS
<1>5. LoadUsers(rows) = InKeyOrder(T) BY DEF LoadUsers
<1> HIDE DEF read, T
<1>6. IsFiniteSet(T) BY <1>2, FS_Surjection
<1>7. \A r \in T : r \in User /\ r.id \in Nat BY <1>1, <1>3 DEF User
<1>8. Keyed(T) BY <1>1, <1>3 DEF Keyed, SameUser
<1>9. InKeyOrder(T) \in Seq(T) /\ Range(InKeyOrder(T)) = T BY <1>6, <1>7, <1>8, KeyOrder
<1>10. LoadUsers(rows) \in Seq(User) BY <1>5, <1>7, <1>9
<1> QED BY <1>1, <1>3, <1>4, <1>5, <1>9, <1>10

\* The bookmarks are read as they are.
LEMMA LoadCollectFacts ==
  ASSUME NEW rows, rows \subseteq Mark, IsFiniteSet(rows), Keyed(rows)
  PROVE  LoadCollect(rows) \in Seq(Mark) /\ Range(LoadCollect(rows)) = rows
<1>1. \A r \in rows : r.id \in Nat BY DEF Mark
<1>2. InKeyOrder(rows) \in Seq(rows) /\ Range(InKeyOrder(rows)) = rows BY <1>1, KeyOrder
<1> QED BY <1>2 DEF LoadCollect

-----------------------------------------------------------------------------
(* Lists *)

\* push_back
LEMMA AppendFacts ==
  ASSUME NEW S, NEW s \in Seq(S), NEW e \in S
  PROVE  Append(s, e) \in Seq(S) /\ Range(Append(s, e)) = Range(s) \union {e}
<1>1. Append(s, e) \in Seq(S) /\ Len(Append(s, e)) = Len(s) + 1
      /\ \A i \in 1..Len(s) + 1 : Append(s, e)[i] = IF i <= Len(s) THEN s[i] ELSE e
  OBVIOUS
<1>2. DOMAIN Append(s, e) = 1..Len(s) + 1 /\ DOMAIN s = 1..Len(s) /\ Len(s) \in Nat BY <1>1
<1>3. Append(s, e)[Len(s) + 1] = e BY <1>1, <1>2
<1>4. \A i \in 1..Len(s) : Append(s, e)[i] = s[i] BY <1>1
<1>5. Range(Append(s, e)) \subseteq Range(s) \union {e} BY <1>1, <1>2 DEF Range
<1>6. Range(s) \union {e} \subseteq Range(Append(s, e))
  <2>1. \A i \in 1..Len(s) : i \in 1..Len(s) + 1 BY <1>2
  <2>2. Len(s) + 1 \in 1..Len(s) + 1 BY <1>2
  <2> HIDE <1>1
  <2> QED BY <1>2, <1>3, <1>4, <2>1, <2>2 DEF Range
<1> QED BY <1>1, <1>5, <1>6

\* erase takes one entry away.
LEMMA RemoveAtFacts ==
  ASSUME NEW S, NEW s \in Seq(S), NEW k \in 1..Len(s)
  PROVE  /\ RemoveAt(s, k) \in Seq(S)
         /\ \A i \in 1..Len(s) : i # k => s[i] \in Range(RemoveAt(s, k))
<1> DEFINE a == SubSeq(s, 1, k - 1)
           b == SubSeq(s, k + 1, Len(s))
<1>1. a \in Seq(S) /\ Len(a) = k - 1 /\ \A i \in 1..k - 1 : a[i] = s[i] OBVIOUS
<1>2. b \in Seq(S) /\ Len(b) = Len(s) - k /\ \A i \in 1..Len(s) - k : b[i] = s[k + i] OBVIOUS
<1>3. RemoveAt(s, k) = a \o b BY DEF RemoveAt
<1> HIDE DEF a, b
<1>4. a \o b \in Seq(S) /\ Len(a \o b) = Len(a) + Len(b)
      /\ \A i \in 1..Len(a) + Len(b) : (a \o b)[i] = IF i <= Len(a) THEN a[i] ELSE b[i - Len(a)]
  BY <1>1, <1>2, ConcatProperties
<1>5. DOMAIN (a \o b) = 1..Len(s) - 1 BY <1>1, <1>2, <1>4
<1>6. ASSUME NEW i \in 1..Len(s), i # k PROVE s[i] \in Range(a \o b)
  <2>1. CASE i < k
    <3>1. i \in 1..Len(s) - 1 /\ (a \o b)[i] = s[i] BY <1>1, <1>2, <1>4, <2>1
    <3> QED BY <1>5, <3>1 DEF Range
  <2>2. CASE i > k
    <3>1. i - 1 \in 1..Len(s) - 1 /\ i - k \in 1..Len(s) - k BY <2>2
    <3>2. (a \o b)[i - 1] = b[i - k] BY <1>1, <1>2, <1>4, <2>2, <3>1
    <3>3. b[i - k] = s[i] BY <1>2, <3>1
    <3> QED BY <1>5, <3>1, <3>2, <3>3 DEF Range
  <2> QED BY <1>6, <2>1, <2>2
<1> QED BY <1>3, <1>4, <1>6

\* A set of natural numbers that is not empty has a least element.
LEMMA LeastNat ==
  ASSUME NEW T, T \subseteq Nat, T # {}
  PROVE  \E m \in T : \A n \in T : m <= n
<1>1. IsWellFoundedOn(OpToRel(<, Nat), Nat) BY NatLessThanWellFounded
<1>2. PICK m \in T : \A n \in T : ~(<<n, m>> \in OpToRel(<, Nat)) BY <1>1, WFMin
<1>3. \A n \in T : ~(n < m) BY <1>2 DEF OpToRel
<1>4. \A n \in T : m <= n BY <1>3
<1> QED BY <1>4

\* GetUserInfoByUsername finds a cached user of that name if there is one.
LEMMA FoundUser ==
  ASSUME TypeOK, NEW n
  PROVE  \/ /\ GetUserInfoByUsername(n) = Nobody
            /\ \A u \in Range(m_cachedUsers) : u.name # n
         \/ /\ GetUserInfoByUsername(n) \in Range(m_cachedUsers)
            /\ GetUserInfoByUsername(n) \in User
            /\ GetUserInfoByUsername(n) # Nobody
            /\ GetUserInfoByUsername(n).name = n
<1>1. m_cachedUsers \in Seq(User) BY DEF TypeOK
<1>2. DOMAIN m_cachedUsers \subseteq Nat BY <1>1
<1>3. CASE Matches(n) = {}
  BY <1>3 DEF GetUserInfoByUsername, Matches, Range
<1>4. CASE Matches(n) # {}
  <2> DEFINE i == CHOOSE i \in Matches(n) : \A j \in Matches(n) : i <= j
  <2>1. Matches(n) \subseteq Nat BY <1>2 DEF Matches
  <2>2. \E k \in Matches(n) : \A j \in Matches(n) : k <= j BY <1>4, <2>1, LeastNat
  <2>3. i \in Matches(n) BY <2>2
  <2>4. GetUserInfoByUsername(n) = m_cachedUsers[i] BY <1>4 DEF GetUserInfoByUsername
  <2> HIDE DEF i
  <2>5. i \in DOMAIN m_cachedUsers /\ m_cachedUsers[i].name = n BY <2>3 DEF Matches
  <2>6. m_cachedUsers[i] \in User BY <1>1, <2>5
  <2> QED BY <2>4, <2>5, <2>6, NobodyAssumption DEF Range
<1> QED BY <1>3, <1>4

\* A user, a resource and a mark are never the same row.
LEMMA RowsDiffer ==
  User \intersect Asset = {} /\ User \intersect Mark = {} /\ Asset \intersect Mark = {}
<1>1. \A u \in User : DOMAIN u = {"id", "name", "password", "sex"} BY DEF User
<1>2. \A a \in Asset : DOMAIN a = {"id", "kind", "title", "upName", "uID"} BY DEF Asset
<1>3. \A m \in Mark : DOMAIN m = {"id", "uID", "kind", "title"} BY DEF Mark
<1>4. /\ "name" # "uID" /\ "upName" \notin {"id", "uID", "kind", "title"}
      /\ "kind" \notin {"id", "name", "password", "sex"}
  OBVIOUS
<1> QED BY <1>1, <1>2, <1>3, <1>4

-----------------------------------------------------------------------------
(* Steps *)

\* What a statement can come to: one that is acknowledged took effect, one that
\* took effect was let pass by the constraints.
LEMMA ExecuteFacts ==
  ASSUME NEW fits \in BOOLEAN, NEW r \in Execute(fits)
  PROVE  /\ r.ok \in BOOLEAN /\ r.applied \in BOOLEAN /\ r.link \in {"up", "stale", "null"}
         /\ r.ok => r.applied
         /\ r.applied => fits
<1>1. CASE m_mysql = "null"
  <2>1. r = [ok |-> FALSE, applied |-> FALSE, link |-> "up"] BY <1>1 DEF Execute
  <2> QED BY <2>1
<1>2. CASE m_mysql # "null" /\ ~dbUp
  <2>1. r = [ok |-> FALSE, applied |-> FALSE, link |-> "null"] BY <1>2 DEF Execute
  <2> QED BY <2>1
<1>3. CASE m_mysql # "null" /\ dbUp
  <2>1. \/ r = [ok |-> fits, applied |-> fits, link |-> "up"]
        \/ r \in [ok : {FALSE}, applied : {FALSE, fits}, link : {"stale"}]
    BY <1>3 DEF Execute
  <2>2. CASE r = [ok |-> fits, applied |-> fits, link |-> "up"] BY <2>2
  <2>3. CASE r \in [ok : {FALSE}, applied : {FALSE, fits}, link : {"stale"}] BY <2>3
  <2> QED BY <2>1, <2>2, <2>3
<1> QED BY <1>1, <1>2, <1>3

\* Steps that leave tables, caches and acknowledgements alone, and hide no row.
LEMMA DataUnchanged ==
  ASSUME StoreInv, UNCHANGED <<requests, tables, caches, acked>>,
         m_mysql' \in {"up", "stale", "null"}, dbUp' \in BOOLEAN, running' \in BOOLEAN,
         now' \in 0 .. MaxTime, lost' \in BOOLEAN,
         running' /\ ~lost' => running /\ ~lost
  PROVE  StoreInv'
<1> USE DEF tables, caches
<1>1. TypeOK' BY DEF StoreInv, TypeOK
<1>2. KeyInv' BY DEF StoreInv, KeyInv
<1>3. CachedIsStored' BY DEF StoreInv, CachedIsStored
<1>4. StoredIsCached' BY DEF StoreInv, StoredIsCached
<1>5. AckedIsStored' BY DEF StoreInv, AckedIsStored
<1>6. ServedInv' BY DEF StoreInv, ServedInv
<1> QED BY <1>1, <1>2, <1>3, <1>4, <1>5, <1>6 DEF StoreInv

\* A statement that had no effect is a step of that kind.
LEMMA NothingApplied ==
  ASSUME StoreInv, NEW fits \in BOOLEAN, NEW r \in Execute(fits), Executed(r), ~r.applied,
         UNCHANGED <<tables, caches, env, acked>>
  PROVE  StoreInv'
<1>1. r.link \in {"up", "stale", "null"} /\ r.applied \in BOOLEAN BY ExecuteFacts
<1>2. m_mysql' = r.link /\ lost' = (lost \/ (r.applied /\ ~r.ok)) BY DEF Executed
<1>3. lost' = lost BY <1>2 DEF StoreInv, TypeOK
<1>4. UNCHANGED <<requests, dbUp, running, now>> BY DEF env
<1> QED BY <1>1, <1>2, <1>3, <1>4, DataUnchanged DEF StoreInv, TypeOK

\* The id of a new row.
LEMMA NewId ==
  ASSUME TypeOK
  PROVE  TableID \in Nat
BY StampAssumption DEF TypeOK, TableID

\* OnRegisterResponse
LEMMA RegisterStep ==
  ASSUME StoreInv, NEW n \in Names, NEW p \in Passwords, NEW x \in BOOLEAN, Register(n, p, x)
  PROVE  StoreInv'
<1> DEFINE user == [id |-> TableID, name |-> n, password |-> p, sex |-> x]
<1>1. user \in User /\ user.id = TableID BY NewId DEF StoreInv, User
<1>2. PICK r \in Execute(Fresh(tab_user)) :
        AddUser(user, r) /\ acked' = IF r.ok THEN acked \union {user} ELSE acked
  BY DEF Register
<1>3. UNCHANGED <<tab_assets, tab_browse, tab_collect, m_cacheAssets, m_cacheBrowse,
                  m_cacheCollect, requests, dbUp, running, now>>
  BY DEF Register, env
<1> HIDE DEF user
<1>4. Fresh(tab_user) \in BOOLEAN BY DEF Fresh
<1>5. /\ r.ok \in BOOLEAN /\ r.applied \in BOOLEAN /\ r.link \in {"up", "stale", "null"}
      /\ r.ok => r.applied
      /\ r.applied => Fresh(tab_user)
  BY <1>4, ExecuteFacts
<1>6. /\ Executed(r)
      /\ tab_user' = IF r.applied THEN tab_user \union {user} ELSE tab_user
      /\ m_cachedUsers' = IF r.ok THEN Append(m_cachedUsers, user) ELSE m_cachedUsers
  BY <1>2 DEF AddUser
<1>7. m_mysql' = r.link /\ lost' = (lost \/ (r.applied /\ ~r.ok)) BY <1>6 DEF Executed
<1>8. CASE ~r.applied
  <2>1. UNCHANGED <<tables, caches, env, acked>>
    BY <1>2, <1>3, <1>5, <1>6, <1>8 DEF tables, caches, env
  <2> QED BY <1>4, <1>6, <1>8, <2>1, NothingApplied
<1>9. CASE r.applied
  <2>1. tab_user' = tab_user \union {user} BY <1>6, <1>9
  <2>2. m_cachedUsers' \in Seq(User)
        /\ Range(m_cachedUsers') = Range(m_cachedUsers) \union (IF r.ok THEN {user} ELSE {})
    <3>1. m_cachedUsers \in Seq(User) BY DEF StoreInv, TypeOK
    <3> QED BY <1>1, <1>5, <1>6, <3>1, AppendFacts
  <2>3. lost' \in BOOLEAN /\ (~lost' => ~lost /\ r.ok) BY <1>5, <1>7, <1>9 DEF StoreInv, TypeOK
  <2>4. TypeOK' BY <1>1, <1>2, <1>3, <1>5, <1>7, <2>1, <2>2, <2>3 DEF StoreInv, TypeOK
  <2>5. KeyInv'
    <3>1. IsFiniteSet(tab_user') BY <2>1, FS_AddElement DEF StoreInv, KeyInv
    <3>2. Keyed(tab_user') BY <1>1, <1>5, <1>9, <2>1 DEF StoreInv, KeyInv, Keyed, Fresh
    <3> QED BY <1>3, <3>1, <3>2 DEF StoreInv, KeyInv, Keyed
  <2>6. SameUser(user, user) BY DEF SameUser
  <2>7. CachedIsStored' BY <1>3, <2>1, <2>2, <2>6 DEF StoreInv, CachedIsStored
  <2>8. StoredIsCached' BY <1>3, <2>1, <2>2, <2>3, <2>6 DEF StoreInv, StoredIsCached
  <2>9. AckedIsStored' BY <1>2, <1>3, <2>1 DEF StoreInv, AckedIsStored
  <2>10. ServedInv'
    <3>1. user \notin Asset /\ user \notin Mark BY <1>1, RowsDiffer
    <3>2. \A u \in acked' \intersect User : \E v \in Range(m_cachedUsers') : SameUser(u, v)
      BY <1>2, <2>2, <2>6 DEF StoreInv, ServedInv
    <3>3. acked' \intersect Asset \subseteq m_cacheAssets'
      BY <1>2, <1>3, <3>1 DEF StoreInv, ServedInv
    <3>4. \A m \in acked' \intersect Mark : \E v \in Range(m_cachedUsers') : v.id = m.uID
      BY <1>2, <2>2, <3>1 DEF StoreInv, ServedInv
    <3> QED BY <3>2, <3>3, <3>4 DEF ServedInv
  <2> QED BY <2>4, <2>5, <2>7, <2>8, <2>9, <2>10 DEF StoreInv
<1> QED BY <1>5, <1>8, <1>9

\* OnUploadVideoResponse and its like
LEMMA UploadStep ==
  ASSUME StoreInv, NEW n \in Names, NEW k \in Kinds, NEW t \in Titles, Upload(n, k, t)
  PROVE  StoreInv'
<1>1. UNCHANGED <<tab_user, tab_browse, tab_collect, m_cachedUsers, m_cacheBrowse,
                  m_cacheCollect, requests, dbUp, running, now>>
  BY DEF Upload, env
<1>2. CASE GetUserInfoByUsername(n) = Nobody
  <2>1. PICK r \in Execute(FALSE) : Executed(r) /\ UNCHANGED <<tab_assets, m_cacheAssets, acked>>
    BY <1>2 DEF Upload
  <2>2. UNCHANGED <<tables, caches, env, acked>> BY <1>1, <2>1 DEF tables, caches, env
  <2>3. ~r.applied BY ExecuteFacts
  <2> QED BY <2>1, <2>2, <2>3, NothingApplied
<1>3. CASE GetUserInfoByUsername(n) # Nobody
  <2> DEFINE info == [id |-> TableID, kind |-> k, title |-> t, upName |-> n,
                      uID |-> GetUserInfoByUsername(n).id]
             fits == Fresh({a \in tab_assets : a.kind = k})
  <2>1. PICK r \in Execute(fits) :
          AddInfo(info, r) /\ acked' = IF r.ok THEN acked \union {info} ELSE acked
    BY <1>3 DEF Upload
  <2>2. info \in Asset
    <3>1. GetUserInfoByUsername(n) \in User BY <1>3, FoundUser DEF StoreInv
    <3>2. GetUserInfoByUsername(n).id \in Nat BY <3>1 DEF User
    <3> QED BY <3>2, NewId DEF StoreInv, Asset
  <2>3. fits \in BOOLEAN BY DEF Fresh
  <2> HIDE DEF info, fits
  <2>4. /\ r.ok \in BOOLEAN /\ r.applied \in BOOLEAN /\ r.link \in {"up", "stale", "null"}
        /\ r.ok => r.applied
    BY <2>3, ExecuteFacts
  <2>5. /\ Executed(r)
        /\ tab_assets' = IF r.applied THEN tab_assets \union {info} ELSE tab_assets
        /\ m_cacheAssets' = IF r.ok THEN m_cacheAssets \union {info} ELSE m_cacheAssets
    BY <2>1 DEF AddInfo
  <2>6. m_mysql' = r.link /\ lost' = (lost \/ (r.applied /\ ~r.ok)) BY <2>5 DEF Executed
  <2>7. CASE ~r.applied
    <3>1. UNCHANGED <<tables, caches, env, acked>>
      BY <1>1, <2>1, <2>4, <2>5, <2>7 DEF tables, caches, env
    <3> QED BY <2>3, <2>5, <2>7, <3>1, NothingApplied
  <2>8. CASE r.applied
    <3>1. lost' \in BOOLEAN /\ (~lost' => ~lost /\ r.ok) BY <2>4, <2>6, <2>8 DEF StoreInv, TypeOK
    <3>2. TypeOK' BY <1>1, <2>1, <2>2, <2>4, <2>5, <2>6, <3>1 DEF StoreInv, TypeOK
    <3>3. KeyInv' BY <1>1 DEF StoreInv, KeyInv, Keyed
    <3>4. CachedIsStored' BY <1>1, <2>4, <2>5 DEF StoreInv, CachedIsStored
    <3>5. StoredIsCached' BY <1>1, <2>5, <3>1 DEF StoreInv, StoredIsCached
    <3>6. AckedIsStored' BY <1>1, <2>1, <2>5, <2>8 DEF StoreInv, AckedIsStored
    <3>7. ServedInv'
      <4>1. info \notin User /\ info \notin Mark BY <2>2, RowsDiffer
      <4>2. acked' \intersect User = acked \intersect User
            /\ acked' \intersect Mark = acked \intersect Mark
        BY <2>1, <4>1
      <4>3. acked' \intersect Asset \subseteq m_cacheAssets' BY <2>1, <2>5 DEF StoreInv, ServedInv
      <4> QED BY <1>1, <4>2, <4>3 DEF StoreInv, ServedInv
    <3> QED BY <3>2, <3>3, <3>4, <3>5, <3>6, <3>7 DEF StoreInv
  <2> QED BY <2>4, <2>7, <2>8
<1> QED BY <1>2, <1>3

\* OnAddHistoryInfoResponse
LEMMA AddHistoryStep ==
  ASSUME StoreInv, NEW n \in Names, NEW k \in Kinds, NEW t \in Titles, AddHistory(n, k, t)
  PROVE  StoreInv'
<1> DEFINE info == [id |-> TableID, uID |-> GetUserInfoByUsername(n).id, kind |-> k, title |-> t]
<1>1. UNCHANGED <<tab_user, tab_assets, tab_collect, m_cachedUsers, m_cacheAssets,
                  m_cacheCollect, requests, dbUp, running, now>>
  BY DEF AddHistory, env
<1>2. PICK r \in Execute(Fresh(tab_browse)) :
        AddBrowseInfoFromDB(info, r) /\ acked' = IF r.ok THEN acked \union {info} ELSE acked
  BY DEF AddHistory
<1>3. info \in Mark /\ \E v \in Range(m_cachedUsers) : v.id = info.uID
  <2>1. GetUserInfoByUsername(n) \in User /\ GetUserInfoByUsername(n) \in Range(m_cachedUsers)
    BY FoundUser DEF StoreInv, AddHistory
  <2>2. GetUserInfoByUsername(n).id \in Nat BY <2>1 DEF User
  <2> QED BY <2>1, <2>2, NewId DEF StoreInv, Mark
<1>4. Fresh(tab_browse) \in BOOLEAN BY DEF Fresh
<1> HIDE DEF info
<1>5. /\ r.ok \in BOOLEAN /\ r.applied \in BOOLEAN /\ r.link \in {"up", "stale", "null"}
      /\ r.ok => r.applied
  BY <1>4, ExecuteFacts
<1>6. /\ Executed(r)
      /\ tab_browse' = IF r.applied THEN tab_browse \union {info} ELSE tab_browse
      /\ m_cacheBrowse' = IF r.ok THEN m_cacheBrowse \union {info} ELSE m_cacheBrowse
  BY <1>2 DEF AddBrowseInfoFromDB
<1>7. m_mysql' = r.link /\ lost' = (lost \/ (r.applied /\ ~r.ok)) BY <1>6 DEF Executed
<1>8. CASE ~r.applied
  <2>1. UNCHANGED <<tables, caches, env, acked>>
    BY <1>1, <1>2, <1>5, <1>6, <1>8 DEF tables, caches, env
  <2> QED BY <1>4, <1>6, <1>8, <2>1, NothingApplied
<1>9. CASE r.applied
  <2>1. lost' \in BOOLEAN /\ (~lost' => ~lost /\ r.ok) BY <1>5, <1>7, <1>9 DEF StoreInv, TypeOK
  <2>2. TypeOK' BY <1>1, <1>2, <1>3, <1>5, <1>6, <1>7, <2>1 DEF StoreInv, TypeOK
  <2>3. KeyInv' BY <1>1 DEF StoreInv, KeyInv, Keyed
  <2>4. CachedIsStored' BY <1>1, <1>5, <1>6 DEF StoreInv, CachedIsStored
  <2>5. StoredIsCached' BY <1>1, <1>6, <2>1 DEF StoreInv, StoredIsCached
  <2>6. AckedIsStored' BY <1>1, <1>2, <1>6, <1>9 DEF StoreInv, AckedIsStored
  <2>7. ServedInv'
    <3>1. info \notin User /\ info \notin Asset BY <1>3, RowsDiffer
    <3>2. acked' \intersect User = acked \intersect User
          /\ acked' \intersect Asset = acked \intersect Asset
      BY <1>2, <3>1
    <3>3. \A m \in acked' \intersect Mark : \E v \in Range(m_cachedUsers') : v.id = m.uID
      BY <1>1, <1>2, <1>3 DEF StoreInv, ServedInv
    <3> QED BY <1>1, <3>2, <3>3 DEF StoreInv, ServedInv
  <2> QED BY <2>2, <2>3, <2>4, <2>5, <2>6, <2>7 DEF StoreInv
<1> QED BY <1>5, <1>8, <1>9

\* Steps that change only the bookmarks keep the invariant when the table keeps its
\* key and the cache follows it.
LEMMA CollectChanged ==
  ASSUME StoreInv,
         UNCHANGED <<tab_user, tab_assets, tab_browse, m_cachedUsers, m_cacheAssets,
                     m_cacheBrowse, acked, requests, dbUp, running, now>>,
         m_mysql' \in {"up", "stale", "null"}, lost' \in BOOLEAN, ~lost' => ~lost,
         tab_collect' \subseteq Mark, m_cacheCollect' \in Seq(Mark),
         IsFiniteSet(tab_collect'), Keyed(tab_collect'),
         running /\ ~lost' => tab_collect' \subseteq Range(m_cacheCollect')
  PROVE  StoreInv'
<1>1. TypeOK' BY DEF StoreInv, TypeOK
<1>2. KeyInv' BY DEF StoreInv, KeyInv, Keyed
<1>3. CachedIsStored' BY DEF StoreInv, CachedIsStored
<1>4. StoredIsCached' BY DEF StoreInv, StoredIsCached
<1>5. AckedIsStored' BY DEF StoreInv, AckedIsStored
<1>6. ServedInv' BY DEF StoreInv, ServedInv
<1> QED BY <1>1, <1>2, <1>3, <1>4, <1>5, <1>6 DEF StoreInv

\* OnAddCollectInfoResponse, a bookmark set
LEMMA AddCollectStep ==
  ASSUME StoreInv, NEW n \in Names, NEW k \in Kinds, NEW t \in Titles, AddCollect(n, k, t)
  PROVE  StoreInv'
<1> DEFINE info == [id |-> TableID, uID |-> GetUserInfoByUsername(n).id, kind |-> k, title |-> t]
<1>1. UNCHANGED <<tab_user, tab_assets, tab_browse, m_cachedUsers, m_cacheAssets,
                  m_cacheBrowse, acked, requests, dbUp, running, now>>
  BY DEF AddCollect, env
<1>2. PICK r \in Execute(Fresh(tab_collect)) : AddCollectInfoFromDB(info, r)
  BY DEF AddCollect
<1>3. info \in Mark /\ info.id = TableID
  <2>1. GetUserInfoByUsername(n) \in User BY FoundUser DEF StoreInv, AddCollect
  <2>2. GetUserInfoByUsername(n).id \in Nat BY <2>1 DEF User
  <2> QED BY <2>2, NewId DEF StoreInv, Mark
<1>4. Fresh(tab_collect) \in BOOLEAN BY DEF Fresh
<1> HIDE DEF info
<1>5. /\ r.ok \in BOOLEAN /\ r.applied \in BOOLEAN /\ r.link \in {"up", "stale", "null"}
      /\ r.ok => r.applied
      /\ r.applied => Fresh(tab_collect)
  BY <1>4, ExecuteFacts
<1>6. /\ Executed(r)
      /\ tab_collect' = IF r.applied THEN tab_collect \union {info} ELSE tab_collect
      /\ m_cacheCollect' = IF r.ok THEN Append(m_cacheCollect, info) ELSE m_cacheCollect
  BY <1>2 DEF AddCollectInfoFromDB
<1>7. m_mysql' = r.link /\ lost' = (lost \/ (r.applied /\ ~r.ok)) BY <1>6 DEF Executed
<1>8. lost' \in BOOLEAN /\ (~lost' => ~lost) /\ (~lost' /\ r.applied => r.ok)
  BY <1>5, <1>7 DEF StoreInv, TypeOK
<1>9. m_cacheCollect' \in Seq(Mark)
      /\ Range(m_cacheCollect') = Range(m_cacheCollect) \union (IF r.ok THEN {info} ELSE {})
  <2>1. m_cacheCollect \in Seq(Mark) BY DEF StoreInv, TypeOK
  <2> QED BY <1>3, <1>5, <1>6, <2>1, AppendFacts
<1>10. tab_collect' \subseteq Mark BY <1>3, <1>6 DEF StoreInv, TypeOK
<1>11. IsFiniteSet(tab_collect') BY <1>6, FS_AddElement DEF StoreInv, KeyInv
<1>12. Keyed(tab_collect') BY <1>3, <1>5, <1>6 DEF StoreInv, KeyInv, Keyed, Fresh
<1>13. running /\ ~lost' => tab_collect' \subseteq Range(m_cacheCollect')
  BY <1>5, <1>6, <1>8, <1>9 DEF StoreInv, StoredIsCached
<1> QED BY <1>1, <1>5, <1>7, <1>8, <1>9, <1>10, <1>11, <1>12, <1>13, CollectChanged

\* OnAddCollectInfoResponse, a bookmark taken back: the entry that leaves the cache
\* is one of those the database deletes.
LEMMA RemoveCollectStep ==
  ASSUME StoreInv, NEW n \in Names, NEW k \in Kinds, NEW t \in Titles, RemoveCollect(n, k, t)
  PROVE  StoreInv'
<1> DEFINE uid == GetUserInfoByUsername(n).id
           hits == {i \in DOMAIN m_cacheCollect : SameMark(m_cacheCollect[i], uid, k, t)}
           first == CHOOSE i \in hits : \A j \in hits : i <= j
           rest == {c \in tab_collect : ~SameMark(c, uid, k, t)}
<1>1. UNCHANGED <<tab_user, tab_assets, tab_browse, m_cachedUsers, m_cacheAssets,
                  m_cacheBrowse, acked, requests, dbUp, running, now>>
  BY DEF RemoveCollect, env
<1>2. hits # {} BY DEF RemoveCollect
<1>3. PICK r \in Execute(TRUE) :
        /\ Executed(r)
        /\ tab_collect' = IF r.applied THEN rest ELSE tab_collect
        /\ m_cacheCollect' = IF r.ok THEN RemoveAt(m_cacheCollect, first) ELSE m_cacheCollect
  BY DEF RemoveCollect
<1>4. m_cacheCollect \in Seq(Mark) /\ DOMAIN m_cacheCollect = 1..Len(m_cacheCollect)
  BY DEF StoreInv, TypeOK
<1>5. first \in hits
  <2>1. hits \subseteq Nat BY <1>4
  <2> HIDE DEF hits
  <2>2. \E i \in hits : \A j \in hits : i <= j BY <1>2, <2>1, LeastNat
  <2> QED BY <2>2
<1>6. first \in 1..Len(m_cacheCollect) /\ SameMark(m_cacheCollect[first], uid, k, t)
  BY <1>4, <1>5
<1>7. rest \subseteq tab_collect /\ \A c \in rest : ~SameMark(c, uid, k, t) OBVIOUS
<1> HIDE DEF uid, hits, first, rest
<1>8. /\ r.ok \in BOOLEAN /\ r.applied \in BOOLEAN /\ r.link \in {"up", "stale", "null"}
      /\ r.ok => r.applied
  BY ExecuteFacts
<1>9. m_mysql' = r.link /\ lost' = (lost \/ (r.applied /\ ~r.ok)) BY <1>3 DEF Executed
<1>10. lost' \in BOOLEAN /\ (~lost' => ~lost) /\ (~lost' /\ r.applied => r.ok)
  BY <1>8, <1>9 DEF StoreInv, TypeOK
<1>11. /\ RemoveAt(m_cacheCollect, first) \in Seq(Mark)
       /\ \A i \in 1..Len(m_cacheCollect) :
            i # first => m_cacheCollect[i] \in Range(RemoveAt(m_cacheCollect, first))
  BY <1>4, <1>6, RemoveAtFacts
<1>12. m_cacheCollect' \in Seq(Mark) BY <1>3, <1>4, <1>8, <1>11
<1>13. tab_collect' \subseteq tab_collect BY <1>3, <1>7
<1>14. tab_collect' \subseteq Mark BY <1>13 DEF StoreInv, TypeOK
<1>15. IsFiniteSet(tab_collect') BY <1>13, FS_Subset DEF StoreInv, KeyInv
<1>16. Keyed(tab_collect') BY <1>13 DEF StoreInv, KeyInv, Keyed
<1>17. ASSUME running, ~lost' PROVE tab_collect' \subseteq Range(m_cacheCollect')
  <2>1. tab_collect \subseteq Range(m_cacheCollect)
    BY <1>10, <1>17 DEF StoreInv, StoredIsCached
  <2>2. CASE ~r.ok
    <3>1. ~r.applied BY <1>10, <1>17, <2>2
    <3> QED BY <1>3, <2>1, <2>2, <3>1
  <2>3. CASE r.ok
    <3> SUFFICES ASSUME NEW c \in rest PROVE c \in Range(RemoveAt(m_cacheCollect, first))
      BY <1>3, <1>8, <2>3
    <3>1. PICK i \in 1..Len(m_cacheCollect) : c = m_cacheCollect[i]
      BY <1>4, <1>7, <2>1 DEF Range
    <3>2. i # first BY <1>6, <1>7, <3>1
    <3> QED BY <1>11, <3>1, <3>2
  <2> QED BY <1>8, <2>2, <2>3
<1> QED BY <1>1, <1>8, <1>9, <1>10, <1>12, <1>14, <1>15, <1>16, <1>17, CollectChanged

\* main: what the tables hold is cached again.
LEMMA RestartStep ==
  ASSUME StoreInv, Restart
  PROVE  StoreInv'
<1>1. /\ running' = TRUE /\ m_mysql' = "up" /\ lost' = FALSE
      /\ m_cachedUsers' = LoadUsers(tab_user)
      /\ m_cacheAssets' = tab_assets
      /\ m_cacheBrowse' = tab_browse
      /\ m_cacheCollect' = LoadCollect(tab_collect)
      /\ UNCHANGED <<requests, tab_user, tab_assets, tab_browse, tab_collect, dbUp, now, acked>>
  BY DEF Restart, tables
<1>2. /\ m_cachedUsers' \in Seq(User)
      /\ \A u \in tab_user : \E v \in Range(m_cachedUsers') : SameUser(u, v)
      /\ \A v \in Range(m_cachedUsers') : \E u \in tab_user : SameUser(v, u)
  BY <1>1, LoadUsersFacts DEF StoreInv, TypeOK, KeyInv
<1>3. m_cacheCollect' \in Seq(Mark) /\ Range(m_cacheCollect') = tab_collect
  BY <1>1, LoadCollectFacts DEF StoreInv, TypeOK, KeyInv
<1>4. TypeOK' BY <1>1, <1>2, <1>3 DEF StoreInv, TypeOK
<1>5. KeyInv' BY <1>1 DEF StoreInv, KeyInv, Keyed
<1>6. CachedIsStored' BY <1>1, <1>2 DEF CachedIsStored
<1>7. StoredIsCached'
  <2>1. \A v \in tab_user : \E u \in Range(m_cachedUsers') : SameUser(u, v)
    BY <1>2 DEF SameUser
  <2> QED BY <1>1, <1>3, <2>1 DEF StoredIsCached
<1>8. AckedIsStored' BY <1>1 DEF StoreInv, AckedIsStored
<1>9. ServedInv'
  <2>1. acked \subseteq tab_user \union tab_assets \union tab_browse
        /\ tab_user \subseteq User /\ tab_assets \subseteq Asset /\ tab_browse \subseteq Mark
    BY DEF StoreInv, TypeOK, AckedIsStored
  <2>2. acked \intersect User \subseteq tab_user /\ acked \intersect Asset \subseteq tab_assets
    BY <2>1, RowsDiffer
  <2>3. ASSUME NEW m \in acked \intersect Mark
        PROVE  \E v \in Range(m_cachedUsers') : v.id = m.uID
    <3>1. PICK v \in Range(m_cachedUsers) : v.id = m.uID BY DEF StoreInv, ServedInv
    <3>2. PICK u \in tab_user : SameUser(v, u) BY DEF StoreInv, CachedIsStored
    <3> QED BY <1>2, <3>1, <3>2 DEF SameUser
  <2> QED BY <1>1, <1>2, <2>2, <2>3 DEF ServedInv
<1> QED BY <1>4, <1>5, <1>6, <1>7, <1>8, <1>9 DEF StoreInv

\* Before the first start: nothing is cached.
LEMMA InitStore ==
  ASSUME Init
  PROVE  StoreInv
<1> DEFINE seed == [id |-> 0, name |-> SeedUser, password |-> CHOOSE p \in Passwords : TRUE,
                    sex |-> FALSE]
<1>1. seed \in User BY SeedAssumption DEF User
<1>2. tab_user = {seed} BY DEF Init
<1> HIDE DEF seed
<1>3. tab_user \subseteq User /\ IsFiniteSet(tab_user) /\ Keyed(tab_user)
  BY <1>1, <1>2, FS_Singleton DEF Keyed
<1>4. tab_collect = {} /\ tab_browse = {} /\ acked = {} BY DEF Init
<1>5. tab_collect \subseteq Mark /\ IsFiniteSet(tab_collect) /\ Keyed(tab_collect)
  BY <1>4, FS_EmptySet DEF Keyed
<1>6. tab_assets \subseteq Asset BY SeedAssumption DEF Init, Asset
<1>7. /\ m_cachedUsers = << >> /\ m_cacheAssets = {} /\ m_cacheBrowse = {}
      /\ m_cacheCollect = << >> /\ running = FALSE
  BY DEF Init
<1>8. Range(m_cachedUsers) = {} BY <1>7 DEF Range
<1>9. TypeOK
  <2>1. requests \in Mixes /\ m_mysql = "null" /\ dbUp = TRUE /\ now = 1
        /\ lost = FALSE
    BY DEF Init
  <2>2. now \in 0 .. MaxTime BY <2>1, StampAssumption
  <2>3. m_cachedUsers \in Seq(User) /\ m_cacheCollect \in Seq(Mark) BY <1>7
  <2>4. m_cacheAssets \subseteq Asset /\ m_cacheBrowse \subseteq Mark /\ running \in BOOLEAN
    BY <1>7
  <2> QED BY <1>3, <1>4, <1>6, <2>1, <2>2, <2>3, <2>4 DEF TypeOK
<1>10. KeyInv BY <1>3, <1>5 DEF KeyInv
<1>11. CachedIsStored BY <1>7, <1>8 DEF CachedIsStored
<1>12. StoredIsCached BY <1>7 DEF StoredIsCached
<1>13. AckedIsStored /\ ServedInv BY <1>4 DEF AckedIsStored, ServedInv
<1> QED BY <1>9, <1>10, <1>11, <1>12, <1>13 DEF StoreInv

\* The queries of GetHistoryInfoFromDB and GetCollectInfoFromDB only touch the handle.
LEMMA QueryStep ==
  ASSUME StoreInv, NEW n, QueryMarks(n)
  PROVE  StoreInv'
<1>1. PICK r \in Execute(TRUE) : m_mysql' = r.link BY DEF QueryMarks
<1>2. r.link \in {"up", "stale", "null"} BY ExecuteFacts
<1>3. UNCHANGED <<tables, caches, requests, dbUp, running, now, acked, lost>>
  BY DEF QueryMarks, env
<1> QED BY <1>1, <1>2, <1>3, DataUnchanged DEF StoreInv, TypeOK

\* The database server, the clock and the end of the process.
LEMMA EnvironmentStep ==
  ASSUME StoreInv, Environment \/ QueryNull
  PROVE  StoreInv'
<1> USE DEF StoreInv, TypeOK
<1>1. CASE DbStops BY <1>1, DataUnchanged DEF DbStops
<1>2. CASE DbStarts BY <1>2, DataUnchanged DEF DbStarts
<1>3. CASE DbHangsUp
  <2>1. UNCHANGED <<tables, caches, requests, dbUp, running, now, acked, lost>>
        /\ m_mysql' = "stale"
    BY <1>3 DEF DbHangsUp, env
  <2> QED BY <2>1, DataUnchanged
<1>4. CASE Kill BY <1>4, DataUnchanged DEF Kill
<1>5. CASE Tick
  <2>1. UNCHANGED <<requests, tables, caches, m_mysql, dbUp, running, acked, lost>>
        /\ now < MaxTime /\ now' = now + 1
    BY <1>5 DEF Tick
  <2>2. now' \in 0 .. MaxTime BY <2>1, StampAssumption
  <2> QED BY <2>1, <2>2, DataUnchanged
<1>6. CASE QueryNull BY <1>6, DataUnchanged DEF QueryNull
<1> QED BY <1>1, <1>2, <1>3, <1>4, <1>5, <1>6 DEF Environment

-----------------------------------------------------------------------------
(* Theorems *)

\* The inductive invariant holds, whatever fails and however often the process
\* dies and starts again.
THEOREM StoreInvariant == Spec => []StoreInv
<1>1. Init => StoreInv BY InitStore
<1>2. StoreInv /\ [Next]_vars => StoreInv'
  <2> SUFFICES ASSUME StoreInv, [Next]_vars PROVE StoreInv' OBVIOUS
  <2>1. CASE Request
    <3>1. PICK n \in Names :
            \/ \E p \in Passwords, x \in BOOLEAN : Register(n, p, x)
            \/ \E k \in Kinds, t \in Titles : Upload(n, k, t) \/ AddHistory(n, k, t)
                                            \/ AddCollect(n, k, t) \/ RemoveCollect(n, k, t)
            \/ QueryMarks(n)
      BY <2>1 DEF Request, OnGetHistoryInfoResponse, OnGetCollectInfoResponse
    <3> QED
      BY <3>1, RegisterStep, UploadStep, AddHistoryStep, AddCollectStep, RemoveCollectStep,
         QueryStep
  <2>2. CASE Environment \/ QueryNull BY <2>2, EnvironmentStep
  <2>3. CASE Restart BY <2>3, RestartStep
  <2>4. CASE UNCHANGED vars
    <3>1. UNCHANGED <<requests, tables, caches, m_mysql, dbUp, running, now, acked, lost>>
      BY <2>4 DEF vars
    <3> QED BY <3>1, DataUnchanged DEF StoreInv, TypeOK
  <2> QED BY <2>1, <2>2, <2>3, <2>4 DEF Next
<1> QED BY <1>1, <1>2, PTL DEF Spec

\* The caches never show a row the database does not have, and miss one only after
\* the answer to a statement was lost.
THEOREM CachesAgree == Spec => []CacheConsistent
<1>1. StoreInv => CacheConsistent BY DEF StoreInv, CacheConsistent
<1> QED BY <1>1, StoreInvariant, PTL

\* No acknowledged registration, upload or visit is ever missing from the database.
THEOREM AcknowledgedIsKept == Spec => []AckedIsStored
<1>1. StoreInv => AckedIsStored BY DEF StoreInv
<1> QED BY <1>1, StoreInvariant, PTL

\* An acknowledged user can log in, an acknowledged upload is listed and an
\* acknowledged visit is in the history, whenever the process runs; the history if the
\* database answers the query for it.
THEOREM AcknowledgedIsServed == Spec => []AckedIsServed
<1>1. ASSUME StoreInv PROVE AckedIsServed
  <2>1. ASSUME NEW u \in SoleUsers,
               \E v \in Range(m_cachedUsers) : v.name = u.name
        PROVE  /\ GetUserInfoByUsername(u.name) # Nobody
               /\ SameUser(GetUserInfoByUsername(u.name), u)
    <3> DEFINE w == GetUserInfoByUsername(u.name)
    <3>1. w \in Range(m_cachedUsers) /\ w # Nobody /\ w.name = u.name
      BY <1>1, <2>1, FoundUser DEF StoreInv
    <3> HIDE DEF w
    <3>2. PICK v \in tab_user : SameUser(w, v) BY <1>1, <3>1 DEF StoreInv, CachedIsStored
    <3>3. v = u BY <3>1, <3>2 DEF SoleUsers, SameUser
    <3> QED BY <3>1, <3>2, <3>3 DEF w
  <2>2. RegisteredCanLogin
    <3> SUFFICES ASSUME NEW u \in acked \intersect SoleUsers
                 PROVE  LoginState(u.name, u.password) = 1
      BY DEF RegisteredCanLogin
    <3>1. u \in User BY <1>1 DEF StoreInv, TypeOK, SoleUsers
    <3>2. \E v \in Range(m_cachedUsers) : v.name = u.name
      BY <1>1, <3>1 DEF StoreInv, ServedInv, SameUser
    <3> QED BY <2>1, <3>2 DEF LoginState, SameUser
  <2>3. UploadsListed
    <3> SUFFICES ASSUME NEW a \in acked \intersect tab_assets PROVE a \in m_cacheAssets
      BY DEF UploadsListed, OnGetNotmalInfoResponse, OnGetDynamicInfoResponse,
             GetDynamicInfoFromDB
    <3>1. a \in Asset BY <1>1 DEF StoreInv, TypeOK
    <3> QED BY <1>1, <3>1 DEF StoreInv, ServedInv
  <2>4. VisitsListed
    <3> SUFFICES ASSUME NEW r \in Execute(TRUE), r.ok,
                        NEW m \in acked \intersect tab_browse, NEW u \in SoleUsers, m.uID = u.id
                 PROVE  Named(m) \subseteq GetHistoryInfoFromDB(u.name, r)
      BY DEF VisitsListed
    <3>1. m \in Mark BY <1>1 DEF StoreInv, TypeOK
    <3>2. PICK v \in Range(m_cachedUsers) : v.id = m.uID BY <1>1, <3>1 DEF StoreInv, ServedInv
    <3>3. PICK s \in tab_user : SameUser(v, s) BY <1>1 DEF StoreInv, CachedIsStored
    <3>4. s = u BY <1>1, <3>2, <3>3 DEF StoreInv, KeyInv, Keyed, SoleUsers, SameUser
    <3>5. v.name = u.name BY <3>3, <3>4 DEF SameUser
    <3>6. /\ GetUserInfoByUsername(u.name) # Nobody
          /\ GetUserInfoByUsername(u.name).id = u.id
      BY <2>1, <3>5 DEF SameUser
    <3>7. m \in {b \in tab_browse : b.uID = GetUserInfoByUsername(u.name).id} BY <3>6
    <3> QED BY <3>6, <3>7 DEF GetHistoryInfoFromDB
  <2> QED BY <2>2, <2>3, <2>4 DEF AckedIsServed
<1> QED BY <1>1, StoreInvariant, PTL

-----------------------------------------------------------------------------
(* MySqlSchema *)

\* The n tables checked first are there, the others are still to be checked; Init has
\* succeeded when all are.
CheckedInv ==
  \E n \in 0 .. 6 :
    /\ todo = SubSeq(CheckOrder, n + 1, 6)
    /\ \A i \in 1 .. n : CheckOrder[i] \in DOMAIN schema
    /\ pc = "ok" <=> n = 6

\* A column is only added to or modified in a table that is there.
AlteredInv == pc \in {"add", "modify"} => Head(todo) \in DOMAIN schema

SchemaInv == SchemaTypeOK /\ CheckedInv /\ AlteredInv /\ InitSucceeds

-----------------------------------------------------------------------------

\* The order of the checks: tab_user first, every table among them.
LEMMA OrderFacts ==
  /\ CheckOrder \in Seq(Tables) /\ Len(CheckOrder) = 6
  /\ CheckOrder[1] = "tab_user"
  /\ \A t \in Tables : \E i \in 1 .. 6 : CheckOrder[i] = t
<1>1. Tables = {"tab_assetsCollect", "tab_audioData", "tab_browseRecords", "tab_user", "tab_videoData"}
  BY DEF Tables, m_mapTable
<1> DEFINE u == <<"tab_user">>
<1>2. /\ TableOrder \in Seq(Tables) /\ Len(TableOrder) = 5
      /\ TableOrder[1] = "tab_assetsCollect" /\ TableOrder[2] = "tab_audioData"
      /\ TableOrder[3] = "tab_browseRecords" /\ TableOrder[4] = "tab_user"
      /\ TableOrder[5] = "tab_videoData"
  BY <1>1 DEF TableOrder
<1>3. u \in Seq(Tables) /\ Len(u) = 1 /\ u[1] = "tab_user" BY <1>1
<1>4. CheckOrder = u \o TableOrder BY DEF CheckOrder
<1> HIDE DEF u
<1>5. /\ CheckOrder \in Seq(Tables) /\ Len(CheckOrder) = 6
      /\ \A i \in 1 .. 6 : CheckOrder[i] = IF i <= 1 THEN u[i] ELSE TableOrder[i - 1]
  <2>1. /\ u \o TableOrder \in Seq(Tables)
        /\ Len(u \o TableOrder) = Len(u) + Len(TableOrder)
        /\ \A i \in 1 .. Len(u) + Len(TableOrder) :
             (u \o TableOrder)[i] = IF i <= Len(u) THEN u[i] ELSE TableOrder[i - Len(u)]
    BY <1>2, <1>3, ConcatProperties
  <2> QED BY <1>2, <1>3, <1>4, <2>1
<1>6. /\ CheckOrder[1] = "tab_user"
      /\ CheckOrder[2] = "tab_assetsCollect" /\ CheckOrder[3] = "tab_audioData"
      /\ CheckOrder[4] = "tab_browseRecords" /\ CheckOrder[5] = "tab_user"
      /\ CheckOrder[6] = "tab_videoData"
  <2> DEFINE v(i) == IF i <= 1 THEN u[i] ELSE TableOrder[i - 1]
  <2>1. \A i \in 1 .. 6 : CheckOrder[i] = v(i) BY <1>5
  <2>2. /\ v(1) = u[1] /\ v(2) = TableOrder[1] /\ v(3) = TableOrder[2]
        /\ v(4) = TableOrder[3] /\ v(5) = TableOrder[4] /\ v(6) = TableOrder[5]
    OBVIOUS
  <2> HIDE DEF v
  <2>3. /\ CheckOrder[1] = v(1) /\ CheckOrder[2] = v(2) /\ CheckOrder[3] = v(3)
        /\ CheckOrder[4] = v(4) /\ CheckOrder[5] = v(5) /\ CheckOrder[6] = v(6)
    BY <2>1
  <2> QED BY <1>2, <1>3, <2>2, <2>3
<1> QED BY <1>1, <1>5, <1>6

\* Where the list of tables still to be checked ends.
LEMMA RestFacts ==
  /\ SubSeq(CheckOrder, 7, 6) = << >>
  /\ SubSeq(CheckOrder, 1, 6) = CheckOrder
  /\ \A n \in 0 .. 5 :
       /\ SubSeq(CheckOrder, n + 1, 6) # << >>
       /\ Head(SubSeq(CheckOrder, n + 1, 6)) = CheckOrder[n + 1]
       /\ Tail(SubSeq(CheckOrder, n + 1, 6)) = SubSeq(CheckOrder, n + 2, 6)
       /\ CheckOrder[n + 1] \in Tables
<1>1. CheckOrder \in Seq(Tables) /\ Len(CheckOrder) = 6 BY OrderFacts
<1>2. SubSeq(CheckOrder, 7, 6) = << >> BY <1>1, SubSeqEmpty
<1>3. SubSeq(CheckOrder, 1, 6) = CheckOrder BY <1>1, SubSeqFull
<1>4. ASSUME NEW n \in 0 .. 5
      PROVE  /\ SubSeq(CheckOrder, n + 1, 6) # << >>
             /\ Head(SubSeq(CheckOrder, n + 1, 6)) = CheckOrder[n + 1]
             /\ Tail(SubSeq(CheckOrder, n + 1, 6)) = SubSeq(CheckOrder, n + 2, 6)
             /\ CheckOrder[n + 1] \in Tables
  <2>1. /\ n + 1 \in 1 .. Len(CheckOrder) /\ 6 \in (n + 1) .. Len(CheckOrder)
        /\ n + 1 + 1 = n + 2
    BY <1>1
  <2>2. Len(SubSeq(CheckOrder, n + 1, 6)) = 6 - n BY <1>1
  <2>3. /\ Head(SubSeq(CheckOrder, n + 1, 6)) = CheckOrder[n + 1]
        /\ Tail(SubSeq(CheckOrder, n + 1, 6)) = SubSeq(CheckOrder, n + 2, 6)
    BY <1>1, <2>1, HeadTailOfSubSeq
  <2>4. SubSeq(CheckOrder, n + 1, 6) # << >>
    <3> DEFINE q == SubSeq(CheckOrder, n + 1, 6)
    <3>1. Len(q) = 6 - n /\ Len(<< >>) = 0 BY <2>2
    <3> HIDE DEF q
    <3>2. q # << >> BY <3>1
    <3> QED BY <3>2 DEF q
  <2>5. CheckOrder[n + 1] \in Tables BY <1>1, <2>1, ElementOfSeq
  <2> QED BY <2>3, <2>4, <2>5
<1> QED BY <1>2, <1>3, <1>4

\* A declared table as the database lists it.
LEMMA DeclaredColumns ==
  ASSUME NEW t \in Tables
  PROVE  m_mapTable[t] \in Seq(Range(m_mapTable[t]) \cup {Foreign})
<1> DEFINE q == m_mapTable[t]
<1>1. \E n \in Nat : q = [i \in 1 .. n |-> q[i]]
  <2>1. t \in {"tab_assetsCollect", "tab_audioData", "tab_browseRecords", "tab_user",
               "tab_videoData"}
    BY DEF Tables, m_mapTable
  <2>2. CASE t = "tab_assetsCollect"
    <3>1. q = [i \in 1 .. 9 |-> q[i]] BY <2>2 DEF m_mapTable
    <3> QED BY <3>1
  <2>3. CASE t = "tab_audioData"
    <3>1. q = [i \in 1 .. 7 |-> q[i]] BY <2>3 DEF m_mapTable
    <3> QED BY <3>1
  <2>4. CASE t = "tab_browseRecords" \/ t = "tab_user"
    <3>1. q = [i \in 1 .. 5 |-> q[i]] BY <2>4 DEF m_mapTable
    <3> QED BY <3>1
  <2>5. CASE t = "tab_videoData"
    <3>1. q = [i \in 1 .. 8 |-> q[i]] BY <2>5 DEF m_mapTable
    <3> QED BY <3>1
  <2> QED BY <2>1, <2>2, <2>3, <2>4, <2>5
<1> HIDE DEF q
<1>2. q \in Seq(Range(q) \cup {Foreign}) BY <1>1 DEF Range
<1> QED BY <1>2 DEF q

-----------------------------------------------------------------------------
(* The steps of MySqlManager::Init *)

\* The tables an earlier start left have declared columns, but for one.
LEMMA LeftoverTypes ==
  ASSUME SchemaInit
  PROVE  /\ DOMAIN schema \subseteq Tables
         /\ \A t \in DOMAIN schema : schema[t] \in Seq(Range(m_mapTable[t]) \cup {Foreign})
<1> PICK made \in SUBSET Tables :
      LET asMade == [t \in made |-> m_mapTable[t]] IN
      \/ schema = asMade
      \/ \E t \in made : \E i \in DOMAIN m_mapTable[t] :
           schema = [asMade EXCEPT ![t] = RemoveAt(@, i)]
      \/ \E t \in made : InitialForeign /\ schema = [asMade EXCEPT ![t] = Append(@, Foreign)]
  BY DEF SchemaInit
<1> DEFINE asMade == [t \in made |-> m_mapTable[t]]
           Cols(t) == Range(m_mapTable[t]) \cup {Foreign}
<1>1. \A t \in made : asMade[t] \in Seq(Cols(t)) BY DeclaredColumns
<1>2. CASE schema = asMade BY <1>1, <1>2
<1>3. ASSUME NEW t \in made, NEW i \in DOMAIN m_mapTable[t],
             schema = [asMade EXCEPT ![t] = RemoveAt(@, i)]
      PROVE  DOMAIN schema = made /\ \A s \in made : schema[s] \in Seq(Cols(s))
  <2>1. m_mapTable[t] \in Seq(Cols(t)) BY DeclaredColumns
  <2>2. RemoveAt(m_mapTable[t], i) \in Seq(Cols(t))
    <3> DEFINE C == Cols(t)
               q == m_mapTable[t]
    <3>1. q \in Seq(C) /\ i \in 1 .. Len(q) /\ Len(q) \in Nat BY <2>1
    <3> HIDE DEF C, q
    <3>2. SubSeq(q, 1, i - 1) \in Seq(C) /\ SubSeq(q, i + 1, Len(q)) \in Seq(C) BY <3>1
    <3>3. RemoveAt(q, i) \in Seq(C) BY <3>2 DEF RemoveAt
    <3> QED BY <3>3 DEF C, q
  <2>3. schema = [s \in made |-> IF s = t THEN RemoveAt(m_mapTable[t], i) ELSE m_mapTable[s]]
    BY <1>3
  <2> HIDE DEF Cols
  <2> QED BY <1>1, <2>2, <2>3
<1>4. ASSUME NEW t \in made, schema = [asMade EXCEPT ![t] = Append(@, Foreign)]
      PROVE  DOMAIN schema = made /\ \A s \in made : schema[s] \in Seq(Cols(s))
  <2>1. m_mapTable[t] \in Seq(Cols(t)) BY DeclaredColumns
  <2>2. Append(m_mapTable[t], Foreign) \in Seq(Cols(t)) BY <2>1
  <2>3. schema = [s \in made |-> IF s = t THEN Append(m_mapTable[t], Foreign) ELSE m_mapTable[s]]
    BY <1>4
  <2> HIDE DEF Cols
  <2> QED BY <1>1, <2>2, <2>3
<1> QED BY <1>2, <1>3, <1>4

\* Where Init stands: the tables before the n-th are there.
LEMMA CheckedFacts ==
  ASSUME CheckedInv, pc # "ok"
  PROVE  \E n \in 0 .. 5 :
           /\ todo = SubSeq(CheckOrder, n + 1, 6)
           /\ \A i \in 1 .. n : CheckOrder[i] \in DOMAIN schema
           /\ Head(todo) = CheckOrder[n + 1] /\ Head(todo) \in Tables
           /\ Tail(todo) = SubSeq(CheckOrder, n + 2, 6)
           /\ Tail(todo) = << >> <=> n = 5
           /\ n > 0 => "tab_user" \in DOMAIN schema
<1> PICK n \in 0 .. 6 :
      /\ todo = SubSeq(CheckOrder, n + 1, 6)
      /\ \A i \in 1 .. n : CheckOrder[i] \in DOMAIN schema
      /\ pc = "ok" <=> n = 6
  BY DEF CheckedInv
<1>1. n \in 0 .. 5 OBVIOUS
<1>2. /\ Head(todo) = CheckOrder[n + 1] /\ Head(todo) \in Tables
      /\ Tail(todo) = SubSeq(CheckOrder, n + 2, 6)
  BY <1>1, RestFacts
<1>3. Tail(todo) = << >> <=> n = 5
  <2>1. n = 5 => Tail(todo) = << >> BY <1>2, RestFacts
  <2>2. n # 5 => Tail(todo) # << >>
    <3> SUFFICES ASSUME n # 5 PROVE SubSeq(CheckOrder, n + 2, 6) # << >> BY <1>2
    <3>1. n + 1 \in 0 .. 5 /\ (n + 1) + 1 = n + 2 BY <1>1
    <3> QED BY <3>1, RestFacts
  <2> QED BY <2>1, <2>2
<1>4. n > 0 => "tab_user" \in DOMAIN schema
  <2>1. n > 0 => 1 \in 1 .. n OBVIOUS
  <2> QED BY <2>1, OrderFacts
<1> QED BY <1>1, <1>2, <1>3, <1>4

\* The check of a table is over: it is there, and it was the next one.
LEMMA NextTableFacts ==
  ASSUME SchemaInv, pc # "ok", NextTable, DOMAIN schema \subseteq DOMAIN schema',
         Head(todo) \in DOMAIN schema'
  PROVE  /\ CheckedInv' /\ pc' \in {"ok", "desc"}
         /\ \E n \in 0 .. Len(CheckOrder) : todo' = SubSeq(CheckOrder, n + 1, Len(CheckOrder))
<1> PICK n \in 0 .. 5 :
           /\ \A i \in 1 .. n : CheckOrder[i] \in DOMAIN schema
           /\ Head(todo) = CheckOrder[n + 1]
           /\ Tail(todo) = SubSeq(CheckOrder, n + 2, 6)
           /\ Tail(todo) = << >> <=> n = 5
  BY CheckedFacts DEF SchemaInv
<1>1. pc' \in {"ok", "desc"} /\ (pc' = "ok" <=> n + 1 = 6)
  <2>1. pc' = IF Tail(todo) = << >> THEN "ok" ELSE "desc" BY DEF NextTable
  <2>2. n = 5 <=> n + 1 = 6 OBVIOUS
  <2> QED BY <2>1, <2>2
<1>2. todo' = SubSeq(CheckOrder, (n + 1) + 1, 6) /\ n + 1 \in 0 .. 6
  <2>1. (n + 1) + 1 = n + 2 OBVIOUS
  <2> QED BY <2>1 DEF NextTable
<1>3. \A i \in 1 .. (n + 1) : CheckOrder[i] \in DOMAIN schema'
  <2> TAKE i \in 1 .. (n + 1)
  <2>1. i \in 1 .. n \/ i = n + 1 OBVIOUS
  <2> QED BY <2>1
<1>4. CheckedInv' BY <1>1, <1>2, <1>3 DEF CheckedInv
<1> QED BY <1>1, <1>2, <1>4, OrderFacts

\* A step that neither ends a check nor touches the tables.
LEMMA StayFacts ==
  ASSUME SchemaInv, UNCHANGED <<schema, todo>>, pc # "ok", pc' # "ok"
  PROVE  CheckedInv'
<1> PICK n \in 0 .. 6 :
      /\ todo = SubSeq(CheckOrder, n + 1, 6)
      /\ \A i \in 1 .. n : CheckOrder[i] \in DOMAIN schema
      /\ pc = "ok" <=> n = 6
  BY DEF SchemaInv, CheckedInv
<1> QED BY DEF CheckedInv

\* What the program sets has its type when the tables and the list do.
LEMMA OtherTypes ==
  ASSUME SchemaInv,
         /\ UNCHANGED <<database, schema, todo, starts>>
         /\ faulted' \in BOOLEAN
         /\ pc' \in {"connect", "database", "desc", "add", "modify", "create", "createAgain",
                     "ok", "failed", "hung"}
  PROVE  SchemaTypeOK'
BY DEF SchemaInv, SchemaTypeOK

\* A statement that cannot be sent.
LEMMA FaultStep ==
  ASSUME SchemaInv, NEW p \in {"create", "createAgain", "failed"}, Fault(p), pc # "ok"
  PROVE  SchemaInv'
<1>1. faulted' = TRUE /\ pc' = p /\ UNCHANGED <<database, schema, todo, starts>> BY DEF Fault
<1>2. SchemaTypeOK' BY <1>1, OtherTypes
<1>3. CheckedInv' BY <1>1, StayFacts
<1> QED BY <1>1, <1>2, <1>3 DEF SchemaInv, AlteredInv, InitSucceeds

\* CheckTable.
LEMMA DescStep == ASSUME SchemaInv, Desc PROVE SchemaInv'
<1>1. pc = "desc" /\ UNCHANGED <<database, schema, odd, faulted, starts>> BY DEF Desc
<1>2. CASE Table \in DOMAIN schema /\ NextTable
  <2>1. /\ CheckedInv' /\ pc' \in {"ok", "desc"}
        /\ \E n \in 0 .. Len(CheckOrder) : todo' = SubSeq(CheckOrder, n + 1, Len(CheckOrder))
    BY <1>1, <1>2, NextTableFacts DEF Table
  <2>2. SchemaTypeOK' BY <1>1, <2>1 DEF SchemaInv, SchemaTypeOK
  <2> QED BY <1>1, <2>1, <2>2 DEF SchemaInv, AlteredInv, InitSucceeds
<1>3. CASE UNCHANGED todo /\ pc' \in {"create", "hung", "add", "modify"}
           /\ (pc' \in {"add", "modify"} => Table \in DOMAIN schema)
  <2>1. SchemaTypeOK' BY <1>1, <1>3, OtherTypes DEF SchemaInv, SchemaTypeOK
  <2>2. CheckedInv' BY <1>1, <1>3, StayFacts
  <2> QED BY <1>1, <1>3, <2>1, <2>2 DEF SchemaInv, AlteredInv, InitSucceeds, Table
<1> QED BY <1>2, <1>3 DEF Desc

\* "create table if not exists" finds tab_user, or makes it; another table it refuses
\* for a tab_user that was left without u_id.
LEMMA CreateStep == ASSUME SchemaInv, CreateTable PROVE SchemaInv'
<1>1. pc \in {"create", "createAgain"} /\ UNCHANGED <<database, faulted, starts>>
  BY DEF CreateTable
<1>2. Table \in Tables /\ (Creatable(Table) \/ ~Referable)
  <2> PICK n \in 0 .. 5 :
        /\ Head(todo) = CheckOrder[n + 1] /\ Head(todo) \in Tables
        /\ n > 0 => "tab_user" \in DOMAIN schema
    BY <1>1, CheckedFacts DEF SchemaInv
  <2>1. n = 0 => Head(todo) = "tab_user" BY OrderFacts
  <2>2. n = 0 \/ n > 0 OBVIOUS
  <2> QED BY <2>1, <2>2 DEF Creatable, Referable, Table
<1>3. CASE ~Creatable(Table)
  <2>1. pc' \in {"createAgain", "failed"} /\ UNCHANGED <<schema, todo>>
    BY <1>3, <1>1 DEF CreateTable
  <2>2. SchemaTypeOK' BY <1>1, <2>1, OtherTypes DEF SchemaInv, SchemaTypeOK
  <2>3. CheckedInv' BY <1>1, <2>1, StayFacts
  <2>4. ~Referable' BY <1>3, <1>2, <2>1 DEF Referable
  <2> QED BY <2>1, <2>2, <2>3, <2>4 DEF SchemaInv, AlteredInv, InitSucceeds
<1> SUFFICES ASSUME Creatable(Table) PROVE SchemaInv' BY <1>3
<1>4. /\ schema' = [t \in DOMAIN schema \cup {Table} |->
                     IF t \in DOMAIN schema THEN schema[t] ELSE m_mapTable[t]]
      /\ NextTable
  BY <1>2 DEF CreateTable
<1>5. DOMAIN schema' = DOMAIN schema \cup {Table} BY <1>4
<1>6. /\ CheckedInv' /\ pc' \in {"ok", "desc"}
      /\ \E n \in 0 .. Len(CheckOrder) : todo' = SubSeq(CheckOrder, n + 1, Len(CheckOrder))
  BY <1>1, <1>4, <1>5, NextTableFacts DEF Table
<1>7. /\ DOMAIN schema' \subseteq Tables
      /\ \A t \in DOMAIN schema' : schema'[t] \in Seq(Range(m_mapTable[t]) \cup {Foreign})
  <2>1. /\ DOMAIN schema \subseteq Tables
        /\ \A t \in DOMAIN schema : schema[t] \in Seq(Range(m_mapTable[t]) \cup {Foreign})
    BY DEF SchemaInv, SchemaTypeOK
  <2>2. DOMAIN schema' \subseteq Tables BY <1>2, <1>5, <2>1
  <2>3. ASSUME NEW t \in DOMAIN schema'
        PROVE  schema'[t] \in Seq(Range(m_mapTable[t]) \cup {Foreign})
    <3>1. t \in Tables BY <2>2
    <3>2. CASE t \in DOMAIN schema BY <1>4, <2>1, <3>2
    <3>3. CASE t \notin DOMAIN schema
      <4>1. schema'[t] = m_mapTable[t] BY <1>4, <1>5, <2>3, <3>3
      <4> QED BY <3>1, <4>1, DeclaredColumns
    <3> QED BY <3>2, <3>3
  <2> QED BY <2>2, <2>3
<1>8. SchemaTypeOK' BY <1>1, <1>6, <1>7 DEF SchemaInv, SchemaTypeOK
<1> QED BY <1>6, <1>8 DEF SchemaInv, AlteredInv, InitSucceeds

\* One statement, or a new start, keeps the invariant.
LEMMA SchemaStep == ASSUME SchemaInv, [SchemaNext]_schemaVars PROVE SchemaInv'
<1>1. CASE Connect
  <2>1. CASE Fault("failed") BY <1>1, <2>1, FaultStep DEF Connect
  <2>2. CASE ~Fault("failed")
    <3>1. /\ pc = "connect" /\ pc' = IF database THEN "database" ELSE "failed"
          /\ UNCHANGED <<database, schema, odd, todo, mapChange, faulted, starts>>
      BY <1>1, <2>2 DEF Connect
    <3>2. SchemaTypeOK' BY <3>1, OtherTypes DEF SchemaInv, SchemaTypeOK
    <3>3. CheckedInv' BY <3>1, StayFacts
    <3> QED BY <3>1, <3>2, <3>3 DEF SchemaInv, AlteredInv, InitSucceeds
  <2> QED BY <2>1, <2>2
<1>2. CASE CheckDatabase
  <2>1. CASE Fault("failed") BY <1>2, <2>1, FaultStep DEF CheckDatabase
  <2>2. CASE ~Fault("failed")
    <3>1. /\ pc = "database" /\ pc' = "desc"
          /\ UNCHANGED <<database, schema, odd, todo, mapChange, faulted, starts>>
      BY <1>2, <2>2 DEF CheckDatabase
    <3>2. SchemaTypeOK' BY <3>1, OtherTypes DEF SchemaInv, SchemaTypeOK
    <3>3. CheckedInv' BY <3>1, StayFacts
    <3> QED BY <3>1, <3>2, <3>3 DEF SchemaInv, AlteredInv, InitSucceeds
  <2> QED BY <2>1, <2>2
<1>3. CASE Desc BY <1>3, DescStep
<1>4. CASE DescFails BY <1>4, FaultStep DEF DescFails
<1>5. CASE AddColumn
  <2>1. /\ pc = "add" /\ pc' = "createAgain"
        /\ UNCHANGED <<database, schema, todo, faulted, starts>>
    BY <1>5 DEF AddColumn
  <2>2. SchemaTypeOK' BY <2>1, OtherTypes DEF SchemaInv, SchemaTypeOK
  <2>3. CheckedInv' BY <2>1, StayFacts
  <2> QED BY <2>1, <2>2, <2>3 DEF SchemaInv, AlteredInv, InitSucceeds
<1>6. CASE ModifyColumn
  <2>1. pc = "modify" /\ UNCHANGED <<database, schema, starts>> BY <1>6 DEF ModifyColumn
  <2>2. CASE NextTable /\ UNCHANGED faulted
    <3>1. Head(todo) \in DOMAIN schema BY <2>1 DEF SchemaInv, AlteredInv
    <3>2. /\ CheckedInv' /\ pc' \in {"ok", "desc"}
          /\ \E n \in 0 .. Len(CheckOrder) : todo' = SubSeq(CheckOrder, n + 1, Len(CheckOrder))
      BY <2>1, <2>2, <3>1, NextTableFacts
    <3>3. SchemaTypeOK' BY <2>1, <2>2, <3>2 DEF SchemaInv, SchemaTypeOK
    <3> QED BY <3>2, <3>3 DEF SchemaInv, AlteredInv, InitSucceeds
  <2>3. CASE faulted' = TRUE /\ pc' = "createAgain" /\ UNCHANGED todo
    <3>1. SchemaTypeOK' BY <2>1, <2>3, OtherTypes
    <3>2. CheckedInv' BY <2>1, <2>3, StayFacts
    <3> QED BY <2>3, <3>1, <3>2 DEF SchemaInv, AlteredInv, InitSucceeds
  <2> QED BY <1>6, <2>2, <2>3 DEF ModifyColumn
<1>7. CASE CreateTable BY <1>7, CreateStep
<1>8. CASE CreateTableFails BY <1>8, FaultStep DEF CreateTableFails
<1>9. CASE SchemaRestart
  <2>1. /\ todo' = CheckOrder /\ pc' = "connect" /\ faulted' = FALSE /\ starts' = starts + 1
        /\ starts < MaxStarts /\ UNCHANGED <<database, schema>>
    BY <1>9 DEF SchemaRestart
  <2>2. todo' = SubSeq(CheckOrder, 0 + 1, 6) BY <2>1, RestFacts
  <2>3. CheckedInv' BY <2>1, <2>2 DEF CheckedInv
  <2>4. starts' \in 1 .. MaxStarts BY <2>1, StartsAssumption DEF SchemaInv, SchemaTypeOK
  <2>5. \E n \in 0 .. Len(CheckOrder) : todo' = SubSeq(CheckOrder, n + 1, Len(CheckOrder))
    BY <2>2, OrderFacts
  <2>6. SchemaTypeOK' BY <2>1, <2>4, <2>5 DEF SchemaInv, SchemaTypeOK
  <2> QED BY <2>1, <2>3, <2>6 DEF SchemaInv, AlteredInv, InitSucceeds
<1>10. CASE UNCHANGED schemaVars
  BY <1>10 DEF schemaVars, SchemaInv, SchemaTypeOK, CheckedInv, AlteredInv, InitSucceeds,
                  Referable
<1> QED BY <1>1, <1>2, <1>3, <1>4, <1>5, <1>6, <1>7, <1>8, <1>9, <1>10 DEF SchemaNext, Step

\* However often the server was killed, restarted or cut off from its database, and
\* whatever tables that left: MySqlManager::Init fails only for lack of the database, of a
\* connection or of the column u_id the other tables refer to, and when it succeeds all
\* tables are there.
THEOREM StartsAreSound == SchemaSpec => []StartsSound
<1>1. SchemaInit => SchemaInv
  <2> SUFFICES ASSUME SchemaInit PROVE SchemaInv OBVIOUS
  <2>1. /\ database = InitialDatabase /\ pc = "connect" /\ todo = CheckOrder
        /\ faulted = FALSE /\ starts = 1
    BY DEF SchemaInit
  <2>2. todo = SubSeq(CheckOrder, 0 + 1, 6) BY <2>1, RestFacts
  <2>3. CheckedInv BY <2>1, <2>2 DEF CheckedInv
  <2>4. \E n \in 0 .. Len(CheckOrder) : todo = SubSeq(CheckOrder, n + 1, Len(CheckOrder))
    BY <2>2, OrderFacts
  <2>5. SchemaTypeOK
    <3>1. database \in BOOLEAN BY <2>1, InitialAssumption
    <3>2. starts \in 1 .. MaxStarts BY <2>1, StartsAssumption
    <3> QED BY <2>1, <2>4, <3>1, <3>2, LeftoverTypes DEF SchemaTypeOK
  <2> QED BY <2>1, <2>3, <2>5 DEF SchemaInv, AlteredInv, InitSucceeds
<1>2. SchemaInv /\ [SchemaNext]_schemaVars => SchemaInv' BY SchemaStep
<1>3. SchemaInv => StartsSound
  <2> SUFFICES ASSUME SchemaInv, pc = "ok" PROVE DOMAIN schema = Tables
    BY DEF SchemaInv, StartsSound, OkMeansTables
  <2>1. \A i \in 1 .. 6 : CheckOrder[i] \in DOMAIN schema BY DEF SchemaInv, CheckedInv
  <2>2. DOMAIN schema \subseteq Tables BY DEF SchemaInv, SchemaTypeOK
  <2> QED BY <2>1, <2>2, OrderFacts
<1> QED BY <1>1, <1>2, <1>3, PTL DEF SchemaSpec

=============================================================================
