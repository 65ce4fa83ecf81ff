---------------------------- MODULE AccessProofs ----------------------------
(***************************************************************************)
(* Users, sessions, households and members, for any number of emails and   *)
(* of simultaneous requests, any cap on the sessions and any bounds.       *)
(***************************************************************************)
EXTENDS Access, FiniteSetTheorems, WellFoundedInduction, TLAPS

\* A table's ids are taken in order and never freed
Table(t, Rows) == \E n \in 0..MaxRows : t \in [1..n -> Rows]

Tabled ==
    /\ Table(users, Emails)
    /\ Table(tokens, TokenRows)
    /\ Table(households, HouseholdRows)
    /\ Table(members, MemberRows)
    /\ Table(children, ChildRows)
    /\ \A m \in DOMAIN members : members[m].hh \in DOMAIN households

Busy(w, kinds) == pc[w] # "idle" /\ job[w].kind \in kinds

\* What a request works on exists, and what it is about to delete is what it may delete
KnowsRows(w) ==
    /\ Busy(w, {"register"}) => job[w].key \in Emails
    /\ Busy(w, {"login", "create"}) => job[w].key \in DOMAIN users
    /\ Busy(w, {"add", "child"}) => job[w].key \in (DOMAIN households) \X (DOMAIN users)
    /\ Busy(w, {"add"}) => job[w].key[2] # households[job[w].key[1]].owner
    /\ Busy(w, {"remove"}) =>
         \A m \in job[w].ids : m \in DOMAIN members /\ members[m].user # households[members[m].hh].owner
    /\ Busy(w, {"delete"}) =>
         /\ job[w].key \in DOMAIN households
         /\ \A y \in job[w].ids : y[1] = "member" => y[2] \in DOMAIN members /\ members[y[2]].hh = job[w].key

Working ==
    /\ pc \in [Workers -> {"idle", "password", "cascade", "commit"}]
    /\ job \in [Workers -> Jobs \cup {None}]
    /\ \A w \in Workers : pc[w] = "idle" <=> job[w] = None
    /\ \A w \in Workers : KnowsRows(w)
    /\ \A w \in Workers : pc[w] = "password" => job[w].kind = "login"
    /\ \A w \in Workers : pc[w] = "cascade" => job[w].kind = "delete"
    /\ now \in 0..LastSecond /\ left \in 0..Budget
    /\ alone \subseteq {w \in Workers : pc[w] # "idle"}

\* The owner of an active household has one active membership there
OneOwnership ==
    \A h \in Active(households) : \E m \in DOMAIN members : Memberships(h, households[h].owner) = {m}

\* Whoever inserts what is there already, or what another inserts too, has been noticed
RacesNoticed ==
    /\ \A w \in Workers : Busy(w, {"register"}) /\ ByEmail(job[w].key) # {} => job[w].key \in raced
    /\ \A w \in Workers : Busy(w, {"add"}) /\ Memberships(job[w].key[1], job[w].key[2]) # {}
                            => job[w].key \in raced
    /\ \A kind \in {"register", "add"} : \A v, w \in Workers :
         v # w /\ Busy(v, {kind}) /\ Busy(w, {kind}) /\ job[v].key = job[w].key => job[w].key \in raced

AddsTo(w, h) == Busy(w, {"add", "child"}) /\ job[w].key[1] = h

\* Between its two UPDATEs a deletion has seen everything in the household, unless noticed
DeletionsSee ==
    /\ \A w \in Workers : Busy(w, {"delete"}) /\ pc[w] = "commit" /\ job[w].key \notin crossed =>
         /\ \A v \in Workers : ~AddsTo(v, job[w].key)
         /\ Children(job[w].key) \subseteq job[w].ids
    /\ \A h \in DOMAIN households \ (Active(households) \cup crossed) :
         \A v \in Workers : ~AddsTo(v, h)

\* A sign-in that has its user for itself leaves one session less than the cap
AloneIsAlone ==
    \A w \in alone :
        /\ pc[w] = "commit" /\ job[w].kind = "login"
        /\ \A v \in Others(w, {"login"}) : pc[v] = "commit" => job[v].key # job[w].key
        /\ Cardinality(TokensOf(job[w].key) \ job[w].ids) <= MaxActiveTokens - 1

IInv ==
    /\ Tabled
    /\ Working
    /\ OneOwnership
    /\ RacesNoticed
    /\ DuplicatesOnlyWhereRaced
    /\ DeletionsSee
    /\ DeletedAreEmpty
    /\ AloneIsAlone

-----------------------------------------------------------------------------
(* Tables *)

\* The ids of a table are those the bound allows, and the next one is new.
LEMMA TableIds ==
    ASSUME NEW Rows, NEW t, Table(t, Rows)
    PROVE  /\ t \in [DOMAIN t -> Rows] /\ DOMAIN t \subseteq Ids
           /\ IsFiniteSet(DOMAIN t) /\ NewId(t) \notin DOMAIN t
           /\ Room(t) => NewId(t) \in Ids
<1>1. PICK n \in 0..MaxRows : t \in [1..n -> Rows]
  BY DEF Table
<1>2. MaxRows \in Nat
  BY BoundsAssumption
<1>3. IsFiniteSet(1..n) /\ Cardinality(1..n) = n
  BY <1>2, FS_Interval
<1> QED
  BY <1>1, <1>2, <1>3 DEF NewId, Room, Ids

\* The table new is old with one more row
Inserted(old, row, new) ==
    /\ DOMAIN new = (DOMAIN old) \cup {NewId(old)}
    /\ NewId(old) \notin DOMAIN old
    /\ new[NewId(old)] = row
    /\ \A i \in DOMAIN old : new[i] = old[i]

\* An INSERT adds one row and leaves the others as they are.
LEMMA PutRow ==
    ASSUME NEW Rows, NEW t, Table(t, Rows), Room(t), NEW row \in Rows
    PROVE  Table(Put(t, row), Rows) /\ Inserted(t, row, Put(t, row))
<1>1. PICK n \in 0..MaxRows : t \in [1..n -> Rows]
  BY DEF Table
<1>2. MaxRows \in Nat
  BY BoundsAssumption
<1>3. IsFiniteSet(1..n) /\ Cardinality(1..n) = n
  BY <1>2, FS_Interval
<1>4. NewId(t) = n + 1 /\ n + 1 \in 0..MaxRows
  BY <1>1, <1>2, <1>3 DEF NewId, Room
<1>5. (DOMAIN t) \cup {n + 1} = 1..(n + 1)
  BY <1>1, <1>2
<1>6. Put(t, row) \in [1..(n + 1) -> Rows]
  BY <1>1, <1>4, <1>5 DEF Put
<1> QED
  BY <1>1, <1>4, <1>5, <1>6 DEF Put, Table, Inserted

Markable(Rows) == \A r \in Rows : [r EXCEPT !.stat = "DELETED"] \in Rows

\* An UPDATE to DELETED leaves a table a table, with the same ids.
LEMMA KillRows ==
    ASSUME NEW Rows, Markable(Rows), NEW t, NEW S, Table(t, Rows)
    PROVE  Table(Kill(t, S), Rows) /\ DOMAIN Kill(t, S) = DOMAIN t
<1>1. PICK n \in 0..MaxRows : t \in [1..n -> Rows]
  BY DEF Table
<1>2. Kill(t, S) \in [1..n -> Rows]
  BY <1>1 DEF Kill, Markable
<1> QED
  BY <1>1, <1>2 DEF Table

\* Revoking sessions keeps the rows and what they say.
LEMMA KillTokens ==
    ASSUME Table(tokens, TokenRows), NEW S
    PROVE  /\ Table(Kill(tokens, S), TokenRows) /\ DOMAIN Kill(tokens, S) = DOMAIN tokens
           /\ \A t \in DOMAIN tokens :
                /\ Kill(tokens, S)[t].user = tokens[t].user
                /\ Kill(tokens, S)[t].second = tokens[t].second
                /\ Kill(tokens, S)[t].stat = IF t \in S THEN "DELETED" ELSE tokens[t].stat
<1>1. Markable(TokenRows)
  BY DEF Markable, TokenRows, Stat
<1>2. tokens \in [DOMAIN tokens -> TokenRows]
  BY TableIds
<1>3. Table(Kill(tokens, S), TokenRows) /\ DOMAIN Kill(tokens, S) = DOMAIN tokens
  BY <1>1, KillRows
<1> QED
  BY <1>2, <1>3 DEF Kill, TokenRows

\* Deleting households keeps the rows and their owners.
LEMMA KillHouseholds ==
    ASSUME Table(households, HouseholdRows), NEW S
    PROVE  /\ Table(Kill(households, S), HouseholdRows) /\ DOMAIN Kill(households, S) = DOMAIN households
           /\ \A h \in DOMAIN households :
                /\ Kill(households, S)[h].owner = households[h].owner
                /\ Kill(households, S)[h].stat = IF h \in S THEN "DELETED" ELSE households[h].stat
<1>1. Markable(HouseholdRows)
  BY DEF Markable, HouseholdRows, Stat
<1>2. households \in [DOMAIN households -> HouseholdRows]
  BY TableIds
<1>3. Table(Kill(households, S), HouseholdRows) /\ DOMAIN Kill(households, S) = DOMAIN households
  BY <1>1, KillRows
<1> QED
  BY <1>2, <1>3 DEF Kill, HouseholdRows

\* Removing members keeps the rows, their households and users.
LEMMA KillMembers ==
    ASSUME Table(members, MemberRows), NEW S
    PROVE  /\ Table(Kill(members, S), MemberRows) /\ DOMAIN Kill(members, S) = DOMAIN members
           /\ \A m \in DOMAIN members :
                /\ Kill(members, S)[m].hh = members[m].hh
                /\ Kill(members, S)[m].user = members[m].user
                /\ Kill(members, S)[m].stat = IF m \in S THEN "DELETED" ELSE members[m].stat
<1>1. Markable(MemberRows)
  BY DEF Markable, MemberRows, Stat
<1>2. members \in [DOMAIN members -> MemberRows]
  BY TableIds
<1>3. Table(Kill(members, S), MemberRows) /\ DOMAIN Kill(members, S) = DOMAIN members
  BY <1>1, KillRows
<1> QED
  BY <1>2, <1>3 DEF Kill, MemberRows

\* Deleting rows of a household keeps them where they are.
LEMMA KillChildren ==
    ASSUME Table(children, ChildRows), NEW S
    PROVE  /\ Table(Kill(children, S), ChildRows) /\ DOMAIN Kill(children, S) = DOMAIN children
           /\ \A c \in DOMAIN children :
                /\ Kill(children, S)[c].hh = children[c].hh
                /\ Kill(children, S)[c].stat = IF c \in S THEN "DELETED" ELSE children[c].stat
<1>1. Markable(ChildRows)
  BY DEF Markable, ChildRows, Stat
<1>2. children \in [DOMAIN children -> ChildRows]
  BY TableIds
<1>3. Table(Kill(children, S), ChildRows) /\ DOMAIN Kill(children, S) = DOMAIN children
  BY <1>1, KillRows
<1> QED
  BY <1>2, <1>3 DEF Kill, ChildRows

-----------------------------------------------------------------------------
(* What a step does to the tables *)

\* Rows stay, with what identifies them, and none comes back to life
RowsKept ==
    /\ \A u \in DOMAIN users : u \in DOMAIN users' /\ users'[u] = users[u]
    /\ \A t \in DOMAIN tokens :
         /\ t \in DOMAIN tokens' /\ tokens'[t].user = tokens[t].user
         /\ tokens'[t].stat = "ACTIVE" => tokens[t].stat = "ACTIVE"
    /\ \A h \in DOMAIN households :
         /\ h \in DOMAIN households' /\ households'[h].owner = households[h].owner
         /\ households'[h].stat = "ACTIVE" => households[h].stat = "ACTIVE"
    /\ \A m \in DOMAIN members :
         /\ m \in DOMAIN members' /\ members'[m].hh = members[m].hh /\ members'[m].user = members[m].user
         /\ members'[m].stat = "ACTIVE" => members[m].stat = "ACTIVE"
    /\ \A c \in DOMAIN children :
         /\ c \in DOMAIN children' /\ children'[c].hh = children[c].hh
         /\ children'[c].stat = "ACTIVE" => children[c].stat = "ACTIVE"

\* A commit inserts rows that fit their table and rewrites none that is there.
LEMMA CommitTables == \A w \in Workers : Tabled /\ Working /\ Commit(w) => Tabled' /\ RowsKept
<1> SUFFICES ASSUME NEW w \in Workers, Tabled, Working, Commit(w) PROVE Tabled' /\ RowsKept
  OBVIOUS
<1> USE DEF Tabled
<1>1. KnowsRows(w) /\ job[w] \in Jobs /\ pc[w] # "idle"
  BY DEF Working, Commit
<1>2. DOMAIN users \subseteq Ids /\ DOMAIN households \subseteq Ids
  BY TableIds
<1>3. CASE job[w].kind = "register" /\ Room(users) /\ Register(w)
  <2>1. job[w].key \in Emails
    BY <1>1, <1>3 DEF KnowsRows, Busy
  <2>2. Table(users', Emails) /\ Inserted(users, job[w].key, users')
    BY <1>3, <2>1, PutRow DEF Register
  <2> QED
    BY <1>3, <2>2 DEF Register, RowsKept, Inserted
<1>4. CASE job[w].kind = "login" /\ Room(tokens) /\ Login(w)
  <2> DEFINE killed == Kill(tokens, job[w].ids)
             row == [user |-> job[w].key, second |-> job[w].second, stat |-> "ACTIVE"]
  <2>1. row \in TokenRows
    BY <1>1, <1>2, <1>4 DEF KnowsRows, Busy, TokenRows, Stat, Jobs
  <2>2. /\ Table(killed, TokenRows) /\ DOMAIN killed = DOMAIN tokens
        /\ \A t \in DOMAIN tokens :
             /\ killed[t].user = tokens[t].user
             /\ killed[t].stat = "ACTIVE" => tokens[t].stat = "ACTIVE"
    BY KillTokens
  <2>3. Room(killed) /\ tokens' = Put(killed, row)
    BY <1>4, <2>2 DEF Room, Login
  <2> HIDE DEF killed, row
  <2>4. Table(tokens', TokenRows) /\ Inserted(killed, row, tokens')
    BY <2>1, <2>2, <2>3, PutRow
  <2> QED
    BY <1>4, <2>2, <2>4 DEF Login, RowsKept, Inserted
<1>5. CASE job[w].kind = "logout" /\ Logout(w)
  BY <1>5, KillTokens DEF Logout, RowsKept
<1>6. CASE job[w].kind = "create" /\ Room(households) /\ Room(members) /\ CreateHousehold(w)
  <2> DEFINE hrow == [owner |-> job[w].key, stat |-> "ACTIVE"]
             mrow == [hh |-> NewId(households), user |-> job[w].key, stat |-> "ACTIVE"]
  <2>1. job[w].key \in Ids /\ NewId(households) \in Ids
    BY <1>1, <1>2, <1>6, TableIds DEF KnowsRows, Busy
  <2>2. hrow \in HouseholdRows /\ mrow \in MemberRows
    BY <2>1 DEF HouseholdRows, MemberRows, Stat
  <2>3. households' = Put(households, hrow) /\ members' = Put(members, mrow)
    BY <1>6 DEF CreateHousehold
  <2>4. mrow.hh = NewId(households)
    OBVIOUS
  <2> HIDE DEF hrow, mrow
  <2>5. Table(households', HouseholdRows) /\ Inserted(households, hrow, households')
    BY <1>6, <2>2, <2>3, PutRow
  <2>6. Table(members', MemberRows) /\ Inserted(members, mrow, members')
    BY <1>6, <2>2, <2>3, PutRow
  <2>7. Tabled'
    BY <1>6, <2>4, <2>5, <2>6 DEF CreateHousehold, Inserted
  <2> QED
    BY <1>6, <2>5, <2>6, <2>7 DEF CreateHousehold, RowsKept, Inserted
<1>7. CASE job[w].kind = "add" /\ Room(members) /\ AddMember(w)
  <2> DEFINE row == [hh |-> job[w].key[1], user |-> job[w].key[2], stat |-> "ACTIVE"]
  <2>1. job[w].key[1] \in DOMAIN households /\ job[w].key[2] \in DOMAIN users
    BY <1>1, <1>7 DEF KnowsRows, Busy
  <2>2. row \in MemberRows /\ row.hh \in DOMAIN households
    BY <1>2, <2>1 DEF MemberRows, Stat
  <2>3. members' = Put(members, row)
    BY <1>7 DEF AddMember
  <2> HIDE DEF row
  <2>4. Table(members', MemberRows) /\ Inserted(members, row, members')
    BY <1>7, <2>2, <2>3, PutRow
  <2> QED
    BY <1>7, <2>2, <2>4 DEF AddMember, RowsKept, Inserted
<1>8. CASE job[w].kind = "remove" /\ RemoveMember(w)
  BY <1>8, KillMembers DEF RemoveMember, RowsKept
<1>9. CASE job[w].kind = "child" /\ Room(children) /\ AddChild(w)
  <2> DEFINE row == [hh |-> job[w].key[1], stat |-> "ACTIVE"]
  <2>1. job[w].key[1] \in DOMAIN households
    BY <1>1, <1>9 DEF KnowsRows, Busy
  <2>2. row \in ChildRows
    BY <1>2, <2>1 DEF ChildRows, Stat
  <2>3. children' = Put(children, row)
    BY <1>9 DEF AddChild
  <2> HIDE DEF row
  <2>4. Table(children', ChildRows) /\ Inserted(children, row, children')
    BY <1>9, <2>2, <2>3, PutRow
  <2> QED
    BY <1>9, <2>4 DEF AddChild, RowsKept, Inserted
<1>10. CASE job[w].kind = "delete" /\ DeleteHousehold(w)
  <2>1. /\ Table(children', ChildRows) /\ DOMAIN children' = DOMAIN children
        /\ \A c \in DOMAIN children : /\ children'[c].hh = children[c].hh
                                      /\ children'[c].stat = "ACTIVE" => children[c].stat = "ACTIVE"
    BY <1>10, KillChildren DEF DeleteHousehold
  <2>2. /\ Table(members', MemberRows) /\ DOMAIN members' = DOMAIN members
        /\ \A m \in DOMAIN members :
             /\ members'[m].hh = members[m].hh /\ members'[m].user = members[m].user
             /\ members'[m].stat = "ACTIVE" => members[m].stat = "ACTIVE"
    BY <1>10, KillMembers DEF DeleteHousehold
  <2>3. /\ Table(households', HouseholdRows) /\ DOMAIN households' = DOMAIN households
        /\ \A h \in DOMAIN households :
             /\ households'[h].owner = households[h].owner
             /\ households'[h].stat = "ACTIVE" => households[h].stat = "ACTIVE"
    BY <1>10, KillHouseholds DEF DeleteHousehold
  <2> QED
    BY <1>10, <2>1, <2>2, <2>3 DEF DeleteHousehold, RowsKept
<1> QED
  BY <1>3, <1>4, <1>5, <1>6, <1>7, <1>8, <1>9, <1>10 DEF Commit

-----------------------------------------------------------------------------
(* What a step does to the requests *)

\* What a request knows of the rows stays true while it waits.
LEMMA StillKnows ==
    ASSUME Tabled, RowsKept, NEW w \in Workers, KnowsRows(w), pc'[w] = pc[w], job'[w] = job[w]
    PROVE  KnowsRows(w)'
<1>1. Busy(w, {"remove"}) =>
        \A m \in job[w].ids : m \in DOMAIN members' /\ members'[m].user # households'[members'[m].hh].owner
  BY DEF Tabled, RowsKept, KnowsRows
<1>2. Busy(w, {"delete"}) =>
        /\ job[w].key \in DOMAIN households'
        /\ \A y \in job[w].ids : y[1] = "member" => y[2] \in DOMAIN members' /\ members'[y[2]].hh = job[w].key
  BY DEF RowsKept, KnowsRows
<1>3. Busy(w, {"add", "child"}) => job[w].key \in (DOMAIN households') \X (DOMAIN users')
  BY DEF RowsKept, KnowsRows
<1>4. Busy(w, {"add"}) => job[w].key[2] # households'[job[w].key[1]].owner
  BY DEF RowsKept, KnowsRows, Busy
<1>5. Busy(w, {"login", "create"}) => job[w].key \in DOMAIN users'
  BY DEF RowsKept, KnowsRows
<1>6. \A kinds : Busy(w, kinds)' <=> Busy(w, kinds)
  BY DEF Busy
<1> QED
  BY <1>1, <1>2, <1>3, <1>4, <1>5, <1>6 DEF KnowsRows

\* Accepting a request changes no table, and a well-formed one is known as such.
LEMMA EnterWorks ==
    ASSUME Tabled, Working, NEW w \in Workers,
           NEW label \in {"password", "cascade", "commit"}, NEW kind, NEW key, NEW ids,
           Enter(w, label, kind, key, ids), alone' = alone,
           [kind |-> kind, key |-> key, ids |-> ids, second |-> now] \in Jobs,
           label = "password" => kind = "login", label = "cascade" => kind = "delete",
           KnowsRows(w)'
    PROVE  Working' /\ Tabled' /\ RowsKept
<1>1. UNCHANGED <<users, tokens, households, members, children, now>> /\ left' \in 0..Budget
  BY BoundsAssumption DEF Enter, Tables, Working
<1>2. Tabled' /\ RowsKept
  BY <1>1 DEF Tabled, RowsKept
<1>3. /\ job' \in [Workers -> Jobs \cup {None}]
      /\ pc' \in [Workers -> {"idle", "password", "cascade", "commit"}]
      /\ pc'[w] = label /\ job'[w] = [kind |-> kind, key |-> key, ids |-> ids, second |-> now]
      /\ job'[w].kind = kind /\ job'[w] # None
      /\ \A v \in Workers \ {w} : pc'[v] = pc[v] /\ job'[v] = job[v]
  BY NoneAssumption DEF Enter, Working
<1>4. \A v \in Workers : KnowsRows(v)'
  BY <1>2, <1>3, StillKnows DEF Working
<1> QED
  BY <1>1, <1>2, <1>3, <1>4 DEF Working

\* The rows a request has found and the ids of a job
LEMMA FoundIds ==
    ASSUME Tabled
    PROVE  /\ DOMAIN users \subseteq Ids /\ DOMAIN tokens \subseteq Ids /\ DOMAIN households \subseteq Ids
           /\ DOMAIN members \subseteq Ids /\ DOMAIN children \subseteq Ids
           /\ \A e : Cardinality(ByEmail(e)) = 1 => \E u \in DOMAIN users : ByEmail(e) = {u}
<1>1. /\ DOMAIN users \subseteq Ids /\ DOMAIN tokens \subseteq Ids /\ DOMAIN households \subseteq Ids
      /\ DOMAIN members \subseteq Ids /\ DOMAIN children \subseteq Ids /\ IsFiniteSet(DOMAIN users)
  BY TableIds DEF Tabled
<1>2. ASSUME NEW e, Cardinality(ByEmail(e)) = 1 PROVE \E u \in DOMAIN users : ByEmail(e) = {u}
  <2>1. ByEmail(e) \subseteq DOMAIN users
    BY DEF ByEmail
  <2>2. IsFiniteSet(ByEmail(e))
    BY <1>1, <2>1, FS_Subset
  <2>3. PICK u : ByEmail(e) = {u}
    BY <1>2, <2>2, FS_Singleton
  <2> QED
    BY <2>1, <2>3
<1> QED
  BY <1>1, <1>2

\* Every step leaves tables and requests well-formed and rewrites no row.
LEMMA NextWorks == Tabled /\ Working /\ OneOwnership /\ [Next]_vars => Tabled' /\ RowsKept /\ Working'
<1> SUFFICES ASSUME Tabled, Working, OneOwnership, [Next]_vars PROVE Tabled' /\ RowsKept /\ Working'
  OBVIOUS
<1> USE FoundIds
<1>0. now \in 0..LastSecond
  BY DEF Working
<1>1. ASSUME NEW w \in Workers, NEW e \in Emails, StartRegister(w, e)
      PROVE  Tabled' /\ RowsKept /\ Working'
  <2>1. [kind |-> "register", key |-> e, ids |-> {}, second |-> now] \in Jobs
    BY <1>0 DEF Jobs
  <2>2. KnowsRows(w)'
    BY <1>1 DEF StartRegister, Enter, KnowsRows, Busy, Working
  <2> QED
    BY <1>1, <2>1, <2>2, EnterWorks DEF StartRegister
<1>2. ASSUME NEW w \in Workers, NEW e \in Emails, StartLogin(w, e)
      PROVE  Tabled' /\ RowsKept /\ Working'
  <2> DEFINE u == CHOOSE u \in ByEmail(e) : TRUE
  <2>1. u \in DOMAIN users
    BY <1>2 DEF StartLogin
  <2> HIDE DEF u
  <2>2. Enter(w, "password", "login", u, {}) /\ alone' = alone
    BY <1>2 DEF StartLogin, u
  <2>3. [kind |-> "login", key |-> u, ids |-> {}, second |-> now] \in Jobs
    BY <1>0, <2>1 DEF Jobs
  <2>4. KnowsRows(w)'
    BY <2>1, <2>2 DEF Enter, KnowsRows, Busy, Working, Tables
  <2> QED
    BY <2>2, <2>3, <2>4, EnterWorks
<1>3. ASSUME NEW w \in Workers, NEW t \in DOMAIN tokens, StartLogout(w, t)
      PROVE  Tabled' /\ RowsKept /\ Working'
  <2>1. tokens[t].user \in Ids
    <3>1. tokens \in [DOMAIN tokens -> TokenRows]
      BY TableIds DEF Tabled
    <3> QED
      BY <3>1 DEF TokenRows
  <2>2. ByToken(t) \subseteq Ids
    BY DEF ByToken, Active
  <2>3. [kind |-> "logout", key |-> tokens[t].user, ids |-> ByToken(t), second |-> now] \in Jobs
    BY <1>0, <2>1, <2>2 DEF Jobs
  <2>4. KnowsRows(w)'
    BY <1>3 DEF StartLogout, Enter, KnowsRows, Busy, Working
  <2> QED
    BY <1>3, <2>3, <2>4, EnterWorks DEF StartLogout
<1>4. ASSUME NEW w \in Workers, NEW u \in DOMAIN users, StartCreateHousehold(w, u)
      PROVE  Tabled' /\ RowsKept /\ Working'
  <2>1. [kind |-> "create", key |-> u, ids |-> {}, second |-> now] \in Jobs
    BY <1>0 DEF Jobs
  <2>2. KnowsRows(w)'
    BY <1>4 DEF StartCreateHousehold, Enter, KnowsRows, Busy, Working, Tables
  <2> QED
    BY <1>4, <2>1, <2>2, EnterWorks DEF StartCreateHousehold
<1>5. ASSUME NEW w \in Workers, NEW by \in DOMAIN users, NEW h \in DOMAIN households,
             NEW m \in DOMAIN members, StartRemoveMember(w, by, h, m)
      PROVE  Tabled' /\ RowsKept /\ Working'
  <2>1. [kind |-> "remove", key |-> h, ids |-> {m}, second |-> now] \in Jobs
    BY <1>0 DEF Jobs
  <2>2. KnowsRows(w)'
    BY <1>5 DEF StartRemoveMember, Enter, KnowsRows, Busy, Working, Tables
  <2> QED
    BY <1>5, <2>1, <2>2, EnterWorks DEF StartRemoveMember
<1>6. ASSUME NEW w \in Workers, NEW u \in DOMAIN users, NEW h \in DOMAIN households,
             StartAddChild(w, u, h)
      PROVE  Tabled' /\ RowsKept /\ Working'
  <2>1. [kind |-> "child", key |-> <<h, u>>, ids |-> {}, second |-> now] \in Jobs
    BY <1>0 DEF Jobs
  <2>2. KnowsRows(w)'
    BY <1>6 DEF StartAddChild, Enter, KnowsRows, Busy, Working, Tables
  <2> QED
    BY <1>6, <2>1, <2>2, EnterWorks DEF StartAddChild
<1>7. ASSUME NEW w \in Workers, NEW by \in DOMAIN users, NEW h \in DOMAIN households,
             StartDeleteHousehold(w, by, h)
      PROVE  Tabled' /\ RowsKept /\ Working'
  <2>1. [kind |-> "delete", key |-> h, ids |-> {}, second |-> now] \in Jobs
    BY <1>0 DEF Jobs
  <2>2. KnowsRows(w)'
    BY <1>7 DEF StartDeleteHousehold, Enter, KnowsRows, Busy, Working, Tables
  <2> QED
    BY <1>7, <2>1, <2>2, EnterWorks DEF StartDeleteHousehold
<1>8. ASSUME NEW w \in Workers, NEW by \in DOMAIN users, NEW h \in DOMAIN households,
             NEW u \in DOMAIN users, StartAddMember(w, by, h, u)
      PROVE  Tabled' /\ RowsKept /\ Working'
  <2>1. u # households[h].owner
    BY <1>8 DEF StartAddMember, Owns, OneOwnership
  <2>2. [kind |-> "add", key |-> <<h, u>>, ids |-> {}, second |-> now] \in Jobs
    BY <1>0 DEF Jobs
  <2>3. KnowsRows(w)'
    BY <1>8, <2>1 DEF StartAddMember, Enter, KnowsRows, Busy, Working, Tables
  <2> QED
    BY <1>8, <2>2, <2>3, EnterWorks DEF StartAddMember
<1>9. ASSUME NEW w \in Workers, Password(w) PROVE Tabled' /\ RowsKept /\ Working'
  <2> DEFINE ids == Oldest(TokensOf(job[w].key))
  <2>1. ids \subseteq Ids
    BY DEF Oldest, TokensOf, Active
  <2>2. job[w] \in Jobs /\ job[w].kind = "login" /\ KnowsRows(w)
    BY <1>9 DEF Working, Password
  <2> HIDE DEF ids
  <2>3. /\ job' = [job EXCEPT ![w] = [job[w] EXCEPT !.ids = ids, !.second = now]]
        /\ pc' = [pc EXCEPT ![w] = "commit"]
        /\ UNCHANGED <<users, tokens, households, members, children, now, left>>
    BY <1>9 DEF Password, Tables, ids
  <2>4. [job[w] EXCEPT !.ids = ids, !.second = now] \in Jobs
    BY <1>0, <2>1, <2>2 DEF Jobs
  <2>5. /\ job'[w].kind = "login" /\ job'[w].key = job[w].key
    BY <2>2, <2>3 DEF Jobs, Working
  <2>6. Tabled' /\ RowsKept
    BY <2>3 DEF Tabled, RowsKept
  <2>7. /\ job' \in [Workers -> Jobs \cup {None}] /\ job'[w] # None
        /\ pc' \in [Workers -> {"idle", "password", "cascade", "commit"}] /\ pc'[w] = "commit"
        /\ \A v \in Workers \ {w} : pc'[v] = pc[v] /\ job'[v] = job[v]
    BY <2>3, <2>4, NoneAssumption DEF Working
  <2>8. KnowsRows(w)'
    BY <1>9, <2>2, <2>3, <2>5 DEF KnowsRows, Busy, Password
  <2>9. \A v \in Workers : KnowsRows(v)'
    BY <2>6, <2>7, <2>8, StillKnows DEF Working
  <2>10. alone' \subseteq alone \cup {w}
    BY <1>9 DEF Password
  <2> QED
    BY <2>3, <2>6, <2>7, <2>9, <2>10 DEF Working
<1>10. ASSUME NEW w \in Workers, Cascade(w) PROVE Tabled' /\ RowsKept /\ Working'
  <2> DEFINE ids == Children(job[w].key)
  <2>1. ids \subseteq {"child", "member"} \X Ids
    BY DEF Children, RowsOf, Active
  <2>2. job[w] \in Jobs /\ job[w].kind = "delete" /\ KnowsRows(w)
    BY <1>10 DEF Working, Cascade
  <2>3. \A y \in ids : y[1] = "member" => y[2] \in DOMAIN members /\ members[y[2]].hh = job[w].key
    BY DEF Children, RowsOf, Active
  <2> HIDE DEF ids
  <2>4. /\ job' = [job EXCEPT ![w] = [job[w] EXCEPT !.ids = ids]]
        /\ pc' = [pc EXCEPT ![w] = "commit"]
        /\ UNCHANGED <<users, tokens, households, members, children, now, left, alone>>
    BY <1>10 DEF Cascade, Tables, ids
  <2>5. [job[w] EXCEPT !.ids = ids] \in Jobs
    BY <2>1, <2>2 DEF Jobs
  <2>6. job'[w].kind = "delete" /\ job'[w].key = job[w].key /\ job'[w].ids = ids
    BY <2>2, <2>4 DEF Jobs, Working
  <2>7. Tabled' /\ RowsKept
    BY <2>4 DEF Tabled, RowsKept
  <2>8. /\ job' \in [Workers -> Jobs \cup {None}] /\ job'[w] # None
        /\ pc' \in [Workers -> {"idle", "password", "cascade", "commit"}] /\ pc'[w] = "commit"
        /\ \A v \in Workers \ {w} : pc'[v] = pc[v] /\ job'[v] = job[v]
    BY <2>4, <2>5, NoneAssumption DEF Working
  <2>9. KnowsRows(w)'
    BY <1>10, <2>2, <2>3, <2>4, <2>6 DEF KnowsRows, Busy, Cascade
  <2>10. \A v \in Workers : KnowsRows(v)'
    BY <2>7, <2>8, <2>9, StillKnows DEF Working
  <2> QED
    BY <2>4, <2>7, <2>8, <2>10 DEF Working
<1>11. ASSUME NEW w \in Workers, End(w), Tabled', RowsKept PROVE Working'
  <2>1. /\ job' \in [Workers -> Jobs \cup {None}] /\ job'[w] = None
        /\ pc' \in [Workers -> {"idle", "password", "cascade", "commit"}] /\ pc'[w] = "idle"
        /\ \A v \in Workers \ {w} : pc'[v] = pc[v] /\ job'[v] = job[v]
    BY <1>11 DEF Working, End
  <2>2. KnowsRows(w)'
    BY <2>1 DEF KnowsRows, Busy
  <2>3. \A v \in Workers : KnowsRows(v)'
    BY <1>11, <2>1, <2>2, StillKnows DEF Working
  <2> QED
    BY <1>11, <2>1, <2>3 DEF Working, End
<1>12. ASSUME NEW w \in Workers, Commit(w) PROVE Tabled' /\ RowsKept /\ Working'
  BY <1>11, <1>12, CommitTables DEF Commit
<1>13. ASSUME NEW w \in Workers, Abort(w) PROVE Tabled' /\ RowsKept /\ Working'
  <2>1. Tabled' /\ RowsKept
    BY <1>13 DEF Abort, Tables, Tabled, RowsKept
  <2> QED
    BY <1>11, <1>13, <2>1 DEF Abort
<1>14. CASE Tick \/ UNCHANGED vars
  <2>1. /\ UNCHANGED <<users, tokens, households, members, children, pc, job, left, alone>>
        /\ now' \in 0..LastSecond
    BY <1>0, <1>14, BoundsAssumption DEF Tick, Tables, vars
  <2>2. Tabled' /\ RowsKept
    BY <2>1 DEF Tabled, RowsKept
  <2>3. \A v \in Workers : KnowsRows(v)'
    BY <2>1, <2>2, StillKnows DEF Working
  <2> QED
    BY <2>1, <2>2, <2>3 DEF Working
<1> QED
  BY <1>1, <1>2, <1>3, <1>4, <1>5, <1>6, <1>7, <1>8, <1>9, <1>10, <1>12, <1>13, <1>14 DEF Next, Request

-----------------------------------------------------------------------------
(* Owners *)

\* A step other than a commit leaves the tables alone.
LEMMA QuietSteps ==
    ASSUME [Next]_vars, ~\E w \in Workers : Commit(w)
    PROVE  UNCHANGED <<users, tokens, households, members, children>>
<1>1. CASE Tick \/ UNCHANGED vars
  BY <1>1 DEF Tick, vars, Tables
<1>2. ASSUME NEW w \in Workers, NEW label, NEW kind, NEW key, NEW ids, Enter(w, label, kind, key, ids)
      PROVE  UNCHANGED <<users, tokens, households, members, children>>
  BY <1>2 DEF Enter, Tables
<1>3. ASSUME NEW w \in Workers, Request(w)
      PROVE  UNCHANGED <<users, tokens, households, members, children>>
  <2>1. CASE Password(w) \/ Cascade(w) \/ Abort(w)
    BY <2>1 DEF Password, Cascade, Abort, Tables
  <2>2. CASE \E e \in Emails : StartRegister(w, e) \/ StartLogin(w, e)
    BY <2>2, <1>2 DEF StartRegister, StartLogin
  <2>3. CASE \E t \in DOMAIN tokens : StartLogout(w, t)
    BY <2>3, <1>2 DEF StartLogout
  <2>4. CASE \E u \in DOMAIN users : StartCreateHousehold(w, u)
    BY <2>4, <1>2 DEF StartCreateHousehold
  <2>5. CASE \E u \in DOMAIN users, h \in DOMAIN households :
               \/ StartAddChild(w, u, h) \/ StartDeleteHousehold(w, u, h)
               \/ \E v \in DOMAIN users : StartAddMember(w, u, h, v)
               \/ \E m \in DOMAIN members : StartRemoveMember(w, u, h, m)
    BY <2>5, <1>2 DEF StartAddChild, StartDeleteHousehold, StartAddMember, StartRemoveMember
  <2> QED
    BY <1>3, <2>1, <2>2, <2>3, <2>4, <2>5 DEF Request
<1> QED
  BY <1>1, <1>3 DEF Next

\* Creating a household makes one membership in it; adding and removing members and
\* deleting households leave the owners of the others their one membership.
LEMMA NextOneOwnership ==
    Tabled /\ Working /\ OneOwnership /\ [Next]_vars => OneOwnership'
<1> SUFFICES ASSUME Tabled, Working, OneOwnership, [Next]_vars PROVE OneOwnership'
  OBVIOUS
<1>1. CASE ~\E w \in Workers : Commit(w)
  BY <1>1, QuietSteps DEF OneOwnership, Memberships, Active
<1>2. ASSUME NEW w \in Workers, Commit(w) PROVE OneOwnership'
  <2>1. KnowsRows(w) /\ pc[w] # "idle" /\ Tabled' /\ RowsKept
    BY <1>2, CommitTables DEF Working, Commit
  <2>2. CASE UNCHANGED <<households, members>>
    BY <2>2 DEF OneOwnership, Memberships, Active
  <2>3. CASE job[w].kind = "create" /\ Room(households) /\ Room(members) /\ CreateHousehold(w)
    <3> DEFINE hrow == [owner |-> job[w].key, stat |-> "ACTIVE"]
               mrow == [hh |-> NewId(households), user |-> job[w].key, stat |-> "ACTIVE"]
    <3>1. job[w].key \in Ids /\ NewId(households) \in Ids
      BY <2>1, <2>3, FoundIds, TableIds DEF KnowsRows, Busy, Tabled
    <3>2. hrow \in HouseholdRows /\ mrow \in MemberRows
      BY <3>1 DEF HouseholdRows, MemberRows, Stat
    <3>3. Inserted(households, hrow, households') /\ Inserted(members, mrow, members')
      <4>1. households' = Put(households, hrow) /\ members' = Put(members, mrow)
        BY <2>3 DEF CreateHousehold
      <4> HIDE DEF hrow, mrow
      <4> QED
        BY <2>3, <3>2, <4>1, PutRow DEF Tabled
    <3>4. ASSUME NEW h \in DOMAIN households, households'[h].stat = "ACTIVE"
          PROVE  \E m \in DOMAIN members' : Memberships(h, households[h].owner)' = {m}
      <4>1. h \in Active(households) /\ h # NewId(households)
        BY <3>3, <3>4 DEF Inserted, Active
      <4>2. PICK m \in DOMAIN members : Memberships(h, households[h].owner) = {m}
        BY <4>1 DEF OneOwnership
      <4> QED
        BY <3>3, <4>1, <4>2 DEF Inserted, Memberships, Active
    <3>5. ASSUME NEW m \in DOMAIN members'
          PROVE  members'[m].hh = NewId(households) <=> m = NewId(members)
      BY <3>3 DEF Inserted, Tabled
    <3>6. /\ NewId(members) \in DOMAIN members' /\ members'[NewId(members)].stat = "ACTIVE"
          /\ members'[NewId(members)].user = job[w].key /\ members'[NewId(members)].hh = NewId(households)
      BY <3>3 DEF Inserted
    <3>7. {m \in {i \in DOMAIN members' : members'[i].stat = "ACTIVE"} :
              members'[m].hh = NewId(households) /\ members'[m].user = job[w].key} = {NewId(members)}
      BY <3>5, <3>6
    <3>8. /\ DOMAIN households' = (DOMAIN households) \cup {NewId(households)}
          /\ households'[NewId(households)].owner = job[w].key
          /\ \A h \in DOMAIN households : households'[h] = households[h]
      BY <3>3 DEF Inserted
    <3>9. ASSUME NEW h \in Active(households)'
          PROVE  \E m \in DOMAIN members' : Memberships(h, households[h].owner)' = {m}
      <4>1. CASE h = NewId(households)
        BY <3>6, <3>7, <3>8, <4>1 DEF Memberships, Active
      <4>2. CASE h # NewId(households)
        BY <3>4, <3>8, <3>9, <4>2 DEF Active
      <4> QED
        BY <4>1, <4>2
    <3> QED
      BY <3>9 DEF OneOwnership
  <2>4. CASE job[w].kind = "add" /\ Room(members) /\ AddMember(w)
    <3> DEFINE row == [hh |-> job[w].key[1], user |-> job[w].key[2], stat |-> "ACTIVE"]
    <3>1. job[w].key[1] \in Ids /\ job[w].key[2] \in Ids
      BY <2>1, <2>4, FoundIds DEF KnowsRows, Busy
    <3>2. row \in MemberRows
      BY <3>1 DEF MemberRows, Stat
    <3>3. Inserted(members, row, members') /\ households' = households
      <4>1. members' = Put(members, row)
        BY <2>4 DEF AddMember
      <4> HIDE DEF row
      <4> QED
        BY <2>4, <3>2, <4>1, PutRow DEF Tabled, AddMember
    <3>4. row.hh = job[w].key[1] /\ row.user = job[w].key[2] /\ row.user # households[row.hh].owner
      BY <2>1, <2>4 DEF KnowsRows, Busy
    <3> HIDE DEF row
    <3>5. ASSUME NEW h \in Active(households)
          PROVE  \E m \in DOMAIN members' : Memberships(h, households[h].owner)' = {m}
      <4>1. PICK m \in DOMAIN members : Memberships(h, households[h].owner) = {m}
        BY <3>5 DEF OneOwnership
      <4> QED
        BY <3>3, <3>4, <4>1 DEF Inserted, Memberships, Active
    <3> QED
      BY <3>3, <3>5 DEF OneOwnership, Active
  <2>5. CASE job[w].kind = "remove" /\ RemoveMember(w)
    <3>1. /\ households' = households /\ DOMAIN members' = DOMAIN members
          /\ \A m \in DOMAIN members :
               /\ members'[m].hh = members[m].hh /\ members'[m].user = members[m].user
               /\ members'[m].stat = IF m \in job[w].ids THEN "DELETED" ELSE members[m].stat
      BY <2>5, KillMembers DEF RemoveMember, Tabled
    <3>2. \A m \in job[w].ids : members[m].user # households[members[m].hh].owner
      BY <2>1, <2>5 DEF KnowsRows, Busy
    <3>3. ASSUME NEW h \in Active(households)
          PROVE  \E m \in DOMAIN members' : Memberships(h, households[h].owner)' = {m}
      <4>1. PICK m \in DOMAIN members : Memberships(h, households[h].owner) = {m}
        BY <3>3 DEF OneOwnership
      <4> QED
        BY <3>1, <3>2, <4>1 DEF Memberships, Active
    <3> QED
      BY <3>1, <3>3 DEF OneOwnership, Active
  <2>6. CASE job[w].kind = "delete" /\ DeleteHousehold(w)
    <3> DEFINE doomed == {x[2] : x \in {y \in job[w].ids : y[1] = "member"}}
    <3>1. /\ DOMAIN members' = DOMAIN members
          /\ \A m \in DOMAIN members :
               /\ members'[m].hh = members[m].hh /\ members'[m].user = members[m].user
               /\ members'[m].stat = IF m \in doomed THEN "DELETED" ELSE members[m].stat
      BY <2>6, KillMembers DEF DeleteHousehold, Tabled
    <3>2. /\ DOMAIN households' = DOMAIN households
          /\ \A h \in DOMAIN households :
               /\ households'[h].owner = households[h].owner
               /\ households'[h].stat = IF h \in {job[w].key} THEN "DELETED" ELSE households[h].stat
      BY <2>6, KillHouseholds DEF DeleteHousehold, Tabled
    <3>3. \A m \in doomed : members[m].hh = job[w].key
      BY <2>1, <2>6 DEF KnowsRows, Busy
    <3> HIDE DEF doomed
    <3>4. ASSUME NEW h \in DOMAIN households, households'[h].stat = "ACTIVE"
          PROVE  \E m \in DOMAIN members' : Memberships(h, households[h].owner)' = {m}
      <4>1. h \in Active(households) /\ h # job[w].key
        BY <3>2, <3>4 DEF Active
      <4>2. PICK m \in DOMAIN members : Memberships(h, households[h].owner) = {m}
        BY <4>1 DEF OneOwnership
      <4>3. m \notin doomed /\ members[m].stat = "ACTIVE"
        BY <3>3, <4>1, <4>2 DEF Memberships, Active
      <4>4. \A n \in DOMAIN members : members'[n].stat = "ACTIVE" => members[n].stat = "ACTIVE"
        BY <3>1
      <4> QED
        BY <3>1, <3>2, <4>2, <4>3, <4>4 DEF Memberships, Active
    <3> QED
      BY <3>2, <3>4 DEF OneOwnership, Active
  <2> QED
    BY <1>2, <2>2, <2>3, <2>4, <2>5, <2>6 DEF Commit, Register, Login, Logout, AddChild
<1> QED
  BY <1>1, <1>2

-----------------------------------------------------------------------------
(* Who moves *)

OthersWait(w) == \A v \in Workers \ {w} : pc'[v] = pc[v] /\ job'[v] = job[v]

\* A request that starts knows what it was given.
LEMMA EnterMoves ==
    ASSUME Working, NEW w \in Workers, NEW label, NEW kind, NEW key, NEW ids,
           Enter(w, label, kind, key, ids)
    PROVE  /\ OthersWait(w) /\ pc[w] = "idle" /\ pc'[w] = label
           /\ job'[w].kind = kind /\ job'[w].key = key /\ job'[w].ids = ids
           /\ UNCHANGED <<users, tokens, households, members, children>>
BY DEF Working, Enter, OthersWait, Tables

\* A sign-in goes on for the same user with the sessions to revoke.
LEMMA PasswordMoves ==
    ASSUME Working, NEW w \in Workers, Password(w)
    PROVE  /\ OthersWait(w) /\ pc[w] = "password" /\ job[w].kind = "login" /\ pc'[w] = "commit"
           /\ job'[w].kind = "login" /\ job'[w].key = job[w].key
           /\ job'[w].ids = Oldest(TokensOf(job[w].key))
           /\ UNCHANGED <<users, tokens, households, members, children>>
<1>1. job[w] \in Jobs /\ job[w].kind = "login"
  BY DEF Working, Password
<1> DEFINE ids == Oldest(TokensOf(job[w].key))
<1>2. job' = [job EXCEPT ![w] = [job[w] EXCEPT !.ids = ids, !.second = now]]
  BY DEF Password
<1> HIDE DEF ids
<1>3. job'[w].kind = "login" /\ job'[w].key = job[w].key /\ job'[w].ids = ids
  BY <1>1, <1>2 DEF Jobs, Working
<1>4. \A v \in Workers \ {w} : job'[v] = job[v]
  BY <1>2 DEF Working
<1>5. /\ pc[w] = "password" /\ pc'[w] = "commit" /\ \A v \in Workers \ {w} : pc'[v] = pc[v]
      /\ UNCHANGED <<users, tokens, households, members, children>>
  BY DEF Working, Password, Tables
<1> QED
  BY <1>1, <1>3, <1>4, <1>5 DEF OthersWait, ids

\* A deletion goes on for the same household with the rows its UPDATEs saw.
LEMMA CascadeMoves ==
    ASSUME Working, NEW w \in Workers, Cascade(w)
    PROVE  /\ OthersWait(w) /\ pc[w] = "cascade" /\ job[w].kind = "delete" /\ pc'[w] = "commit"
           /\ job'[w].kind = "delete" /\ job'[w].key = job[w].key
           /\ job'[w].ids = Children(job[w].key)
           /\ UNCHANGED <<users, tokens, households, members, children>>
<1>1. job[w] \in Jobs /\ job[w].kind = "delete"
  BY DEF Working, Cascade
<1> DEFINE ids == Children(job[w].key)
<1>2. job' = [job EXCEPT ![w] = [job[w] EXCEPT !.ids = ids]]
  BY DEF Cascade
<1> HIDE DEF ids
<1>3. job'[w].kind = "delete" /\ job'[w].key = job[w].key /\ job'[w].ids = ids
  BY <1>1, <1>2 DEF Jobs, Working
<1>4. \A v \in Workers \ {w} : job'[v] = job[v]
  BY <1>2 DEF Working
<1>5. /\ pc[w] = "cascade" /\ pc'[w] = "commit" /\ \A v \in Workers \ {w} : pc'[v] = pc[v]
      /\ UNCHANGED <<users, tokens, households, members, children>>
  BY DEF Working, Cascade, Tables
<1> QED
  BY <1>1, <1>3, <1>4, <1>5 DEF OthersWait, ids

\* A request that ends knows nothing any more.
LEMMA EndMoves ==
    ASSUME Working, NEW w \in Workers, End(w)
    PROVE  /\ OthersWait(w) /\ pc'[w] = "idle" /\ alone' = alone \ {w}
           /\ UNCHANGED <<raced, crossed>>
BY DEF Working, End, OthersWait

-----------------------------------------------------------------------------
(* Duplicates *)

\* A step of w that changes no table and, if w begins to insert, inserts what is not there
RaceStep(w) ==
    /\ UNCHANGED <<users, tokens, households, members, children>>
    /\ OthersWait(w) /\ raced \subseteq raced'
    /\ Busy(w, {"register"})' => ByEmail(job'[w].key) = {}
    /\ Busy(w, {"add"})' => Memberships(job'[w].key[1], job'[w].key[2]) = {}
    /\ \A kind \in {"register", "add"} : Busy(w, {kind})' =>
         \A v \in Workers \ {w} : Busy(v, {kind}) /\ job[v].key = job'[w].key => job'[w].key \in raced'

\* Such a step keeps the races noticed.
LEMMA RaceStepKeeps ==
    ASSUME RacesNoticed, NEW w \in Workers, RaceStep(w) PROVE RacesNoticed'
<1>1. \A v \in Workers \ {w} : \A kinds : Busy(v, kinds)' <=> Busy(v, kinds)
  BY DEF RaceStep, OthersWait, Busy
<1>2. ASSUME NEW v \in Workers, Busy(v, {"register"})', ByEmail(job[v].key)' # {}
      PROVE  job'[v].key \in raced'
  BY <1>1, <1>2 DEF RaceStep, OthersWait, RacesNoticed, ByEmail
<1>3. ASSUME NEW v \in Workers, Busy(v, {"add"})', Memberships(job[v].key[1], job[v].key[2])' # {}
      PROVE  job'[v].key \in raced'
  BY <1>1, <1>3 DEF RaceStep, OthersWait, RacesNoticed, Memberships, Active
<1>4. ASSUME NEW kind \in {"register", "add"}, NEW u \in Workers, NEW v \in Workers, u # v,
             Busy(u, {kind})', Busy(v, {kind})', job'[u].key = job'[v].key
      PROVE  job'[v].key \in raced'
  BY <1>1, <1>4 DEF RaceStep, OthersWait, RacesNoticed
<1> QED
  BY <1>2, <1>3, <1>4 DEF RacesNoticed

\* What register and add_household_member do not look at does not race.
LEMMA OtherKindsRace ==
    ASSUME Working, RacesNoticed, NEW w \in Workers, OthersWait(w), raced' = raced,
           pc'[w] = "idle" \/ job'[w].kind \notin {"register", "add"},
           UNCHANGED <<users, tokens, households, members, children>>
    PROVE  RacesNoticed'
<1>1. RaceStep(w)
  BY DEF RaceStep, Busy
<1> QED
  BY <1>1, RaceStepKeeps

\* A user appears only when a registration commits.
LEMMA NewUser ==
    ASSUME Tabled, Working, NEW w \in Workers, Commit(w), NEW u \in DOMAIN users', u \notin DOMAIN users
    PROVE  /\ Busy(w, {"register"}) /\ u = NewId(users) /\ users'[u] = job[w].key
<1>1. job[w].kind = "register" /\ Room(users) /\ Register(w) /\ pc[w] # "idle" /\ KnowsRows(w)
  BY DEF Commit, Working, Login, Logout, CreateHousehold, AddMember, RemoveMember, AddChild, DeleteHousehold
<1>2. job[w].key \in Emails
  BY <1>1 DEF KnowsRows, Busy
<1>3. Inserted(users, job[w].key, users')
  BY <1>1, <1>2, PutRow DEF Register, Tabled
<1> QED
  BY <1>1, <1>3 DEF Inserted, Busy

\* A membership appears only where add_household_member commits or in a new household.
LEMMA NewMember ==
    ASSUME Tabled, Working, NEW w \in Workers, Commit(w), NEW m \in DOMAIN members', m \notin DOMAIN members
    PROVE  /\ m = NewId(members)
           /\ \/ Busy(w, {"add"}) /\ job[w].key = <<members'[m].hh, members'[m].user>>
              \/ Busy(w, {"create"}) /\ members'[m].hh \notin DOMAIN households
<1>1. \/ job[w].kind = "add" /\ Room(members) /\ AddMember(w)
      \/ job[w].kind = "create" /\ Room(households) /\ Room(members) /\ CreateHousehold(w)
  <2>1. members' # members /\ ~\E S : members' = Kill(members, S)
    BY DEF Kill
  <2> QED
    BY <2>1 DEF Commit, Register, Login, Logout, AddChild, RemoveMember, DeleteHousehold
<1>2. pc[w] # "idle" /\ KnowsRows(w)
  BY DEF Commit, Working
<1>3. CASE job[w].kind = "add" /\ Room(members) /\ AddMember(w)
  <2> DEFINE row == [hh |-> job[w].key[1], user |-> job[w].key[2], stat |-> "ACTIVE"]
  <2>1. job[w].key \in (DOMAIN households) \X (DOMAIN users)
    BY <1>2, <1>3 DEF KnowsRows, Busy
  <2>2. row \in MemberRows
    BY <2>1, FoundIds DEF MemberRows, Stat
  <2>3. members' = Put(members, row)
    BY <1>3 DEF AddMember
  <2>4. job[w].key = <<row.hh, row.user>>
    BY <2>1
  <2> HIDE DEF row
  <2>5. Inserted(members, row, members')
    BY <1>3, <2>2, <2>3, PutRow DEF Tabled
  <2>6. m = NewId(members) /\ members'[m] = row
    BY <2>5 DEF Inserted
  <2> QED
    BY <1>2, <1>3, <2>4, <2>6 DEF Busy
<1>4. CASE job[w].kind = "create" /\ Room(households) /\ Room(members) /\ CreateHousehold(w)
  <2> DEFINE row == [hh |-> NewId(households), user |-> job[w].key, stat |-> "ACTIVE"]
  <2>1. job[w].key \in DOMAIN users
    BY <1>2, <1>4 DEF KnowsRows, Busy
  <2>2. NewId(households) \in Ids /\ NewId(households) \notin DOMAIN households
    BY <1>4, TableIds DEF Tabled
  <2>3. row \in MemberRows
    BY <2>1, <2>2, FoundIds DEF MemberRows, Stat
  <2>4. members' = Put(members, row)
    BY <1>4 DEF CreateHousehold
  <2>5. row.hh = NewId(households)
    OBVIOUS
  <2> HIDE DEF row
  <2>6. Inserted(members, row, members')
    BY <1>4, <2>3, <2>4, PutRow DEF Tabled
  <2>7. m = NewId(members) /\ members'[m] = row
    BY <2>6 DEF Inserted
  <2> QED
    BY <1>2, <1>4, <2>2, <2>5, <2>7 DEF Busy
<1> QED
  BY <1>1, <1>3, <1>4

\* A commit inserts the row another request with the same key waits to insert: the two
\* have been noticed.
LEMMA CommitRaces ==
    ASSUME Tabled, Working, RacesNoticed, NEW w \in Workers, Commit(w) PROVE RacesNoticed'
<1>1. /\ OthersWait(w) /\ pc'[w] = "idle" /\ raced' = raced /\ RowsKept
  BY EndMoves, CommitTables DEF Commit, Working
<1>2. \A v \in Workers : \A kinds : Busy(v, kinds)' => Busy(v, kinds) /\ v # w
  BY <1>1 DEF OthersWait, Busy
<1>3. ASSUME NEW kind \in {"register", "add"}, NEW u \in Workers, NEW v \in Workers, u # v,
             Busy(u, {kind})', Busy(v, {kind})', job'[u].key = job'[v].key
      PROVE  job'[v].key \in raced'
  BY <1>1, <1>2, <1>3 DEF OthersWait, RacesNoticed
<1>4. ASSUME NEW v \in Workers, Busy(v, {"register"})', ByEmail(job[v].key)' # {}
      PROVE  job'[v].key \in raced'
  <2>1. Busy(v, {"register"}) /\ job'[v] = job[v] /\ v # w
    BY <1>1, <1>2, <1>4 DEF OthersWait
  <2>2. PICK u \in DOMAIN users' : users'[u] = job[v].key
    BY <1>4, <2>1 DEF ByEmail
  <2>3. CASE u \in DOMAIN users
    BY <1>1, <2>1, <2>2, <2>3 DEF RowsKept, RacesNoticed, ByEmail
  <2>4. CASE u \notin DOMAIN users
    <3>1. Busy(w, {"register"}) /\ job[w].key = job[v].key
      BY <2>2, <2>4, NewUser
    <3> QED
      BY <1>1, <2>1, <3>1 DEF RacesNoticed
  <2> QED
    BY <2>3, <2>4
<1>5. ASSUME NEW v \in Workers, Busy(v, {"add"})', Memberships(job[v].key[1], job[v].key[2])' # {}
      PROVE  job'[v].key \in raced'
  <2>1. Busy(v, {"add"}) /\ job'[v] = job[v] /\ v # w /\ KnowsRows(v)
    BY <1>1, <1>2, <1>5 DEF OthersWait, Working
  <2>2. PICK m \in DOMAIN members' : /\ members'[m].stat = "ACTIVE"
                                     /\ members'[m].hh = job[v].key[1] /\ members'[m].user = job[v].key[2]
    BY <1>5, <2>1 DEF Memberships, Active
  <2>3. CASE m \in DOMAIN members
    BY <1>1, <2>1, <2>2, <2>3 DEF RowsKept, RacesNoticed, Memberships, Active
  <2>4. CASE m \notin DOMAIN members
    <3>1. job[v].key \in (DOMAIN households) \X (DOMAIN users)
      BY <2>1 DEF KnowsRows, Busy
    <3>2. Busy(w, {"add"}) /\ job[w].key = <<members'[m].hh, members'[m].user>>
      BY <2>2, <2>4, <3>1, NewMember
    <3>3. job[w].key = job[v].key
      BY <2>2, <3>1, <3>2
    <3> QED
      BY <1>1, <2>1, <3>2, <3>3 DEF RacesNoticed
  <2> QED
    BY <2>3, <2>4
<1> QED
  BY <1>3, <1>4, <1>5 DEF RacesNoticed

\* create_user and add_household_member look for the row they will insert and for nobody
\* else who inserts it; every other request leaves that as it is.
LEMMA NextRaces == Tabled /\ Working /\ RacesNoticed /\ [Next]_vars => RacesNoticed'
<1> SUFFICES ASSUME Tabled, Working, RacesNoticed, [Next]_vars PROVE RacesNoticed'
  OBVIOUS
<1>1. ASSUME NEW w \in Workers, NEW e \in Emails, StartRegister(w, e) PROVE RacesNoticed'
  <2>1. /\ OthersWait(w) /\ pc'[w] = "commit" /\ job'[w].kind = "register" /\ job'[w].key = e
        /\ UNCHANGED <<users, tokens, households, members, children>>
    BY <1>1, EnterMoves DEF StartRegister
  <2>2. RaceStep(w)
    BY <1>1, <2>1 DEF RaceStep, StartRegister, Racing, Others, Busy
  <2> QED
    BY <2>2, RaceStepKeeps
<1>2. ASSUME NEW w \in Workers, NEW by, NEW h, NEW u, StartAddMember(w, by, h, u) PROVE RacesNoticed'
  <2>1. /\ OthersWait(w) /\ pc'[w] = "commit" /\ job'[w].kind = "add" /\ job'[w].key = <<h, u>>
        /\ UNCHANGED <<users, tokens, households, members, children>>
    BY <1>2, EnterMoves DEF StartAddMember
  <2>2. RaceStep(w)
    BY <1>2, <2>1 DEF RaceStep, StartAddMember, Racing, Others, Busy
  <2> QED
    BY <2>2, RaceStepKeeps
<1>3. ASSUME NEW w \in Workers, NEW label, NEW kind \in {"login", "logout", "create", "remove", "child", "delete"},
             NEW key, NEW ids, Enter(w, label, kind, key, ids), raced' = raced
      PROVE  RacesNoticed'
  BY <1>3, EnterMoves, OtherKindsRace
<1>4. ASSUME NEW w \in Workers, Password(w) PROVE RacesNoticed'
  <2>1. raced' = raced
    BY <1>4 DEF Password
  <2> QED
    BY <1>4, <2>1, PasswordMoves, OtherKindsRace
<1>5. ASSUME NEW w \in Workers, Cascade(w) PROVE RacesNoticed'
  <2>1. raced' = raced
    BY <1>5 DEF Cascade
  <2> QED
    BY <1>5, <2>1, CascadeMoves, OtherKindsRace
<1>6. ASSUME NEW w \in Workers, Abort(w) PROVE RacesNoticed'
  <2>1. UNCHANGED <<users, tokens, households, members, children, raced>> /\ OthersWait(w) /\ pc'[w] = "idle"
    BY <1>6, EndMoves DEF Abort, Tables
  <2> QED
    BY <2>1, OtherKindsRace
<1>7. CASE Tick \/ UNCHANGED vars
  BY <1>7 DEF Tick, vars, Tables, RacesNoticed, Busy, ByEmail, Memberships, Active
<1>8. ASSUME NEW w \in Workers, Request(w) PROVE RacesNoticed'
  <2>1. CASE Password(w) \/ Cascade(w) \/ Abort(w) \/ Commit(w)
    BY <2>1, <1>4, <1>5, <1>6, CommitRaces
  <2>2. CASE \E e \in Emails : StartRegister(w, e) \/ StartLogin(w, e)
    BY <2>2, <1>1, <1>3 DEF StartLogin
  <2>3. CASE \E t \in DOMAIN tokens : StartLogout(w, t)
    BY <2>3, <1>3 DEF StartLogout
  <2>4. CASE \E u \in DOMAIN users : StartCreateHousehold(w, u)
    BY <2>4, <1>3 DEF StartCreateHousehold
  <2>5. CASE \E u \in DOMAIN users, h \in DOMAIN households :
               \/ StartAddChild(w, u, h) \/ StartDeleteHousehold(w, u, h)
               \/ \E v \in DOMAIN users : StartAddMember(w, u, h, v)
               \/ \E m \in DOMAIN members : StartRemoveMember(w, u, h, m)
    BY <2>5, <1>2, <1>3 DEF StartAddChild, StartDeleteHousehold, StartRemoveMember
  <2> QED
    BY <1>8, <2>1, <2>2, <2>3, <2>4, <2>5 DEF Request
<1> QED
  BY <1>7, <1>8 DEF Next

\* The histories of races and of crossed deletions only grow.
LEMMA HistoriesGrow == [Next]_vars => raced \subseteq raced' /\ crossed \subseteq crossed'
<1>1. CASE Tick \/ UNCHANGED vars
  BY <1>1 DEF Tick, vars
<1>2. ASSUME NEW w \in Workers, Request(w) PROVE raced \subseteq raced' /\ crossed \subseteq crossed'
  <2>1. CASE Password(w) \/ Cascade(w) \/ Abort(w) \/ Commit(w)
    BY <2>1 DEF Password, Cascade, Abort, Commit, End
  <2>2. CASE \E e \in Emails : StartRegister(w, e) \/ StartLogin(w, e)
    BY <2>2 DEF StartRegister, StartLogin, Racing
  <2>3. CASE \E t \in DOMAIN tokens : StartLogout(w, t)
    BY <2>3 DEF StartLogout
  <2>4. CASE \E u \in DOMAIN users : StartCreateHousehold(w, u)
    BY <2>4 DEF StartCreateHousehold
  <2>5. CASE \E u \in DOMAIN users, h \in DOMAIN households :
               \/ StartAddChild(w, u, h) \/ StartDeleteHousehold(w, u, h)
               \/ \E v \in DOMAIN users : StartAddMember(w, u, h, v)
               \/ \E m \in DOMAIN members : StartRemoveMember(w, u, h, m)
    BY <2>5 DEF StartAddChild, StartDeleteHousehold, StartAddMember, StartRemoveMember, Racing, Crossing
  <2> QED
    BY <1>2, <2>1, <2>2, <2>3, <2>4, <2>5 DEF Request
<1> QED
  BY <1>1, <1>2 DEF Next

\* A row that doubles another is inserted by a request that was noticed.
LEMMA NextDuplicates ==
    Tabled /\ Working /\ OneOwnership /\ RacesNoticed /\ DuplicatesOnlyWhereRaced /\ [Next]_vars
      => DuplicatesOnlyWhereRaced'
<1> SUFFICES ASSUME Tabled, Working, OneOwnership, RacesNoticed, DuplicatesOnlyWhereRaced, [Next]_vars
             PROVE  DuplicatesOnlyWhereRaced'
  OBVIOUS
<1>1. RowsKept /\ raced \subseteq raced'
  BY NextWorks, HistoriesGrow
<1>2. CASE ~\E w \in Workers : Commit(w)
  BY <1>1, <1>2, QuietSteps DEF DuplicatesOnlyWhereRaced, Active
<1>3. ASSUME NEW w \in Workers, Commit(w) PROVE DuplicatesOnlyWhereRaced'
  <2>1. ASSUME NEW u \in DOMAIN users', NEW v \in DOMAIN users', users'[u] = users'[v], u # v
        PROVE  users'[u] \in raced'
    <3>1. CASE u \in DOMAIN users /\ v \in DOMAIN users
      BY <1>1, <2>1, <3>1 DEF RowsKept, DuplicatesOnlyWhereRaced
    <3>2. ASSUME NEW x \in DOMAIN users, NEW y \in DOMAIN users', y \notin DOMAIN users, users'[x] = users'[y]
          PROVE  users'[y] \in raced'
      <4>1. Busy(w, {"register"}) /\ users'[y] = job[w].key
        BY <1>3, <3>2, NewUser
      <4>2. x \in ByEmail(job[w].key)
        BY <1>1, <3>2, <4>1 DEF RowsKept, ByEmail
      <4> QED
        BY <1>1, <4>1, <4>2 DEF RacesNoticed
    <3> QED
      BY <1>3, <2>1, <3>1, <3>2, NewUser
  <2>2. ASSUME NEW m \in Active(members)', NEW n \in Active(members)', m # n,
               members'[m].hh = members'[n].hh, members'[m].user = members'[n].user
        PROVE  <<members'[m].hh, members'[m].user>> \in raced'
    <3>0. m \in DOMAIN members' /\ n \in DOMAIN members'
      BY DEF Active
    <3>1. CASE m \in DOMAIN members /\ n \in DOMAIN members
      BY <1>1, <2>2, <3>0, <3>1 DEF RowsKept, DuplicatesOnlyWhereRaced, Active
    <3>2. ASSUME NEW x \in DOMAIN members, NEW y \in DOMAIN members', y \notin DOMAIN members,
                 members'[x].stat = "ACTIVE",
                 members'[x].hh = members'[y].hh, members'[x].user = members'[y].user
          PROVE  <<members'[y].hh, members'[y].user>> \in raced'
      <4>1. members[x].hh = members'[y].hh /\ members[x].user = members'[y].user /\ x \in Active(members)
        BY <1>1, <3>2 DEF RowsKept, Active
      <4>2. Busy(w, {"add"}) /\ job[w].key = <<members'[y].hh, members'[y].user>>
        BY <1>3, <3>2, <4>1, NewMember DEF Tabled
      <4>3. x \in Memberships(job[w].key[1], job[w].key[2])
        BY <4>1, <4>2 DEF Memberships
      <4> QED
        BY <1>1, <4>2, <4>3 DEF RacesNoticed
    <3> QED
      BY <1>3, <2>2, <3>0, <3>1, <3>2, NewMember DEF Active
  <2> QED
    BY <2>1, <2>2 DEF DuplicatesOnlyWhereRaced
<1> QED
  BY <1>2, <1>3

-----------------------------------------------------------------------------
(* Deleted households *)

\* A step of w that changes no table: what w begins to add is noticed by the deletions, and
\* what w is about to delete is everything
SeeStep(w) ==
    /\ UNCHANGED <<users, tokens, households, members, children>>
    /\ OthersWait(w) /\ crossed \subseteq crossed'
    /\ \A h \in DOMAIN households : AddsTo(w, h)' =>
         /\ h \in Active(households)
         /\ \A v \in Workers \ {w} : Busy(v, {"delete"}) /\ pc[v] = "commit" /\ job[v].key = h => h \in crossed'
    /\ Busy(w, {"delete"})' /\ pc'[w] = "commit" /\ job'[w].key \notin crossed' =>
         /\ \A v \in Workers \ {w} : ~AddsTo(v, job'[w].key)
         /\ Children(job'[w].key) \subseteq job'[w].ids

\* Such a step keeps every deletion aware of what it deletes.
LEMMA SeeStepKeeps ==
    ASSUME Working, DeletionsSee, DeletedAreEmpty, NEW w \in Workers, SeeStep(w)
    PROVE  DeletionsSee' /\ DeletedAreEmpty'
<1>1. /\ \A v \in Workers \ {w} : \A kinds : Busy(v, kinds)' <=> Busy(v, kinds)
      /\ \A v \in Workers \ {w} : \A h : AddsTo(v, h)' <=> AddsTo(v, h)
      /\ \A v \in Workers \ {w} : pc'[v] = pc[v] /\ job'[v] = job[v]
  BY DEF SeeStep, OthersWait, Busy, AddsTo
<1>2. /\ households' = households /\ crossed \subseteq crossed'
      /\ \A h : Children(h)' = Children(h) /\ RowsOf(members, h)' = RowsOf(members, h)
      /\ \A h : RowsOf(children, h)' = RowsOf(children, h)
      /\ Active(households)' = Active(households)
  BY DEF SeeStep, Children, RowsOf, Active
<1>3. ASSUME NEW v \in Workers, Busy(v, {"delete"})', pc'[v] = "commit", job'[v].key \notin crossed'
      PROVE  /\ \A u \in Workers : ~AddsTo(u, job[v].key)'
             /\ (Children(job[v].key) \subseteq job[v].ids)'
  <2>1. CASE v = w
    <3>1. ~AddsTo(w, job[w].key)'
      BY <1>3, <2>1 DEF AddsTo, Busy
    <3> QED
      BY <1>1, <1>2, <1>3, <2>1, <3>1 DEF SeeStep, AddsTo, Children
  <2>2. CASE v # w
    <3>1. Busy(v, {"delete"}) /\ pc[v] = "commit" /\ job[v].key \notin crossed /\ job'[v] = job[v]
      BY <1>1, <1>2, <1>3, <2>2
    <3>2. job[v].key \in DOMAIN households
      BY <3>1 DEF Working, KnowsRows
    <3>3. (\A u \in Workers : ~AddsTo(u, job[v].key)) /\ Children(job[v].key) \subseteq job[v].ids
      BY <3>1 DEF DeletionsSee
    <3>4. \A u \in Workers : ~AddsTo(u, job[v].key)'
      BY <1>1, <1>3, <2>2, <3>1, <3>2, <3>3 DEF SeeStep, AddsTo, Busy
    <3> QED
      BY <1>2, <3>1, <3>3, <3>4 DEF Children
  <2> QED
    BY <2>1, <2>2
<1>4. ASSUME NEW h \in DOMAIN households \ (Active(households) \cup crossed'), NEW v \in Workers
      PROVE  ~AddsTo(v, h)'
  BY <1>1, <1>2 DEF SeeStep, DeletionsSee
<1>5. DeletedAreEmpty'
  BY <1>2 DEF DeletedAreEmpty
<1> QED
  BY <1>2, <1>3, <1>4, <1>5 DEF DeletionsSee

\* A row of another table appears only where a POST in its household commits.
LEMMA NewChild ==
    ASSUME Tabled, Working, NEW w \in Workers, Commit(w), NEW c \in DOMAIN children', c \notin DOMAIN children
    PROVE  Busy(w, {"child"}) /\ children'[c].hh = job[w].key[1]
<1>1. job[w].kind = "child" /\ Room(children) /\ AddChild(w) /\ pc[w] # "idle" /\ KnowsRows(w)
  <2>1. children' # children /\ ~\E S : children' = Kill(children, S)
    BY DEF Kill
  <2> QED
    BY <2>1 DEF Commit, Register, Login, Logout, CreateHousehold, AddMember, RemoveMember,
                DeleteHousehold, Working
<1> DEFINE row == [hh |-> job[w].key[1], stat |-> "ACTIVE"]
<1>2. job[w].key \in (DOMAIN households) \X (DOMAIN users)
  BY <1>1 DEF KnowsRows, Busy
<1>3. row \in ChildRows
  BY <1>2, FoundIds DEF ChildRows, Stat
<1>4. children' = Put(children, row)
  BY <1>1 DEF AddChild
<1>5. row.hh = job[w].key[1]
  OBVIOUS
<1> HIDE DEF row
<1>6. Inserted(children, row, children')
  BY <1>1, <1>3, <1>4, PutRow DEF Tabled
<1>7. children'[c] = row
  BY <1>6 DEF Inserted
<1> QED
  BY <1>1, <1>5, <1>7 DEF Busy

\* A commit that does not add to a household adds nothing to it.
LEMMA CommitAdds ==
    ASSUME Tabled, Working, NEW w \in Workers, Commit(w), NEW h \in DOMAIN households, ~AddsTo(w, h)
    PROVE  /\ RowsOf(members, h)' \subseteq RowsOf(members, h)
           /\ RowsOf(children, h)' \subseteq RowsOf(children, h)
           /\ Children(h)' \subseteq Children(h)
<1>1. RowsKept
  BY CommitTables
<1>2. ASSUME NEW m \in RowsOf(members, h)' PROVE m \in RowsOf(members, h)
  <2>1. m \in DOMAIN members' /\ members'[m].hh = h /\ members'[m].stat = "ACTIVE"
    BY <1>2 DEF RowsOf, Active
  <2>2. m \in DOMAIN members
    BY <2>1, NewMember DEF AddsTo, Busy
  <2> QED
    BY <1>1, <2>1, <2>2 DEF RowsKept, RowsOf, Active
<1>3. ASSUME NEW c \in RowsOf(children, h)' PROVE c \in RowsOf(children, h)
  <2>1. c \in DOMAIN children' /\ children'[c].hh = h /\ children'[c].stat = "ACTIVE"
    BY <1>3 DEF RowsOf, Active
  <2>2. c \in DOMAIN children
    BY <2>1, NewChild DEF AddsTo, Busy
  <2> QED
    BY <1>1, <2>1, <2>2 DEF RowsKept, RowsOf, Active
<1>4. /\ RowsOf(members, h)' \subseteq RowsOf(members, h)
      /\ RowsOf(children, h)' \subseteq RowsOf(children, h)
  BY <1>2, <1>3
<1> QED
  BY <1>4 DEF Children

\* Deleting a household that was not crossed leaves nothing in it.
LEMMA DeletionEmpties ==
    ASSUME Tabled, Working, DeletionsSee, NEW w \in Workers, Commit(w),
           job[w].kind = "delete", DeleteHousehold(w), NEW h, h = job[w].key, h \notin crossed
    PROVE  /\ RowsOf(members, h)' = {} /\ RowsOf(children, h)' = {}
           /\ \A v \in Workers : ~AddsTo(v, h)
<1> DEFINE out(table) == {x[2] : x \in {y \in job[w].ids : y[1] = table}}
<1>1. Children(h) \subseteq job[w].ids /\ \A v \in Workers : ~AddsTo(v, h)
  BY DEF DeletionsSee, Commit, Busy
<1>2. \A m \in RowsOf(members, h) : m \in out("member")
  <2>1. ASSUME NEW m \in RowsOf(members, h) PROVE m \in out("member")
    <3>1. <<"member", m>> \in job[w].ids
      BY <1>1, <2>1 DEF Children
    <3> QED
      BY <3>1
  <2> QED
    BY <2>1
<1>3. \A c \in RowsOf(children, h) : c \in out("child")
  <2>1. ASSUME NEW c \in RowsOf(children, h) PROVE c \in out("child")
    <3>1. <<"child", c>> \in job[w].ids
      BY <1>1, <2>1 DEF Children
    <3> QED
      BY <3>1
  <2> QED
    BY <2>1
<1>4. members' = Kill(members, out("member")) /\ children' = Kill(children, out("child"))
  BY DEF DeleteHousehold
<1> HIDE DEF out
<1>5. /\ DOMAIN members' = DOMAIN members
      /\ \A m \in DOMAIN members :
           /\ members'[m].hh = members[m].hh
           /\ members'[m].stat = IF m \in out("member") THEN "DELETED" ELSE members[m].stat
  BY <1>4, KillMembers DEF Tabled
<1>6. /\ DOMAIN children' = DOMAIN children
      /\ \A c \in DOMAIN children :
           /\ children'[c].hh = children[c].hh
           /\ children'[c].stat = IF c \in out("child") THEN "DELETED" ELSE children[c].stat
  BY <1>4, KillChildren DEF Tabled
<1>7. {m \in {i \in DOMAIN members' : members'[i].stat = "ACTIVE"} : members'[m].hh = h} = {}
  BY <1>2, <1>5 DEF RowsOf, Active
<1>8. {c \in {i \in DOMAIN children' : children'[i].stat = "ACTIVE"} : children'[c].hh = h} = {}
  BY <1>3, <1>6 DEF RowsOf, Active
<1> QED
  BY <1>1, <1>7, <1>8 DEF RowsOf, Active

\* What a household is when it is deleted after a commit, it was before, or this commit
\* deleted it.
LEMMA NewlyDeleted ==
    ASSUME Tabled, Working, NEW w \in Workers, Commit(w),
           NEW h \in DOMAIN households', households'[h].stat # "ACTIVE"
    PROVE  /\ h \in DOMAIN households
           /\ \/ h \notin Active(households)
              \/ job[w].kind = "delete" /\ DeleteHousehold(w) /\ h = job[w].key
<1>1. CASE households' = households
  BY <1>1 DEF Active
<1>2. CASE job[w].kind = "create" /\ Room(households) /\ CreateHousehold(w)
  <2> DEFINE row == [owner |-> job[w].key, stat |-> "ACTIVE"]
  <2>1. job[w].key \in DOMAIN users
    BY <1>2 DEF Working, KnowsRows, Busy, Commit
  <2>2. row \in HouseholdRows
    BY <2>1, FoundIds DEF HouseholdRows, Stat
  <2>3. households' = Put(households, row) /\ row.stat = "ACTIVE"
    BY <1>2 DEF CreateHousehold
  <2> HIDE DEF row
  <2>4. Inserted(households, row, households')
    BY <1>2, <2>2, <2>3, PutRow DEF Tabled
  <2> QED
    BY <2>3, <2>4 DEF Inserted, Active
<1>3. CASE job[w].kind = "delete" /\ DeleteHousehold(w)
  <2>1. /\ DOMAIN households' = DOMAIN households
        /\ households'[h].stat = IF h \in {job[w].key} THEN "DELETED" ELSE households[h].stat
    BY <1>3, KillHouseholds DEF DeleteHousehold, Tabled
  <2> QED
    BY <1>3, <2>1 DEF Active
<1> QED
  BY <1>1, <1>2, <1>3 DEF Commit, Register, Login, Logout, AddMember, RemoveMember, AddChild

\* A commit ends a deletion that saw everything, or adds where no deletion looks.
LEMMA CommitSees ==
    ASSUME Tabled, Working, DeletionsSee, DeletedAreEmpty, NEW w \in Workers, Commit(w)
    PROVE  DeletionsSee' /\ DeletedAreEmpty'
<1>1. OthersWait(w) /\ pc'[w] = "idle" /\ crossed' = crossed
  BY EndMoves DEF Commit
<1>2. \A v \in Workers : /\ \A kinds : Busy(v, kinds)' => Busy(v, kinds) /\ v # w /\ job'[v] = job[v] /\ pc'[v] = pc[v]
                         /\ \A h : AddsTo(v, h)' => AddsTo(v, h)
  BY <1>1 DEF OthersWait, Busy, AddsTo
<1>3. ASSUME NEW v \in Workers, Busy(v, {"delete"})', pc'[v] = "commit", job'[v].key \notin crossed'
      PROVE  /\ \A u \in Workers : ~AddsTo(u, job[v].key)'
             /\ (Children(job[v].key) \subseteq job[v].ids)'
  <2>1. Busy(v, {"delete"}) /\ pc[v] = "commit" /\ job'[v] = job[v] /\ job[v].key \notin crossed
    BY <1>1, <1>2, <1>3
  <2>2. job[v].key \in DOMAIN households
    BY <2>1 DEF Working, KnowsRows
  <2>3. (\A u \in Workers : ~AddsTo(u, job[v].key)) /\ Children(job[v].key) \subseteq job[v].ids
    BY <2>1 DEF DeletionsSee
  <2> DEFINE h == job[v].key
  <2> HIDE DEF h
  <2>4. (Children(h))' \subseteq Children(h)
    <3>1. h \in DOMAIN households /\ ~AddsTo(w, h)
      BY <2>2, <2>3 DEF h
    <3> SUFFICES ASSUME NEW g \in DOMAIN households, g = h PROVE Children(g)' \subseteq Children(g)
      BY <2>1, <3>1 DEF h
    <3> QED
      BY <3>1, CommitAdds
  <2> QED
    BY <1>2, <2>1, <2>3, <2>4 DEF h, AddsTo, Busy
<1>4. ASSUME NEW h \in DOMAIN households', households'[h].stat # "ACTIVE", h \notin crossed'
      PROVE  /\ \A v \in Workers : ~AddsTo(v, h)'
             /\ RowsOf(members, h)' = {} /\ RowsOf(children, h)' = {}
  <2>1. h \in DOMAIN households /\ h \notin crossed
    BY <1>1, <1>4, NewlyDeleted
  <2>2. CASE h \notin Active(households)
    <3>1. /\ \A v \in Workers : ~AddsTo(v, h)
          /\ RowsOf(members, h) = {} /\ RowsOf(children, h) = {}
      BY <2>1, <2>2 DEF DeletionsSee, DeletedAreEmpty
    <3> QED
      BY <1>2, <2>1, <3>1, CommitAdds
  <2>3. CASE job[w].kind = "delete" /\ DeleteHousehold(w) /\ h = job[w].key
    <3>1. /\ RowsOf(members, h)' = {} /\ RowsOf(children, h)' = {}
          /\ \A v \in Workers : ~AddsTo(v, h)
      BY <2>1, <2>3, DeletionEmpties
    <3> QED
      BY <1>2, <3>1
  <2> QED
    BY <1>4, <2>2, <2>3, NewlyDeleted
<1> QED
  BY <1>3, <1>4 DEF DeletionsSee, DeletedAreEmpty, Active

\* Adding and deleting notice each other, whichever comes first.
LEMMA NextSees ==
    Tabled /\ Working /\ DeletionsSee /\ DeletedAreEmpty /\ [Next]_vars => DeletionsSee' /\ DeletedAreEmpty'
<1> SUFFICES ASSUME Tabled, Working, DeletionsSee, DeletedAreEmpty, [Next]_vars
             PROVE  DeletionsSee' /\ DeletedAreEmpty'
  OBVIOUS
<1>1. ASSUME NEW w \in Workers, NEW label \in {"password", "cascade", "commit"},
             NEW kind \in {"add", "child"}, NEW h, NEW u,
             Enter(w, label, kind, <<h, u>>, {}), Crossing(w, h), h \in Active(households)
      PROVE  DeletionsSee' /\ DeletedAreEmpty'
  <2>1. /\ OthersWait(w) /\ job'[w].kind = kind /\ job'[w].key = <<h, u>>
        /\ UNCHANGED <<users, tokens, households, members, children>>
    BY <1>1, EnterMoves
  <2>2. SeeStep(w)
    BY <1>1, <2>1 DEF SeeStep, Crossing, Others, AddsTo, Busy
  <2> QED
    BY <2>2, SeeStepKeeps
<1>2. ASSUME NEW w \in Workers, OthersWait(w), crossed \subseteq crossed',
             UNCHANGED <<users, tokens, households, members, children>>,
             pc'[w] = "idle" \/ job'[w].kind \notin {"add", "child", "delete"}
                             \/ (job'[w].kind = "delete" /\ pc'[w] # "commit")
      PROVE  DeletionsSee' /\ DeletedAreEmpty'
  <2>1. SeeStep(w)
    BY <1>2 DEF SeeStep, AddsTo, Busy
  <2> QED
    BY <2>1, SeeStepKeeps
<1>3. ASSUME NEW w \in Workers, NEW kind \in {"register", "login", "logout", "create", "remove", "delete"},
             NEW label, kind = "delete" => label = "cascade", NEW key, NEW ids,
             Enter(w, label, kind, key, ids)
      PROVE  DeletionsSee' /\ DeletedAreEmpty'
  BY <1>2, <1>3, EnterMoves, HistoriesGrow
<1>4. ASSUME NEW w \in Workers, Cascade(w) PROVE DeletionsSee' /\ DeletedAreEmpty'
  <2>1. /\ OthersWait(w) /\ job'[w].kind = "delete" /\ job'[w].key = job[w].key
        /\ job'[w].ids = Children(job[w].key)
        /\ UNCHANGED <<users, tokens, households, members, children>>
    BY <1>4, CascadeMoves
  <2>2. SeeStep(w)
    BY <1>4, <2>1 DEF SeeStep, Cascade, Others, AddsTo, Busy
  <2> QED
    BY <2>2, SeeStepKeeps
<1>5. ASSUME NEW w \in Workers, Password(w) PROVE DeletionsSee' /\ DeletedAreEmpty'
  BY <1>2, <1>5, PasswordMoves, HistoriesGrow
<1>6. ASSUME NEW w \in Workers, Abort(w) PROVE DeletionsSee' /\ DeletedAreEmpty'
  <2>1. UNCHANGED <<users, tokens, households, members, children>> /\ OthersWait(w) /\ pc'[w] = "idle"
    BY <1>6, EndMoves DEF Abort, Tables
  <2> QED
    BY <1>2, <2>1, HistoriesGrow
<1>7. CASE Tick \/ UNCHANGED vars
  BY <1>7 DEF Tick, vars, Tables, DeletionsSee, DeletedAreEmpty, Busy, AddsTo, Children, RowsOf, Active
<1>8. ASSUME NEW w \in Workers, Request(w) PROVE DeletionsSee' /\ DeletedAreEmpty'
  <2>1. CASE Password(w) \/ Cascade(w) \/ Abort(w) \/ Commit(w)
    BY <2>1, <1>4, <1>5, <1>6, CommitSees
  <2>2. CASE \E e \in Emails : StartRegister(w, e) \/ StartLogin(w, e)
    BY <2>2, <1>3 DEF StartRegister, StartLogin
  <2>3. CASE \E t \in DOMAIN tokens : StartLogout(w, t)
    BY <2>3, <1>3 DEF StartLogout
  <2>4. CASE \E u \in DOMAIN users : StartCreateHousehold(w, u)
    BY <2>4, <1>3 DEF StartCreateHousehold
  <2>5. CASE \E u \in DOMAIN users, h \in DOMAIN households :
               \/ StartAddChild(w, u, h) \/ StartDeleteHousehold(w, u, h)
               \/ \E v \in DOMAIN users : StartAddMember(w, u, h, v)
               \/ \E m \in DOMAIN members : StartRemoveMember(w, u, h, m)
    <3>1. ASSUME NEW u \in DOMAIN users, NEW h \in DOMAIN households, StartAddChild(w, u, h)
          PROVE  DeletionsSee' /\ DeletedAreEmpty'
      BY <1>1, <3>1 DEF StartAddChild, Enters
    <3>2. ASSUME NEW u \in DOMAIN users, NEW h \in DOMAIN households, NEW v \in DOMAIN users,
                 StartAddMember(w, u, h, v)
          PROVE  DeletionsSee' /\ DeletedAreEmpty'
      BY <1>1, <3>2 DEF StartAddMember, Owns
    <3> QED
      BY <2>5, <3>1, <3>2, <1>3 DEF StartDeleteHousehold, StartRemoveMember
  <2> QED
    BY <1>8, <2>1, <2>2, <2>3, <2>4, <2>5 DEF Request
<1> QED
  BY <1>7, <1>8 DEF Next

-----------------------------------------------------------------------------
(* Sessions *)

\* A set of numbers has a least one.
LEMMA Least == ASSUME NEW T \in SUBSET Nat, T # {} PROVE \E m \in T : \A t \in T : m <= t
<1> DEFINE R == OpToRel(<, Nat)
<1>1. IsWellFoundedOn(R, Nat)
  BY NatLessThanWellFounded
<1>2. \A x, y \in Nat : x < y => <<x, y>> \in R
  BY DEF OpToRel
<1> HIDE DEF R
<1>3. PICK m \in T : \A y \in T : ~(<<y, m>> \in R)
  BY <1>1, WFMin
<1>4. ASSUME NEW t \in T PROVE m <= t
  <2>1. m \in Nat /\ t \in Nat /\ ~(t < m)
    BY <1>2, <1>3
  <2> QED
    BY <2>1
<1> QED
  BY <1>3, <1>4

\* Of sessions in the order they were made, at most k have fewer than k after them.
LEMMA FewSpared ==
    ASSUME NEW S \in SUBSET Nat, IsFiniteSet(S), NEW k \in Nat
    PROVE  Cardinality({t \in S : Cardinality({s \in S : s > t}) < k}) <= k
<1> DEFINE later(t) == {s \in S : s > t}
           T == {t \in S : Cardinality(later(t)) < k}
<1>1. T \subseteq S /\ IsFiniteSet(T)
  BY FS_Subset
<1>2. Cardinality(T) <= k
  <2>1. CASE T = {}
    <3>1. Cardinality(T) = 0
      BY <2>1, FS_EmptySet
    <3> QED
      BY <3>1
  <2>2. CASE T # {}
    <3>1. T \in SUBSET Nat
      BY <1>1
    <3>2. PICK m \in T : \A t \in T : m <= t
      BY <2>2, <3>1, Least
    <3>3. ASSUME NEW t \in T \ {m} PROVE t \in later(m)
      <4>1. t \in S /\ t \in Nat /\ m \in Nat /\ m <= t /\ t # m
        BY <3>1, <3>2, <3>3
      <4> QED
        BY <4>1
    <3>4. IsFiniteSet(later(m)) /\ Cardinality(later(m)) < k
      BY <3>2, FS_Subset
    <3> HIDE DEF T, later
    <3>5. Cardinality(later(m)) \in Nat /\ Cardinality(T \ {m}) <= Cardinality(later(m))
      BY <3>3, <3>4, FS_Subset, FS_CardinalityType
    <3>6. Cardinality(T \ {m}) = Cardinality(T) - 1 /\ Cardinality(T) \in Nat
      BY <1>1, <3>2, FS_RemoveElement, FS_CardinalityType
    <3> QED
      BY <3>4, <3>5, <3>6
  <2> QED
    BY <2>1, <2>2
<1> QED
  BY <1>2

\* What login leaves of a user's sessions makes room for the new one.
LEMMA OldestLeavesRoom ==
    ASSUME NEW S \in SUBSET Nat, IsFiniteSet(S)
    PROVE  IsFiniteSet(S \ Oldest(S)) /\ Cardinality(S \ Oldest(S)) <= MaxActiveTokens - 1
<1>1. MaxActiveTokens - 1 \in Nat
  BY BoundsAssumption
<1> DEFINE after(t) == Cardinality({s \in S : s > t})
<1>2. \A t \in S : after(t) \in Nat
  <2>1. ASSUME NEW t \in S PROVE Cardinality({s \in S : s > t}) \in Nat
    BY FS_Subset, FS_CardinalityType
  <2> QED
    BY <2>1
<1>3. Oldest(S) = {t \in S : after(t) >= MaxActiveTokens - 1}
  BY DEF Oldest
<1>4. Cardinality({t \in S : after(t) < MaxActiveTokens - 1}) <= MaxActiveTokens - 1
  BY <1>1, FewSpared
<1> HIDE DEF after
<1>5. S \ Oldest(S) = {t \in S : after(t) < MaxActiveTokens - 1}
  <2>1. \A t \in S : ~(after(t) >= MaxActiveTokens - 1) <=> after(t) < MaxActiveTokens - 1
    BY <1>1, <1>2
  <2> QED
    BY <1>3, <2>1, Zenon
<1>6. IsFiniteSet(S \ Oldest(S))
  BY FS_Subset
<1> QED
  BY <1>4, <1>5, <1>6

\* A session appears only when a sign-in commits, and is its user's.
LEMMA NewToken ==
    ASSUME Tabled, Working, NEW w \in Workers, Commit(w), NEW t \in DOMAIN tokens', t \notin DOMAIN tokens
    PROVE  Busy(w, {"login"}) /\ t = NewId(tokens) /\ tokens'[t].user = job[w].key
<1>1. job[w].kind = "login" /\ Room(tokens) /\ Login(w) /\ pc[w] # "idle" /\ KnowsRows(w) /\ job[w] \in Jobs
  <2>1. tokens' # tokens /\ ~\E S : tokens' = Kill(tokens, S)
    BY DEF Kill
  <2> QED
    BY <2>1 DEF Commit, Register, Logout, CreateHousehold, AddMember, RemoveMember, AddChild,
                DeleteHousehold, Working
<1> DEFINE killed == Kill(tokens, job[w].ids)
           row == [user |-> job[w].key, second |-> job[w].second, stat |-> "ACTIVE"]
<1>2. job[w].key \in DOMAIN users
  BY <1>1 DEF KnowsRows, Busy
<1>3. row \in TokenRows /\ row.user = job[w].key
  BY <1>1, <1>2, FoundIds DEF TokenRows, Stat, Jobs
<1>4. Table(killed, TokenRows) /\ DOMAIN killed = DOMAIN tokens
  BY KillTokens DEF Tabled
<1>5. Room(killed) /\ tokens' = Put(killed, row) /\ NewId(killed) = NewId(tokens)
  BY <1>1, <1>4 DEF Room, Login, NewId
<1> HIDE DEF killed, row
<1>6. Inserted(killed, row, tokens')
  BY <1>3, <1>4, <1>5, PutRow
<1>7. t = NewId(tokens) /\ tokens'[t] = row
  BY <1>4, <1>5, <1>6 DEF Inserted
<1> QED
  BY <1>1, <1>3, <1>7 DEF Busy

\* A user's sessions are finitely many numbers.
LEMMA SessionsFinite ==
    ASSUME Tabled, NEW u PROVE TokensOf(u) \in SUBSET Nat /\ IsFiniteSet(TokensOf(u))
<1>1. DOMAIN tokens \subseteq Ids /\ IsFiniteSet(DOMAIN tokens)
  BY TableIds DEF Tabled
<1>2. Ids \subseteq Nat
  BY BoundsAssumption DEF Ids
<1>3. TokensOf(u) \subseteq DOMAIN tokens
  BY DEF TokensOf, Active
<1> QED
  BY <1>1, <1>2, <1>3, FS_Subset

\* A commit adds a session to no user but the one who signs in with it.
LEMMA CommitTokens ==
    ASSUME Tabled, Working, NEW w \in Workers, Commit(w), NEW u, NEW t \in TokensOf(u)'
    PROVE  t \in TokensOf(u) \/ (Busy(w, {"login"}) /\ u = job[w].key /\ t = NewId(tokens))
<1>1. t \in DOMAIN tokens' /\ tokens'[t].user = u /\ tokens'[t].stat = "ACTIVE"
  BY DEF TokensOf, Active
<1>2. CASE t \in DOMAIN tokens
  BY <1>1, <1>2, CommitTables DEF RowsKept, TokensOf, Active
<1>3. CASE t \notin DOMAIN tokens
  BY <1>1, <1>3, NewToken
<1> QED
  BY <1>2, <1>3

\* A step of w leaves the other sign-ins alone unless w itself picks sessions to revoke.
LEMMA AloneStepKeeps ==
    ASSUME Tabled, AloneIsAlone, NEW w \in Workers, OthersWait(w), alone' \subseteq alone \ {w},
           alone \subseteq Workers,
           pc'[w] = "commit" => job'[w].kind # "login",
           \A v \in alone' : \A u : u = job[v].key => TokensOf(u)' \subseteq TokensOf(u)
    PROVE  AloneIsAlone'
<1> SUFFICES ASSUME NEW v \in alone'
             PROVE  /\ pc'[v] = "commit" /\ job'[v].kind = "login"
                    /\ \A x \in Others(v, {"login"})' : pc'[x] = "commit" => job'[x].key # job'[v].key
                    /\ Cardinality(TokensOf(job[v].key)' \ job'[v].ids) <= MaxActiveTokens - 1
  BY DEF AloneIsAlone
<1>1. v \in alone /\ v # w /\ pc'[v] = pc[v] /\ job'[v] = job[v]
  BY DEF OthersWait
<1>2. /\ pc[v] = "commit" /\ job[v].kind = "login"
      /\ \A x \in Others(v, {"login"}) : pc[x] = "commit" => job[x].key # job[v].key
      /\ Cardinality(TokensOf(job[v].key) \ job[v].ids) <= MaxActiveTokens - 1
  BY <1>1 DEF AloneIsAlone
<1>3. \A x \in Others(v, {"login"})' : pc'[x] = "commit" => job'[x].key # job'[v].key
  BY <1>1, <1>2 DEF Others, OthersWait
<1>4. PICK u : u = job[v].key
  OBVIOUS
<1>5. TokensOf(u)' \subseteq TokensOf(u)
  BY <1>4
<1>6. IsFiniteSet(TokensOf(u) \ job[v].ids)
  BY SessionsFinite, FS_Subset
<1>7. TokensOf(u)' \ job[v].ids \subseteq TokensOf(u) \ job[v].ids
  BY <1>5
<1>8. /\ Cardinality(TokensOf(u)' \ job[v].ids) <= Cardinality(TokensOf(u) \ job[v].ids)
      /\ Cardinality(TokensOf(u)' \ job[v].ids) \in Nat /\ Cardinality(TokensOf(u) \ job[v].ids) \in Nat
  BY <1>6, <1>7, FS_Subset, FS_CardinalityType
<1>9. TokensOf(job[v].key)' = TokensOf(u)'
  BY <1>1, <1>4 DEF TokensOf, Active
<1> QED
  BY <1>1, <1>2, <1>3, <1>4, <1>8, <1>9, BoundsAssumption

\* A sign-in that picks the sessions to revoke takes away the solitude of those of the
\* same user that have picked theirs; no other step interferes.
LEMMA NextAlone == Tabled /\ Working /\ AloneIsAlone /\ [Next]_vars => AloneIsAlone'
<1> SUFFICES ASSUME Tabled, Working, AloneIsAlone, [Next]_vars PROVE AloneIsAlone'
  OBVIOUS
<1>0. alone \subseteq Workers /\ \A w \in alone : pc[w] = "commit" /\ job[w].kind = "login"
  BY DEF Working, AloneIsAlone
<1>1. ASSUME NEW w \in Workers, pc[w] # "commit", OthersWait(w), alone' = alone, tokens' = tokens,
             pc'[w] = "commit" => job'[w].kind # "login"
      PROVE  AloneIsAlone'
  <2>1. w \notin alone
    BY <1>0, <1>1
  <2>2. \A u : TokensOf(u)' = TokensOf(u)
    BY <1>1 DEF TokensOf, Active
  <2> QED
    BY <1>0, <1>1, <2>1, <2>2, AloneStepKeeps
<1>2. ASSUME NEW w \in Workers, NEW label, NEW kind, NEW key, NEW ids, Enter(w, label, kind, key, ids),
             alone' = alone, label = "commit" => kind # "login"
      PROVE  AloneIsAlone'
  BY <1>1, <1>2, EnterMoves
<1>3. ASSUME NEW w \in Workers, Cascade(w) PROVE AloneIsAlone'
  <2>1. alone' = alone
    BY <1>3 DEF Cascade
  <2> QED
    BY <1>1, <1>3, <2>1, CascadeMoves
<1>4. ASSUME NEW w \in Workers, Password(w) PROVE AloneIsAlone'
  <2> DEFINE rivals == {v \in Others(w, {"login"}) : job[v].key = job[w].key /\ pc[v] = "commit"}
  <2>1. /\ OthersWait(w) /\ pc[w] = "password" /\ job[w].kind = "login" /\ pc'[w] = "commit"
        /\ job'[w].kind = "login" /\ job'[w].key = job[w].key
        /\ job'[w].ids = Oldest(TokensOf(job[w].key)) /\ tokens' = tokens
    BY <1>4, PasswordMoves
  <2>2. alone' = IF rivals = {} THEN alone \cup {w} ELSE alone \ rivals
    BY <1>4 DEF Password
  <2>3. \A u : TokensOf(u)' = TokensOf(u)
    BY <2>1 DEF TokensOf, Active
  <2>4. ASSUME NEW v \in alone', v # w
        PROVE  /\ pc'[v] = "commit" /\ job'[v].kind = "login"
               /\ \A x \in Others(v, {"login"})' : pc'[x] = "commit" => job'[x].key # job'[v].key
               /\ Cardinality(TokensOf(job'[v].key) \ job'[v].ids) <= MaxActiveTokens - 1
    <3>1. v \in alone /\ v \in Workers /\ pc'[v] = pc[v] /\ job'[v] = job[v]
      BY <1>0, <2>1, <2>2, <2>4 DEF OthersWait
    <3>2. /\ pc[v] = "commit" /\ job[v].kind = "login"
          /\ \A x \in Others(v, {"login"}) : pc[x] = "commit" => job[x].key # job[v].key
          /\ Cardinality(TokensOf(job[v].key) \ job[v].ids) <= MaxActiveTokens - 1
      BY <3>1 DEF AloneIsAlone
    <3>3. v \in Others(w, {"login"}) /\ v \notin rivals
      BY <2>2, <2>4, <3>1, <3>2 DEF Others
    <3>4. job[v].key # job[w].key
      BY <3>2, <3>3
    <3>5. \A x \in Others(v, {"login"})' : pc'[x] = "commit" => job'[x].key # job'[v].key
      BY <2>1, <3>1, <3>2, <3>4 DEF Others, OthersWait
    <3> QED
      BY <3>1, <3>2, <3>5
  <2>5. ASSUME w \in alone'
        PROVE  /\ \A x \in Others(w, {"login"})' : pc'[x] = "commit" => job'[x].key # job'[w].key
               /\ Cardinality(TokensOf(job'[w].key) \ job'[w].ids) <= MaxActiveTokens - 1
    <3>1. rivals = {}
      BY <1>0, <2>1, <2>2, <2>5
    <3>2. \A x \in Others(w, {"login"})' : pc'[x] = "commit" => job'[x].key # job'[w].key
      BY <2>1, <3>1 DEF Others, OthersWait
    <3>3. Cardinality(TokensOf(job[w].key) \ Oldest(TokensOf(job[w].key))) <= MaxActiveTokens - 1
      BY SessionsFinite, OldestLeavesRoom
    <3> QED
      BY <2>1, <3>2, <3>3
  <2>6. \A v \in alone' :
          /\ pc'[v] = "commit" /\ job'[v].kind = "login"
          /\ \A x \in Others(v, {"login"})' : pc'[x] = "commit" => job'[x].key # job'[v].key
          /\ Cardinality(TokensOf(job'[v].key) \ job'[v].ids) <= MaxActiveTokens - 1
    BY <2>1, <2>4, <2>5
  <2>7. \A v \in Workers : TokensOf(job[v].key)' = TokensOf(job'[v].key)
    BY <2>1 DEF TokensOf, Active
  <2>8. alone' \subseteq Workers
    BY <1>0, <2>2
  <2> QED
    BY <2>6, <2>7, <2>8 DEF AloneIsAlone
<1>5. ASSUME NEW w \in Workers, Abort(w) PROVE AloneIsAlone'
  <2>1. tokens' = tokens /\ OthersWait(w) /\ pc'[w] = "idle" /\ alone' = alone \ {w}
    BY <1>5, EndMoves DEF Abort, Tables
  <2>2. \A u : TokensOf(u)' = TokensOf(u)
    BY <2>1 DEF TokensOf, Active
  <2> QED
    BY <1>0, <2>1, <2>2, AloneStepKeeps
<1>6. ASSUME NEW w \in Workers, Commit(w) PROVE AloneIsAlone'
  <2>1. OthersWait(w) /\ pc'[w] = "idle" /\ alone' = alone \ {w} /\ pc[w] = "commit"
    BY <1>6, EndMoves DEF Commit
  <2>2. ASSUME NEW v \in alone', NEW u, u = job[v].key, NEW t \in TokensOf(u)' PROVE t \in TokensOf(u)
    <3>1. v \in alone /\ v # w /\ v \in Workers
      BY <1>0, <2>1
    <3>2. Busy(w, {"login"}) => w \in Others(v, {"login"})
      BY <3>1 DEF Others, Busy
    <3>3. Busy(w, {"login"}) => job[w].key # u
      BY <2>1, <2>2, <3>1, <3>2 DEF AloneIsAlone
    <3> QED
      BY <1>6, <2>2, <3>3, CommitTokens
  <2> QED
    BY <1>0, <2>1, <2>2, AloneStepKeeps
<1>7. CASE Tick \/ UNCHANGED vars
  <2>1. UNCHANGED <<tokens, pc, job, alone>>
    BY <1>7 DEF Tick, vars, Tables
  <2>2. \A v \in alone : TokensOf(job[v].key)' = TokensOf(job[v].key) /\ Others(v, {"login"})' = Others(v, {"login"})
    BY <2>1 DEF TokensOf, Active, Others
  <2> QED
    BY <2>1, <2>2 DEF AloneIsAlone
<1>8. ASSUME NEW w \in Workers, Request(w) PROVE AloneIsAlone'
  <2>1. CASE Password(w) \/ Cascade(w) \/ Abort(w) \/ Commit(w)
    BY <2>1, <1>3, <1>4, <1>5, <1>6
  <2>2. CASE \E e \in Emails : StartRegister(w, e) \/ StartLogin(w, e)
    BY <2>2, <1>2 DEF StartRegister, StartLogin
  <2>3. CASE \E t \in DOMAIN tokens : StartLogout(w, t)
    BY <2>3, <1>2 DEF StartLogout
  <2>4. CASE \E u \in DOMAIN users : StartCreateHousehold(w, u)
    BY <2>4, <1>2 DEF StartCreateHousehold
  <2>5. CASE \E u \in DOMAIN users, h \in DOMAIN households :
               \/ StartAddChild(w, u, h) \/ StartDeleteHousehold(w, u, h)
               \/ \E v \in DOMAIN users : StartAddMember(w, u, h, v)
               \/ \E m \in DOMAIN members : StartRemoveMember(w, u, h, m)
    BY <2>5, <1>2 DEF StartAddChild, StartAddMember, StartDeleteHousehold, StartRemoveMember
  <2> QED
    BY <1>8, <2>1, <2>2, <2>3, <2>4, <2>5 DEF Request
<1> QED
  BY <1>7, <1>8 DEF Next

-----------------------------------------------------------------------------
(* The theorems *)

\* One user with a household satisfies the inductive invariant.
LEMMA InitIInv == Init => IInv
<1> SUFFICES ASSUME Init PROVE IInv
  OBVIOUS
<1>1. MaxRows \in Nat \ {0} /\ Budget \in Nat /\ LastSecond \in Nat /\ MaxActiveTokens \in Nat \ {0}
  BY BoundsAssumption
<1>2. PICK e \in Emails : users = [i \in {1} |-> e]
  BY DEF Init
<1>3. /\ households = [i \in {1} |-> [owner |-> 1, stat |-> "ACTIVE"]]
      /\ members    = [i \in {1} |-> [hh |-> 1, user |-> 1, stat |-> "ACTIVE"]]
      /\ tokens = << >> /\ children = << >>
  BY DEF Init
<1>4. 1..1 = {1} /\ 1..0 = {} /\ 1 \in 0..MaxRows /\ 0 \in 0..MaxRows /\ 1 \in Ids
  BY <1>1 DEF Ids
<1>5. /\ users \in [1..1 -> Emails]
      /\ households \in [1..1 -> HouseholdRows]
      /\ members \in [1..1 -> MemberRows]
  BY <1>2, <1>3, <1>4 DEF HouseholdRows, MemberRows, Stat
<1>6. tokens \in [1..0 -> TokenRows] /\ children \in [1..0 -> ChildRows]
  BY <1>3, <1>4
<1>7. Tabled
  BY <1>3, <1>4, <1>5, <1>6 DEF Tabled, Table
<1>8. Working
  BY <1>1 DEF Init, Working, KnowsRows, Busy
<1>9. OneOwnership
  <2>1. Memberships(1, 1) = {1}
    BY <1>3 DEF Memberships, Active
  <2> QED
    BY <1>3, <2>1 DEF OneOwnership, Active
<1>10. RacesNoticed /\ DuplicatesOnlyWhereRaced
  BY <1>2, <1>3 DEF Init, RacesNoticed, DuplicatesOnlyWhereRaced, Busy, Active
<1>11. DeletionsSee /\ DeletedAreEmpty
  BY <1>3 DEF Init, DeletionsSee, DeletedAreEmpty, Busy, Active
<1>12. AloneIsAlone
  BY DEF Init, AloneIsAlone
<1> QED
  BY <1>7, <1>8, <1>9, <1>10, <1>11, <1>12 DEF IInv

\* Every step preserves the inductive invariant.
LEMMA NextIInv == IInv /\ [Next]_vars => IInv'
BY NextWorks, NextOneOwnership, NextRaces, NextDuplicates, NextSees, NextAlone DEF IInv

\* The inductive invariant holds in every reachable state.
LEMMA Invariance == Spec => []IInv
BY InitIInv, NextIInv, PTL DEF Spec

\* What the inductive invariant says of the tables and of the requests is their type.
LEMMA TypesFollow == IInv => TypeOK
<1> SUFFICES ASSUME IInv PROVE TypeOK
  OBVIOUS
<1>1. /\ users \in [DOMAIN users -> Emails] /\ DOMAIN users \subseteq Ids
      /\ tokens \in [DOMAIN tokens -> TokenRows] /\ DOMAIN tokens \subseteq Ids
      /\ households \in [DOMAIN households -> HouseholdRows] /\ DOMAIN households \subseteq Ids
      /\ members \in [DOMAIN members -> MemberRows] /\ DOMAIN members \subseteq Ids
      /\ children \in [DOMAIN children -> ChildRows] /\ DOMAIN children \subseteq Ids
  BY TableIds DEF IInv, Tabled
<1> QED
  BY <1>1 DEF TypeOK, IInv, Working

\* TypeOK holds in every reachable state: tables of rows, requests that stand somewhere.
THEOREM TypeCorrect == Spec => []TypeOK
BY Invariance, TypesFollow, PTL

\* However many requests add and remove members at a time, the owner of an active
\* household has the one membership that get_current_household asks for.
THEOREM OwnersEnter == Spec => []OwnerEnters
<1>1. IInv => OwnerEnters
  <2> SUFFICES ASSUME IInv, NEW h \in Active(households)
               PROVE  h \in Lists(households[h].owner) /\ Enters(households[h].owner, h)
    BY DEF OwnerEnters
  <2>1. PICK m \in DOMAIN members : Memberships(h, households[h].owner) = {m}
    BY DEF IInv, OneOwnership
  <2>2. Cardinality(Memberships(h, households[h].owner)) = 1
    BY <2>1, FS_Singleton
  <2> QED
    BY <2>1, <2>2 DEF Lists, Enters
<1> QED
  BY <1>1, Invariance, PTL

\* An email with two users, or a user who is twice a member, is always the work of two
\* requests that overlapped.
THEOREM DuplicatesAreRaced == Spec => []DuplicatesOnlyWhereRaced
<1>1. IInv => DuplicatesOnlyWhereRaced
  BY DEF IInv
<1> QED
  BY <1>1, Invariance, PTL

\* A deleted household keeps rows only if somebody added to it during the deletion.
THEOREM DeletionsEmpty == Spec => []DeletedAreEmpty
<1>1. IInv => DeletedAreEmpty
  BY DEF IInv
<1> QED
  BY <1>1, Invariance, PTL

\* A sign-in that no other of the same user overlaps leaves at most MAX_ACTIVE_TOKENS
\* sessions, whatever overlapping ones left before.
THEOREM SoloSignInsCap == Spec => SoloSignInCaps
<1>1. IInv /\ [Next]_vars =>
        [\A w \in alone : Commit(w) =>
            Cardinality({t \in Active(tokens') : tokens'[t].user = job[w].key}) <= MaxActiveTokens]_vars
  <2> SUFFICES ASSUME IInv, NEW w \in alone, Commit(w)
               PROVE  Cardinality({t \in Active(tokens') : tokens'[t].user = job[w].key}) <= MaxActiveTokens
    OBVIOUS
  <2>1. w \in Workers /\ job[w].kind = "login" /\ Tabled /\ Working
    BY DEF IInv, Working, AloneIsAlone
  <2> DEFINE S == {t \in Active(tokens') : tokens'[t].user = job[w].key}
             kept == TokensOf(job[w].key) \ job[w].ids
  <2>2. S \subseteq kept \cup {NewId(tokens)}
    <3>1. ASSUME NEW t \in S, t # NewId(tokens) PROVE t \in kept
      <4>1. PICK u : u = job[w].key
        OBVIOUS
      <4>2. t \in TokensOf(u)'
        BY <3>1, <4>1 DEF TokensOf, Active
      <4>3. t \in TokensOf(u)
        BY <2>1, <3>1, <4>2, CommitTokens
      <4>4. t \notin job[w].ids
        <5>1. Login(w) /\ Room(tokens) /\ t \in DOMAIN tokens /\ tokens'[t].stat = "ACTIVE"
          BY <2>1, <3>1, <4>3 DEF Commit, TokensOf, Active
        <5> DEFINE killed == Kill(tokens, job[w].ids)
                   row == [user |-> job[w].key, second |-> job[w].second, stat |-> "ACTIVE"]
        <5>2. tokens' = Put(killed, row)
          BY <5>1 DEF Login
        <5>3. DOMAIN killed = DOMAIN tokens /\ (t \in job[w].ids => killed[t].stat = "DELETED")
          BY <2>1, <5>1, KillTokens DEF Tabled
        <5> HIDE DEF killed, row
        <5>4. tokens'[t] = killed[t]
          BY <5>1, <5>2, <5>3 DEF Put
        <5> QED
          BY <5>1, <5>3, <5>4
      <4> QED
        BY <4>1, <4>3, <4>4
    <3> QED
      BY <3>1
  <2>3. IsFiniteSet(kept) /\ Cardinality(kept) <= MaxActiveTokens - 1
    <3>1. IsFiniteSet(kept)
      BY <2>1, SessionsFinite, FS_Subset
    <3> QED
      BY <3>1 DEF IInv, AloneIsAlone
  <2> HIDE DEF S, kept
  <2>4. /\ IsFiniteSet(kept \cup {NewId(tokens)}) /\ Cardinality(kept) \in Nat
        /\ Cardinality(kept \cup {NewId(tokens)}) <= Cardinality(kept) + 1
    <3>1. Cardinality(kept) \in Nat
      BY <2>3, FS_CardinalityType
    <3>2. /\ IsFiniteSet(kept \cup {NewId(tokens)})
          /\ Cardinality(kept \cup {NewId(tokens)}) =
               IF NewId(tokens) \in kept THEN Cardinality(kept) ELSE Cardinality(kept) + 1
      BY <2>3, FS_AddElement
    <3> QED
      BY <3>1, <3>2
  <2>5. /\ Cardinality(S) <= Cardinality(kept \cup {NewId(tokens)}) /\ Cardinality(S) \in Nat
        /\ Cardinality(kept \cup {NewId(tokens)}) \in Nat
    BY <2>2, <2>4, FS_Subset, FS_CardinalityType
  <2>6. Cardinality(S) <= MaxActiveTokens
    BY <2>3, <2>4, <2>5, BoundsAssumption
  <2> QED
    BY <2>6 DEF S
<1> QED
  BY <1>1, Invariance, PTL DEF Spec, SoloSignInCaps

=============================================================================
