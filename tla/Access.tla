------------------------------- MODULE Access -------------------------------
(***************************************************************************)
(* Who may work in which household: users, their refresh tokens, the       *)
(* households and their members (src/app/domain/user, auth, household;     *)
(* src/app/core/auth).  A request reads and validates, later writes and    *)
(* commits; what it read may be out of date by then.  None of the tables   *)
(* has a unique index, so uniqueness is what the check before an insert    *)
(* makes of it.  An UPDATE here only ever sets rows to DELETED, so two of  *)
(* them commute and row locks change nothing.                              *)
(*                                                                         *)
(* A refresh token is a signed statement of the user and of its expiry in  *)
(* whole seconds: two sign-ins of a user within a second get equal tokens. *)
(* None expires within the bounds of the clock.                            *)
(***************************************************************************)
EXTENDS Integers, FiniteSets, FiniteSetsExt

CONSTANTS
    Emails, Workers,
    MaxActiveTokens,     \* MAX_ACTIVE_TOKENS, 5 in the code
    LastSecond,          \* bound on the clock
    MaxRows,             \* bound on the rows of a table
    Budget,              \* bound on the requests of a behaviour
    None

ASSUME BoundsAssumption == {MaxActiveTokens, LastSecond, MaxRows, Budget} \subseteq Nat \ {0}

Ids  == 1..MaxRows
Stat == {"ACTIVE", "DELETED"}

\* What a request knows: which it is, what it works on, the rows it has found, its second
Jobs == [kind   : {"register", "login", "logout", "create", "add", "remove", "child", "delete"},
         key    : Emails \cup Ids \cup (Ids \X Ids),
         ids    : SUBSET (Ids \cup ({"child", "member"} \X Ids)),
         second : 0..LastSecond]

ASSUME NoneAssumption == None \notin Jobs

VARIABLES
    users,       \* the users rows: id to email
    tokens,      \* the refresh_tokens rows: id to user, second and status
    households,  \* the households rows: id to owner and status
    members,     \* the household_members rows: id to household, user and status
    children,    \* rows of a household, of any other table: id to household and status
    pc, job,     \* where a request stands and what it has read
    now, left,   \* the clock; how many more requests arrive
    raced,       \* history: emails and memberships two requests were inserting at a time
    alone,       \* history: sign-ins during which the user made no other
    crossed      \* history: households deleted while somebody was adding to them

vars == <<users, tokens, households, members, children, pc, job, now, left, raced, alone, crossed>>

TokenRows     == [user : Ids, second : 0..LastSecond, stat : Stat]
HouseholdRows == [owner : Ids, stat : Stat]
MemberRows    == [hh : Ids, user : Ids, stat : Stat]
ChildRows     == [hh : Ids, stat : Stat]

TypeOK ==
    /\ \E U \in SUBSET Ids : users \in [U -> Emails]
    /\ \E T \in SUBSET Ids : tokens \in [T -> TokenRows]
    /\ \E H \in SUBSET Ids : households \in [H -> HouseholdRows]
    /\ \E M \in SUBSET Ids : members \in [M -> MemberRows]
    /\ \E C \in SUBSET Ids : children \in [C -> ChildRows]
    /\ pc \in [Workers -> {"idle", "password", "cascade", "commit"}]
    /\ \A w \in Workers : pc[w] = "idle" <=> job[w] = None
    /\ now \in 0..LastSecond /\ left \in 0..Budget
    /\ alone \subseteq {w \in Workers : pc[w] # "idle"}

\* One user, who has a household
Init ==
    /\ \E e \in Emails : users = [i \in {1} |-> e]
    /\ tokens = << >> /\ children = << >>
    /\ households = [i \in {1} |-> [owner |-> 1, stat |-> "ACTIVE"]]
    /\ members    = [i \in {1} |-> [hh |-> 1, user |-> 1, stat |-> "ACTIVE"]]
    /\ pc  = [w \in Workers |-> "idle"]
    /\ job = [w \in Workers |-> None]
    /\ now = 0 /\ left = Budget
    /\ raced = {} /\ alone = {} /\ crossed = {}

-----------------------------------------------------------------------------
(* Lookups *)

Active(table)  == {i \in DOMAIN table : table[i].stat = "ACTIVE"}
ByEmail(e)     == {u \in DOMAIN users : users[u] = e}
TokensOf(u)    == {t \in Active(tokens) : tokens[t].user = u}
ByToken(t)     == {s \in Active(tokens) : tokens[s].user = tokens[t].user /\ tokens[s].second = tokens[t].second}
Memberships(h, u) == {m \in Active(members) : members[m].hh = h /\ members[m].user = u}
Owns(u, h)     == h \in Active(households) /\ households[h].owner = u

\* get_current_household: scalar_one_or_none finds one row, or raises if there are two
Enters(u, h) == Cardinality(Memberships(h, u)) = 1 /\ h \in Active(households)

\* find_active_by_user_id of the households: what the user is offered to enter
Lists(u) == {h \in Active(households) : Memberships(h, u) # {}}

NewId(table)   == Cardinality(DOMAIN table) + 1
Put(table, row) == [i \in DOMAIN table \cup {NewId(table)} |-> IF i \in DOMAIN table THEN table[i] ELSE row]
Kill(table, S) == [i \in DOMAIN table |-> IF i \in S THEN [table[i] EXCEPT !.stat = "DELETED"] ELSE table[i]]
Room(table)    == Cardinality(DOMAIN table) < MaxRows

Tables == <<users, tokens, households, members, children>>
Others(w, kinds) == {v \in Workers \ {w} : pc[v] # "idle" /\ job[v].kind \in kinds}

-----------------------------------------------------------------------------
(* Requests: what they read and check *)

\* The request is accepted and works on key; ids are the rows it has found
Enter(w, label, kind, key, ids) ==
    /\ pc[w] = "idle" /\ left > 0 /\ left' = left - 1
    /\ pc'  = [pc EXCEPT ![w] = label]
    /\ job' = [job EXCEPT ![w] = [kind |-> kind, key |-> key, ids |-> ids, second |-> now]]
    /\ UNCHANGED <<Tables, now>>

\* Another request is inserting a row of the same key
Racing(w, kind, key) ==
    raced' = raced \cup (IF \E v \in Others(w, {kind}) : job[v].key = key THEN {key} ELSE {})

\* Something is added to a household whose rows are being deleted
Crossing(w, h) ==
    crossed' = crossed \cup (IF \E v \in Others(w, {"delete"}) : job[v].key = h /\ pc[v] = "commit"
                             THEN {h} ELSE {})

\* create_user, up to the hash of the password, which a thread computes
StartRegister(w, e) ==
    /\ ByEmail(e) = {} /\ Room(users)
    /\ Enter(w, "commit", "register", e, {})
    /\ Racing(w, "register", e) /\ UNCHANGED <<alone, crossed>>

\* login: find_by_email raises if there are two; a thread verifies the password
StartLogin(w, e) ==
    /\ Cardinality(ByEmail(e)) = 1 /\ Room(tokens)
    /\ Enter(w, "password", "login", CHOOSE u \in ByEmail(e) : TRUE, {})
    /\ UNCHANGED <<raced, alone, crossed>>

\* Variant: one session less is revoked
OldestLate(S) == {t \in S : Cardinality({s \in S : s > t}) >= MaxActiveTokens}

\* The oldest sessions, so many that the new one makes MAX_ACTIVE_TOKENS
Oldest(S) == {t \in S : Cardinality({s \in S : s > t}) >= MaxActiveTokens - 1}

\* ... then login reads the user's sessions, picks those to revoke and signs the token
Password(w) ==
    /\ pc[w] = "password"
    /\ pc'  = [pc EXCEPT ![w] = "commit"]
    /\ job' = [job EXCEPT ![w].ids = Oldest(TokensOf(job[w].key)), ![w].second = now]
    /\ LET rivals == {v \in Others(w, {"login"}) : job[v].key = job[w].key /\ pc[v] = "commit"}
       IN  alone' = IF rivals = {} THEN alone \cup {w} ELSE alone \ rivals
    /\ UNCHANGED <<Tables, now, left, raced, crossed>>

\* logout: the session of the token, if exactly one has it
StartLogout(w, t) ==
    /\ Cardinality(ByToken(t)) = 1
    /\ Enter(w, "commit", "logout", tokens[t].user, ByToken(t))
    /\ UNCHANGED <<raced, alone, crossed>>

StartCreateHousehold(w, u) ==
    /\ Room(households) /\ Room(members)
    /\ Enter(w, "commit", "create", u, {})
    /\ UNCHANGED <<raced, alone, crossed>>

\* Variant: whoever is a member already is added once more
StartAddMemberAgain(w, by, h, u) ==
    /\ Owns(by, h) /\ Room(members)
    /\ Enter(w, "commit", "add", <<h, u>>, {})
    /\ Racing(w, "add", <<h, u>>) /\ Crossing(w, h) /\ UNCHANGED alone

\* add_household_member
StartAddMember(w, by, h, u) ==
    /\ Owns(by, h) /\ Memberships(h, u) = {} /\ Room(members)
    /\ Enter(w, "commit", "add", <<h, u>>, {})
    /\ Racing(w, "add", <<h, u>>) /\ Crossing(w, h) /\ UNCHANGED alone

\* Variant: the owner may be removed
StartRemoveAnyMember(w, by, h, m) ==
    /\ Owns(by, h) /\ m \in Active(members) /\ members[m].hh = h
    /\ Enter(w, "commit", "remove", h, {m})
    /\ UNCHANGED <<raced, alone, crossed>>

\* remove_household_member
StartRemoveMember(w, by, h, m) ==
    /\ Owns(by, h) /\ m \in Active(members) /\ members[m].hh = h
    /\ members[m].user # households[h].owner
    /\ Enter(w, "commit", "remove", h, {m})
    /\ UNCHANGED <<raced, alone, crossed>>

\* Any POST below get_current_household: an account, a category, a transaction, an item
StartAddChild(w, u, h) ==
    /\ Enters(u, h) /\ Room(children)
    /\ Enter(w, "commit", "child", <<h, u>>, {})
    /\ Crossing(w, h) /\ UNCHANGED <<raced, alone>>

\* delete_household
StartDeleteHousehold(w, by, h) ==
    /\ Owns(by, h)
    /\ Enter(w, "cascade", "delete", h, {})
    /\ UNCHANGED <<raced, alone, crossed>>

RowsOf(table, h) == {i \in Active(table) : table[i].hh = h}

\* Variant: HouseholdMember is missing among the models
ChildrenOnly(h) == {"child"} \X RowsOf(children, h)

\* The rows the UPDATEs of _CHILD_MODELS_WITH_HOUSEHOLD_ID see
Children(h) == ({"child"} \X RowsOf(children, h)) \cup ({"member"} \X RowsOf(members, h))

\* _cascade_soft_delete_children
Cascade(w) ==
    /\ pc[w] = "cascade"
    /\ pc'  = [pc EXCEPT ![w] = "commit"]
    /\ job' = [job EXCEPT ![w].ids = Children(job[w].key)]
    /\ crossed' = crossed \cup (IF \E v \in Others(w, {"add", "child"}) : job[v].key[1] = job[w].key
                                THEN {job[w].key} ELSE {})
    /\ UNCHANGED <<Tables, now, left, raced, alone>>

-----------------------------------------------------------------------------
(* Requests: what they write *)

Register(w) ==
    /\ users' = Put(users, job[w].key)
    /\ UNCHANGED <<tokens, households, members, children>>

Login(w) ==
    /\ tokens' = Put(Kill(tokens, job[w].ids),
                     [user |-> job[w].key, second |-> job[w].second, stat |-> "ACTIVE"])
    /\ UNCHANGED <<users, households, members, children>>

Logout(w) ==
    /\ tokens' = Kill(tokens, job[w].ids)
    /\ UNCHANGED <<users, households, members, children>>

\* create_household: the household and its owner's membership
CreateHousehold(w) ==
    /\ households' = Put(households, [owner |-> job[w].key, stat |-> "ACTIVE"])
    /\ members' = Put(members, [hh |-> NewId(households), user |-> job[w].key, stat |-> "ACTIVE"])
    /\ UNCHANGED <<users, tokens, children>>

AddMember(w) ==
    /\ members' = Put(members, [hh |-> job[w].key[1], user |-> job[w].key[2], stat |-> "ACTIVE"])
    /\ UNCHANGED <<users, tokens, households, children>>

RemoveMember(w) ==
    /\ members' = Kill(members, job[w].ids)
    /\ UNCHANGED <<users, tokens, households, children>>

AddChild(w) ==
    /\ children' = Put(children, [hh |-> job[w].key[1], stat |-> "ACTIVE"])
    /\ UNCHANGED <<users, tokens, households, members>>

DeleteHousehold(w) ==
    /\ children'   = Kill(children, {x[2] : x \in {y \in job[w].ids : y[1] = "child"}})
    /\ members'    = Kill(members,  {x[2] : x \in {y \in job[w].ids : y[1] = "member"}})
    /\ households' = Kill(households, {job[w].key})
    /\ UNCHANGED <<users, tokens>>

\* Variant: what has been read outlives the request
EndForgetful(w) ==
    /\ pc'    = [pc EXCEPT ![w] = "idle"]
    /\ alone' = alone \ {w}
    /\ UNCHANGED <<job, now, left, raced, crossed>>

End(w) ==
    /\ pc'    = [pc EXCEPT ![w] = "idle"]
    /\ job'   = [job EXCEPT ![w] = None]
    /\ alone' = alone \ {w}
    /\ UNCHANGED <<now, left, raced, crossed>>

\* get_db commits
Commit(w) ==
    /\ pc[w] = "commit"
    /\ \/ job[w].kind = "register" /\ Room(users) /\ Register(w)
       \/ job[w].kind = "login"    /\ Room(tokens) /\ Login(w)
       \/ job[w].kind = "logout"   /\ Logout(w)
       \/ job[w].kind = "create"   /\ Room(households) /\ Room(members) /\ CreateHousehold(w)
       \/ job[w].kind = "add"      /\ Room(members) /\ AddMember(w)
       \/ job[w].kind = "remove"   /\ RemoveMember(w)
       \/ job[w].kind = "child"    /\ Room(children) /\ AddChild(w)
       \/ job[w].kind = "delete"   /\ DeleteHousehold(w)
    /\ End(w)

\* A wrong password, a failing query, a client that hangs up, a crash
Abort(w) == pc[w] # "idle" /\ End(w) /\ UNCHANGED Tables

Tick ==
    /\ now < LastSecond /\ now' = now + 1
    /\ UNCHANGED <<Tables, pc, job, left, raced, alone, crossed>>

Request(w) ==
    \/ \E e \in Emails : StartRegister(w, e) \/ StartLogin(w, e)
    \/ \E t \in DOMAIN tokens : StartLogout(w, t)
    \/ \E u \in DOMAIN users :
         \/ StartCreateHousehold(w, u)
         \/ \E h \in DOMAIN households :
              \/ StartAddChild(w, u, h) \/ StartDeleteHousehold(w, u, h)
              \/ \E v \in DOMAIN users : StartAddMember(w, u, h, v)
              \/ \E m \in DOMAIN members : StartRemoveMember(w, u, h, m)
    \/ Password(w) \/ Cascade(w) \/ Commit(w) \/ Abort(w)

Next == Tick \/ \E w \in Workers : Request(w)

Spec == Init /\ [][Next]_vars

-----------------------------------------------------------------------------
(* What users rely on *)

\* An email names one user and a user is a member of a household once, unless two
\* requests that add the same are under way at a time: create_user and
\* add_household_member look first, and no index backs them.
DuplicatesOnlyWhereRaced ==
    /\ \A u, v \in DOMAIN users : users[u] = users[v] /\ u # v => users[u] \in raced
    /\ \A m, n \in Active(members) :
         members[m].hh = members[n].hh /\ members[m].user = members[n].user /\ m # n
           => <<members[m].hh, members[m].user>> \in raced

\* A sign-in leaves the user at most MAX_ACTIVE_TOKENS sessions, however many
\* simultaneous ones had left before, unless another one overlaps its own.
SoloSignInCaps ==
    [][\A w \in alone : Commit(w) =>
         Cardinality({t \in Active(tokens') : tokens'[t].user = job[w].key}) <= MaxActiveTokens]_vars

\* No sequence of additions and removals locks an owner out of the household: exactly
\* one membership, the number get_current_household can read.
OwnerEnters ==
    \A h \in Active(households) : LET u == households[h].owner IN h \in Lists(u) /\ Enters(u, h)

\* Deleting a household takes everything in it along, unless it was added meanwhile.
DeletedAreEmpty ==
    \A h \in DOMAIN households \ (Active(households) \cup crossed) :
        RowsOf(members, h) = {} /\ RowsOf(children, h) = {}
=============================================================================
