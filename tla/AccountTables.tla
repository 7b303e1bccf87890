--------------------------- MODULE AccountTables ----------------------------
(***************************************************************************)
(* The accounts: users, and the row of staff that each stylist among them  *)
(* has.  A name stands for everything an edit overwrites in both tables    *)
(* (name) or in one (commission profile, specializations).                 *)
(***************************************************************************)
EXTENDS Naturals, Sequences

CONSTANTS
    Username,
    Name,
    SeedUsers,      \* the users createTables inserts
    SeedStaff,      \* and their rows of staff
    Registrations,  \* the bodies of register requests
    Edits           \* the bodies of staff_update requests

Role == {"admin", "receptionist", "stylist"}

User == [username : Username, name : Name, role : Role]
StaffRow == [user : Nat, name : Name]
Edit == [user : Nat \ {0}, username : Username, name : Name]

ASSUME AccountAssumption ==
    /\ SeedUsers \in Seq(User)
    /\ SeedStaff \in Seq(StaffRow)
    /\ Registrations \subseteq User
    /\ Edits \subseteq Edit

Databases == [users : Seq(User), staff : Seq(StaffRow)]

UsernameTaken(d, username) == \E i \in DOMAIN d.users : d.users[i].username = username

RowsOf(d, u) == {k \in DOMAIN d.staff : d.staff[k].user = u}

WithUser(d, r) == [d EXCEPT !.users = Append(@, r)]

\* register: the row of staff, when the new user u is a stylist.
WithStaffOf(d, u) ==
    IF d.users[u].role = "stylist"
    THEN [d EXCEPT !.staff = Append(@, [user |-> u, name |-> d.users[u].name])]
    ELSE d

\* UNIQUE(username), when the UPDATE changes the row of an existing user.
UsernameClashes(d, e) ==
    /\ e.user \in DOMAIN d.users
    /\ \E i \in DOMAIN d.users \ {e.user} : d.users[i].username = e.username

\* A mistake to compare with: the role overwritten, by a body that has none.
WithDetailsAndRole(d, e) ==
    IF e.user \in DOMAIN d.users
    THEN [d EXCEPT !.users[e.user] =
             [username |-> e.username, name |-> e.name, role |-> "none"]]
    ELSE d

\* The UPDATE of users, of no row when there is no such user.
WithDetails(d, e) ==
    IF e.user \in DOMAIN d.users
    THEN [d EXCEPT !.users[e.user] =
             [username |-> e.username, name |-> e.name, role |-> @.role]]
    ELSE d

\* A mistake to compare with: a second row where there is one already.
WithStaffDetailsAgain(d, e) ==
    IF e.user \in DOMAIN d.users /\ d.users[e.user].role = "stylist"
    THEN [d EXCEPT !.staff = Append(@, [user |-> e.user, name |-> e.name])]
    ELSE d

\* The stylist's row of staff: updated, or inserted when there is none.
WithStaffDetails(d, e) ==
    IF e.user \in DOMAIN d.users /\ d.users[e.user].role = "stylist"
    THEN IF RowsOf(d, e.user) # {}
         THEN [d EXCEPT !.staff = [k \in DOMAIN @ |->
                 IF @[k].user = e.user THEN [@[k] EXCEPT !.name = e.name] ELSE @[k]]]
         ELSE [d EXCEPT !.staff = Append(@, [user |-> e.user, name |-> e.name])]
    ELSE d

Seeded == [users |-> SeedUsers, staff |-> SeedStaff]

DistinctUsernames(d) ==
    \A i, k \in DOMAIN d.users : d.users[i].username = d.users[k].username => i = k

\* A stylist has one row of staff, and anybody else none.
OneRowPerStylist(d) ==
    /\ \A u \in DOMAIN d.users :
          IF d.users[u].role = "stylist" THEN \E k \in RowsOf(d, u) : RowsOf(d, u) = {k}
                                         ELSE RowsOf(d, u) = {}
    /\ \A k \in DOMAIN d.staff :
          /\ d.staff[k].user \in DOMAIN d.users
          /\ d.staff[k].name = d.users[d.staff[k].user].name

ASSUME SeedAssumption == DistinctUsernames(Seeded) /\ OneRowPerStylist(Seeded)
=============================================================================
