--------------------------- MODULE AtomicAccounts ---------------------------
(***************************************************************************)
(* What the owner relies on: an account is registered or edited at once    *)
(* and completely or not at all, and no two accounts share a username.     *)
(***************************************************************************)
EXTENDS AccountTables

VARIABLE db     \* users and staff

Init == db = Seeded

Register ==
    \E r \in Registrations :
        /\ ~UsernameTaken(db, r.username)
        /\ db' = WithStaffOf(WithUser(db, r), Len(db.users) + 1)

Update ==
    \E e \in Edits :
        /\ ~UsernameClashes(db, e)
        /\ db' = WithStaffDetails(WithDetails(db, e), e)

Next == Register \/ Update

Spec == Init /\ [][Next]_db
=============================================================================
