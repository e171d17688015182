----------------------------- MODULE AccountTable -----------------------------
(***************************************************************************)
(* What the table users is to the rest of the API: an account per user     *)
(* name, with an id of its own that it keeps until it is removed.  The     *)
(* requests of UserAccounts implement it; ApiSessions is built on it.      *)
(***************************************************************************)
EXTENDS Naturals

CONSTANTS Usernames, Passwords,
          NULL      \* no account

VARIABLES accounts, \* user name -> account
          created   \* how many ids were given out

table == <<accounts, created>>

Roles   == {"user", "admin"}
Account == [id : Nat, password : Passwords, role : Roles]

Init ==
    /\ accounts = [u \in Usernames |-> NULL]
    /\ created = 0

\* CreateUserHandler, or the default administrator at a start.
Create(u, p, role) ==
    /\ accounts[u] = NULL
    /\ accounts' = [accounts EXCEPT ![u] = [id |-> created + 1, password |-> p, role |-> role]]
    /\ created' = created + 1

\* Any of the requests that update a row.
Change(u, p, role) ==
    /\ accounts[u] \in Account
    /\ accounts' = [accounts EXCEPT ![u].password = p, ![u].role = role]
    /\ UNCHANGED created

\* DeleteUserHandler.
Remove(u) ==
    /\ accounts[u] \in Account
    /\ accounts' = [accounts EXCEPT ![u] = NULL]
    /\ UNCHANGED created

Next ==
    \E u \in Usernames :
        \/ \E p \in Passwords, role \in Roles : Create(u, p, role) \/ Change(u, p, role)
        \/ Remove(u)

Spec == Init /\ [][Next]_table
=============================================================================
