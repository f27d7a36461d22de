------------------------------ MODULE Accounts -------------------------------
(* The creation of accounts: registrations and first set-ups (createAdmin)   *)
(* that run at once, on one or several API instances.  What else a           *)
(* transaction of register writes (workspace, member, wallet, welcome ledger *)
(* row, session) belongs to the account; policies and tokens are left out.   *)
EXTENDS Naturals, FiniteSets

CONSTANTS SetUps, Registrations, Emails

ASSUME AccountsAssumption == SetUps \cap Registrations = {} /\ "nobody" \notin SetUps

VARIABLES
    users,        \* committed accounts: e-mail, role, and who created them
    attempt,      \* what each set-up and registration is doing
    setupLock     \* pg_advisory_xact_lock('enova:setup:init')

accountsVars == <<users, attempt, setupLock>>

Attempts == SetUps \cup Registrations
NoAttempt == [at |-> "start"]
Finished == [at |-> "end"]

AccountsInit ==
    /\ users = {}
    /\ attempt = [p \in Attempts |-> NoAttempt]
    /\ setupLock = "nobody"

(* The advisory lock is held until the transaction ends.                     *)
SetUpIsFree_NoLock == TRUE
SetUpIsFree == setupLock = "nobody"
BeginSetUp(p) ==
    /\ p \in SetUps /\ attempt[p] = NoAttempt
    /\ SetUpIsFree /\ setupLock' = p
    /\ attempt' = [attempt EXCEPT ![p] = [at |-> "count"]]
    /\ UNCHANGED users

BeginRegistration(p) ==
    /\ p \in Registrations /\ attempt[p] = NoAttempt
    /\ attempt' = [attempt EXCEPT ![p] = [at |-> "email"]]
    /\ UNCHANGED <<users, setupLock>>

Ends(p) ==
    /\ attempt' = [attempt EXCEPT ![p] = Finished]
    /\ setupLock' = IF setupLock = p THEN "nobody" ELSE setupLock

HasAdmin == \E u \in users : u.role = "ADMIN"
CountAdmins(p) ==
    /\ attempt[p].at = "count"
    /\ \/ HasAdmin /\ Ends(p)
       \/ ~HasAdmin /\ attempt' = [attempt EXCEPT ![p] = [at |-> "email"]] /\ UNCHANGED setupLock
    /\ UNCHANGED users

Taken(email) == \E u \in users : u.email = email

(* register looks for the e-mail, hashes the password, ...                   *)
CheckEmail(p) ==
    /\ attempt[p].at = "email"
    /\ \E email \in Emails :
          \/ Taken(email) /\ Ends(p)
          \/ /\ ~Taken(email)
             /\ attempt' = [attempt EXCEPT ![p] = [at |-> "insert", email |-> email]]
             /\ UNCHANGED setupLock
    /\ UNCHANGED users

(* ... and inserts the account: the unique index refuses an e-mail that was  *)
(* taken since; any error undoes all of it.                                  *)
CreateAccount(p) ==
    /\ attempt[p].at = "insert"
    /\ \/ /\ ~Taken(attempt[p].email)
          /\ users' = users \cup
                {[email |-> attempt[p].email, role |-> IF p \in SetUps THEN "ADMIN" ELSE "USER", by |-> p]}
       \/ UNCHANGED users
    /\ Ends(p)

AccountsNext ==
    \E p \in Attempts :
        \/ BeginSetUp(p) \/ BeginRegistration(p)
        \/ CountAdmins(p) \/ CheckEmail(p) \/ CreateAccount(p)

AccountsSpec == AccountsInit /\ [][AccountsNext]_accountsVars

-----------------------------------------------------------------------------
(* The first set-up creates one administrator however many run at once, and  *)
(* no two accounts share an e-mail although the check for it is long over    *)
(* when the account is inserted (auth.service.ts:597-611, 87-245).           *)
OneFirstAdministrator ==
    /\ Cardinality({u \in users : u.role = "ADMIN"}) <= 1
    /\ Cardinality({u.email : u \in users}) = Cardinality(users)
=============================================================================
