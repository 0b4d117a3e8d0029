------------------------------- MODULE Accounts -------------------------------
(***************************************************************************)
(* Rider and driver accounts of ride-service: users.Service and            *)
(* drivers.Service Register and Login, with the users and drivers tables   *)
(* of migrations/V2_create_drivers.sql (email and phone UNIQUE).           *)
(*                                                                         *)
(* Register checks with SELECT EXISTS (email, and for riders also phone),  *)
(* ignoring the error of each check, then INSERTs in a later statement:    *)
(* two requests may both pass the check.  The handlers answer 409 for     *)
(* every error of Register, and 401 for every error of Login.  Passwords   *)
(* stand for their bcrypt hashes: CompareHashAndPassword succeeds exactly  *)
(* on the password that was hashed.  Input validation only rejects        *)
(* requests before the service is called and is left out.                 *)
(***************************************************************************)
EXTENDS Naturals, FiniteSets

CONSTANTS
    Emails,     \* email addresses a request may carry
    Phones,     \* phone numbers a request may carry
    Passwords,  \* passwords a request may carry
    Handlers,   \* concurrent Register handler goroutines
    DbFaults,   \* whether a statement may fail (connection lost, timeout)
    Nil         \* no request

ASSUME AccountsAssumption == DbFaults \in BOOLEAN

Roles == {"rider", "driver"}

VARIABLES
    rows,     \* rows[role]: the rows of users (riders) or drivers
    pc,       \* each Register handler: "idle", "insert" (checked), "done"
    req,      \* the request a handler is serving
    answers   \* the answers Register has given

accountVars == <<rows, pc, req, answers>>

Row == [email : Emails, phone : Phones, pw : Passwords]
Request == [role : Roles, email : Emails, phone : Phones, pw : Passwords]
Answer == [req : Request, code : {201, 409}]

AccountsTypeOK ==
    /\ rows \in [Roles -> SUBSET Row]
    /\ pc \in [Handlers -> {"idle", "insert", "done"}]
    /\ req \in [Handlers -> Request \cup {Nil}]
    /\ answers \subseteq Answer

AccountsInit ==
    /\ rows = [r \in Roles |-> {}]
    /\ pc = [h \in Handlers |-> "idle"]
    /\ req = [h \in Handlers |-> Nil]
    /\ answers = {}

-----------------------------------------------------------------------------
(* SELECT EXISTS(SELECT 1 FROM <table> WHERE <col>=$1): the answers the    *)
(* statement can give, FALSE included when it fails (its error is          *)
(* discarded and exists keeps FALSE).                                      *)
ExistsResults(role, col, v) ==
    {\E row \in rows[role] : row[col] = v} \cup (IF DbFaults THEN {FALSE} ELSE {})

(* The columns Register checks before inserting: email and phone for a     *)
(* rider, email only for a driver.                                         *)
CheckedCols(role) == IF role = "rider" THEN {"email", "phone"} ELSE {"email"}

(* Register, first part: the existence checks.  A check that answers TRUE  *)
(* ends the request with 409.                                              *)
RegisterCheck(h, q) ==
    /\ pc[h] = "idle"
    /\ req' = [req EXCEPT ![h] = q]
    /\ \E found \in [CheckedCols(q.role) -> BOOLEAN] :
         /\ \A col \in CheckedCols(q.role) : found[col] \in ExistsResults(q.role, col, q[col])
         /\ \/ /\ \E col \in CheckedCols(q.role) : found[col]
               /\ pc' = [pc EXCEPT ![h] = "done"]
               /\ answers' = answers \cup {[req |-> q, code |-> 409]}
            \/ /\ \A col \in CheckedCols(q.role) : ~found[col]
               /\ pc' = [pc EXCEPT ![h] = "insert"]
               /\ UNCHANGED answers
    /\ UNCHANGED rows

(* Mutant: a table whose email column is not UNIQUE.                     *)
InsertablePhoneOnly(role, q) ==
    \A row \in rows[role] : row.phone # q.phone

(* A row the UNIQUE constraints on email and phone accept.                 *)
Insertable(role, q) ==
    \A row \in rows[role] : row.email # q.email /\ row.phone # q.phone

(* Mutant: the INSERT storing no password hash.                          *)
RegisterInsertNoHash(h) ==
    /\ pc[h] = "insert"
    /\ LET q == req[h] IN
       /\ Insertable(q.role, q)
       /\ rows' = [rows EXCEPT ![q.role] =
                     @ \cup {[email |-> q.email, phone |-> q.phone, pw |-> Nil]}]
       /\ answers' = answers \cup {[req |-> q, code |-> 201]}
    /\ pc' = [pc EXCEPT ![h] = "done"]
    /\ UNCHANGED req

(* Register, second part: INSERT; a unique violation or a failed statement *)
(* is an error, answered 409.                                              *)
RegisterInsert(h) ==
    /\ pc[h] = "insert"
    /\ LET q == req[h] IN
       \/ /\ Insertable(q.role, q)
          /\ rows' = [rows EXCEPT ![q.role] =
                        @ \cup {[email |-> q.email, phone |-> q.phone, pw |-> q.pw]}]
          /\ answers' = answers \cup {[req |-> q, code |-> 201]}
       \/ /\ ~Insertable(q.role, q) \/ DbFaults
          /\ UNCHANGED rows
          /\ answers' = answers \cup {[req |-> q, code |-> 409]}
    /\ pc' = [pc EXCEPT ![h] = "done"]
    /\ UNCHANGED req

(* Login: SELECT ... WHERE email=$1 returns one matching row (QueryRow,   *)
(* any of them if several), then CompareHashAndPassword.  LoginSucceeds   *)
(* holds when every row the SELECT may return accepts the password.       *)
LoginSucceeds(role, e, pw) ==
    /\ \E row \in rows[role] : row.email = e
    /\ \A row \in rows[role] : row.email = e => row.pw = pw

AccountsNext ==
    \/ \E h \in Handlers, q \in Request : RegisterCheck(h, q)
    \/ \E h \in Handlers : RegisterInsert(h)

AccountsSpec == AccountsInit /\ [][AccountsNext]_accountVars

-----------------------------------------------------------------------------
(* The repository's API guide (register, then log in with the same        *)
(* credentials): whoever was answered 201 can log in with the password    *)
(* they registered, however many Register requests for the same email or *)
(* phone raced between the check and the INSERT.                          *)
RegisteredCanLogin ==
    \A a \in answers : a.code = 201 => LoginSucceeds(a.req.role, a.req.email, a.req.pw)

(* Spec 7: ConflictError is the answer to a precondition that does not    *)
(* hold; store failures are TransientInfraError.  So Register answers 409 *)
(* only when the email or the phone is already registered.               *)
ConflictMeansTaken ==
    \A a \in answers : a.code = 409 =>
        \E row \in rows[a.req.role] : row.email = a.req.email \/ row.phone = a.req.phone

=============================================================================
