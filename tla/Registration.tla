---------------------------- MODULE Registration ----------------------------
(***************************************************************************)
(* Accounts behind the gateway.  AuthService.register checks, then         *)
(* inserts, and with a product id in the place of the e-mail address so    *)
(* does InventoryService.createInventoryItem: both look for a row with the *)
(* key, await, and save; the key's column is unique.  AuthService.login    *)
(* finds the row and compares the password.  The gateway answers for a     *)
(* service it has lost the connection to, while the handler goes on.       *)
(*                                                                         *)
(* An attempt is one POST request; a client that tries again is another    *)
(* attempt with the same body.                                             *)
(***************************************************************************)
EXTENDS Integers

CONSTANTS
  Attempts,   \* POST requests
  Kind,       \* Kind[a]: "register" or "login"
  Addresses,  \* e-mail addresses as clients write them, or product ids
  Address,    \* Address[a]: the address in a's body
  Password,   \* Password[a]: the password in a's body, of any length
  Head,       \* Head[w]: the first 72 bytes of password w, which bcrypt hashes
  Normal,     \* Normal[x]: x in lower case and trimmed; a product id is kept
  MaxFaults   \* bound: lost connections, crashes and failing statements

ASSUME KindAssumption == Kind \in [Attempts -> {"register", "login"}]
ASSUME AddressAssumption == Address \in [Attempts -> Addresses]
\* What is normal stays as it is.
ASSUME NormalAssumption ==
  /\ Normal \in [Addresses -> Addresses]
  /\ \A x \in Addresses : Normal[Normal[x]] = Normal[x]
ASSUME FaultsAssumption == MaxFaults \in Nat

VARIABLES
  rows,     \* rows of the table: its unique key, and the attempt that saved it
  handler,  \* handler[a]: where a's handler is
  user,     \* user[a]: the row that login a has found
  answer,   \* answer[a]: what the gateway answered
  before,   \* history: before[a], attempts answered "created" when a was sent
  faults    \* faults so far

vars == <<rows, handler, user, answer, before, faults>>

Results == {"created", "conflict", "token", "unauthorized", "error"}

Row == [key : Addresses, by : Attempts]
NoUser == [key |-> "none"]

Init ==
  /\ rows = {}
  /\ handler = [a \in Attempts |-> "idle"]
  /\ user = [a \in Attempts |-> NoUser]
  /\ answer = [a \in Attempts |-> "none"]
  /\ before = [a \in Attempts |-> {}]
  /\ faults = 0

\* Mutant: the address is stored as it is written.
KeyAsWritten(a) == Address[a]

Key(a) == Normal[Address[a]]

Taken(k) == \E r \in rows : r.key = k

Goto(a, label) == handler' = [handler EXCEPT ![a] = label]

Fault == faults < MaxFaults /\ faults' = faults + 1

-----------------------------------------------------------------------------
\* The gateway forwards the request.
Forward(a) ==
  /\ handler[a] = "idle"
  /\ answer[a] = "none"
  /\ Goto(a, IF Kind[a] = "login" THEN "find" ELSE "check")
  /\ before' = [before EXCEPT ![a] = {b \in Attempts : answer[b] = "created"}]
  /\ UNCHANGED <<rows, user, answer, faults>>

\* findOne: a ConflictException if there is a row; else hash and create.
Check(a) ==
  /\ handler[a] = "check"
  /\ Goto(a, IF Taken(Key(a)) THEN "conflict" ELSE "insert")
  /\ UNCHANGED <<rows, user, answer, before, faults>>

\* Mutant: the save is an upsert.
InsertOrUpdate(a) ==
  /\ handler[a] = "insert"
  /\ rows' = {r \in rows : r.key # Key(a)} \cup {[key |-> Key(a), by |-> a]}
  /\ Goto(a, "created")
  /\ UNCHANGED <<user, answer, before, faults>>

\* save: the unique column rejects the second row of a key, with an error that
\* is no HttpException.
Insert(a) ==
  /\ handler[a] = "insert"
  /\ IF Taken(Key(a))
     THEN Goto(a, "error") /\ UNCHANGED rows
     ELSE /\ rows' = rows \cup {[key |-> Key(a), by |-> a]}
          /\ Goto(a, "created")
  /\ UNCHANGED <<user, answer, before, faults>>

\* Mutant: login looks for the address as it is written.
FindAsWritten(a) ==
  /\ handler[a] = "find"
  /\ \/ \E r \in rows : /\ r.key = Address[a]
                        /\ user' = [user EXCEPT ![a] = r]
                        /\ Goto(a, "compare")
     \/ /\ ~Taken(Address[a])
        /\ Goto(a, "unauthorized")
        /\ UNCHANGED user
  /\ UNCHANGED <<rows, answer, before, faults>>

\* login: findOne, an UnauthorizedException if there is no row.
Find(a) ==
  /\ handler[a] = "find"
  /\ \/ \E r \in rows : /\ r.key = Key(a)
                        /\ user' = [user EXCEPT ![a] = r]
                        /\ Goto(a, "compare")
     \/ /\ ~Taken(Key(a))
        /\ Goto(a, "unauthorized")
        /\ UNCHANGED user
  /\ UNCHANGED <<rows, answer, before, faults>>

\* bcrypt does not tell the passwords apart.
SamePassword(a, b) == Head[Password[a]] = Head[Password[b]]

\* bcrypt.compare with the row that was read, then a token is signed.
Compare(a) ==
  /\ handler[a] = "compare"
  /\ Goto(a, IF SamePassword(a, user[a].by) THEN "token" ELSE "unauthorized")
  /\ UNCHANGED <<rows, user, answer, before, faults>>

\* The handler's result, by way of the exception filter (an HttpException keeps
\* its status, everything else is 500), goes through the gateway unchanged.
Reply(a) ==
  /\ handler[a] \in Results
  /\ answer' = [answer EXCEPT ![a] = IF @ = "none" THEN handler[a] ELSE @]
  /\ Goto(a, "over")
  /\ UNCHANGED <<rows, user, before, faults>>

\* A statement of the handler throws.
StatementFails(a) ==
  /\ handler[a] \in {"check", "insert", "find"}
  /\ Fault
  /\ Goto(a, "error")
  /\ UNCHANGED <<rows, user, answer, before>>

\* No response: the gateway answers 503, and the handler may still be at work.
ConnectionLost(a) ==
  /\ answer[a] = "none"
  /\ Fault
  /\ answer' = [answer EXCEPT ![a] = "unavailable"]
  /\ UNCHANGED <<rows, handler, user, before>>

\* The service dies: every handler is gone, every request without a response.
Crash ==
  /\ Fault
  /\ LET lost == {a \in Attempts : handler[a] \notin {"idle", "over"}} IN
       /\ handler' = [a \in Attempts |-> IF a \in lost THEN "over" ELSE handler[a]]
       /\ answer' = [a \in Attempts |->
            IF a \in lost /\ answer[a] = "none" THEN "unavailable" ELSE answer[a]]
  /\ UNCHANGED <<rows, user, before>>

Next ==
  \/ \E a \in Attempts :
       \/ Forward(a) \/ Check(a) \/ Insert(a) \/ Find(a) \/ Compare(a) \/ Reply(a)
       \/ StatementFails(a) \/ ConnectionLost(a)
  \/ Crash

Spec == Init /\ [][Next]_vars

-----------------------------------------------------------------------------
(* Properties.                                                             *)

TypeOK ==
  /\ rows \in SUBSET Row
  /\ handler \in [Attempts -> {"idle", "check", "insert", "find", "compare", "over"}
                              \cup Results]
  /\ user \in [Attempts -> Row \cup {NoUser}]
  /\ answer \in [Attempts -> {"none", "unavailable"} \cup Results]
  /\ before \in [Attempts -> SUBSET Attempts]
  /\ faults \in 0..MaxFaults

SameAddress(a, b) == Normal[Address[a]] = Normal[Address[b]]

\* Addresses that differ only in writing never get an account each, in whatever
\* way the attempts interleave and are repeated.
OneRowPerAddress ==
  \A r, s \in rows : SameAddress(r.by, s.by) => r = s

\* An answer can be relied on, then and later: who is told "created" has the
\* row, who is told "conflict" lost to another attempt, and the row of an
\* attempt is never taken over.
AnswerIsTrue ==
  \A a \in Attempts :
    /\ answer[a] = "created" => \E r \in rows : r.by = a
    /\ answer[a] = "conflict" =>
         \E r \in rows : r.by # a /\ SameAddress(r.by, a)

\* Who has once been answered "created" is never turned away: a login sent
\* after that with the password, and the address in whatever writing, is not
\* refused.  And a token is given only for the account of that address, for
\* the password it was created with as far as bcrypt looks at it, though several
\* requests for the address, with different passwords, may have raced.
LoginIsTrue ==
  \A a \in Attempts :
    /\ answer[a] = "token" =>
         \E r \in rows : SameAddress(r.by, a) /\ SamePassword(r.by, a)
    /\ answer[a] = "unauthorized" =>
         \A b \in before[a] : SameAddress(b, a) => ~SamePassword(b, a)
=============================================================================
