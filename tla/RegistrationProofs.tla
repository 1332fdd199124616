------------------------- MODULE RegistrationProofs -------------------------
(***************************************************************************)
(* One row for each address, answers that stay true, and logins that are   *)
(* answered right, for any number of attempts and faults.                  *)
(***************************************************************************)
EXTENDS Registration, TLAPS

HasRow(a) == \E r \in rows : r.by = a
LostTo(a) == \E r \in rows : r.by # a /\ SameAddress(r.by, a)
Opens(a) == \E r \in rows : SameAddress(r.by, a) /\ SamePassword(r.by, a)
Unknown(a) == \A b \in before[a] : SameAddress(b, a) => ~SamePassword(b, a)

\* The key of a row is its attempt's address in normal form, and unique.
KeysUnique ==
  /\ \A r \in rows : r.key = Normal[Address[r.by]]
  /\ \A r, s \in rows : r.key = s.key => r = s

\* A handler that has not saved has no row, and its result is true already.
HandlersTrue ==
  \A a \in Attempts :
    /\ handler[a] \in {"idle", "check", "insert"} => ~HasRow(a)
    /\ handler[a] = "created" => HasRow(a)
    /\ handler[a] = "conflict" => LostTo(a)

AnswersTrue ==
  \A a \in Attempts :
    /\ answer[a] = "created" => HasRow(a)
    /\ answer[a] = "conflict" => LostTo(a)

\* The attempts a login may rely on have rows, and what it has found is the row
\* of its address.
LoginsTrue ==
  \A a \in Attempts :
    /\ \A b \in before[a] : HasRow(b)
    /\ handler[a] = "compare" => user[a] \in rows /\ user[a].key = Key(a)
    /\ "token" \in {handler[a], answer[a]} => Opens(a)
    /\ "unauthorized" \in {handler[a], answer[a]} => Unknown(a)

IInv == TypeOK /\ KeysUnique /\ HandlersTrue /\ AnswersTrue /\ LoginsTrue

LEMMA InitIInv == Init => IInv
BY FaultsAssumption
   DEF Init, IInv, TypeOK, KeysUnique, HandlersTrue, AnswersTrue, LoginsTrue,
       HasRow

\* Steps that leave the table alone keep what is said of rows.
LEMMA RowsKept ==
  ASSUME UNCHANGED rows
  PROVE  /\ KeysUnique => KeysUnique'
         /\ \A a \in Attempts : (HasRow(a)' <=> HasRow(a)) /\ (LostTo(a)' <=> LostTo(a))
BY DEF KeysUnique, HasRow, LostTo

\* What is said of logins needs only that no row goes away, as long as no login
\* gets on.
LEMMA LoginsKept ==
  ASSUME LoginsTrue, rows \subseteq rows', UNCHANGED <<user, before>>,
         \A a \in Attempts :
           /\ handler'[a] = "compare" => handler[a] = "compare"
           /\ \A x \in {"token", "unauthorized"} :
                x \in {handler'[a], answer'[a]} => x \in {handler[a], answer[a]}
  PROVE  LoginsTrue'
<1>1. \A a \in Attempts : HasRow(a) => HasRow(a)'
  BY DEF HasRow
<1>2. \A a \in Attempts : (Opens(a) => Opens(a)') /\ (Unknown(a) <=> Unknown(a)')
  BY DEF Opens, Unknown
<1> SUFFICES ASSUME NEW a \in Attempts
             PROVE  /\ \A b \in before'[a] : HasRow(b)'
                    /\ handler'[a] = "compare" => user'[a] \in rows' /\ user'[a].key = Key(a)
                    /\ "token" \in {handler'[a], answer'[a]} => Opens(a)'
                    /\ "unauthorized" \in {handler'[a], answer'[a]} => Unknown(a)'
  BY DEF LoginsTrue, Key
<1>3. \A b \in before'[a] : HasRow(b)'
  BY DEF LoginsTrue, HasRow
<1>4. handler'[a] = "compare" => user'[a] \in rows' /\ user'[a].key = Key(a)
  BY DEF LoginsTrue
<1>5. /\ "token" \in {handler'[a], answer'[a]} => Opens(a)'
      /\ "unauthorized" \in {handler'[a], answer'[a]} => Unknown(a)'
  BY <1>2 DEF LoginsTrue
<1> QED BY <1>3, <1>4, <1>5

LEMMA FaultCounted ==
  ASSUME TypeOK, Fault
  PROVE  faults' \in 0..MaxFaults
BY FaultsAssumption DEF TypeOK, Fault

LEMMA ForwardStep == ASSUME IInv, NEW a \in Attempts, Forward(a) PROVE IInv'
<1>1. KeysUnique' /\ AnswersTrue'
  BY RowsKept DEF IInv, Forward, AnswersTrue
<1>2. TypeOK' /\ HandlersTrue'
  BY RowsKept, KindAssumption DEF IInv, Forward, Goto, TypeOK, HandlersTrue
<1>3. LoginsTrue'
  <2> SUFFICES ASSUME NEW c \in Attempts
               PROVE  /\ \A b \in before'[c] : HasRow(b)'
                      /\ handler'[c] = "compare" => user'[c] \in rows' /\ user'[c].key = Key(c)
                      /\ "token" \in {handler'[c], answer'[c]} => Opens(c)'
                      /\ "unauthorized" \in {handler'[c], answer'[c]} => Unknown(c)'
    BY DEF LoginsTrue, Key
  <2>1. \A b \in before'[c] : HasRow(b)'
    BY RowsKept DEF IInv, Forward, TypeOK, AnswersTrue, LoginsTrue, HasRow
  <2>2. CASE c = a
    BY <2>1, <2>2, KindAssumption DEF IInv, Forward, Goto, TypeOK
  <2>3. CASE c # a
    <3>1. /\ handler'[c] = handler[c] /\ before'[c] = before[c]
          /\ UNCHANGED <<rows, user, answer>>
      BY <2>3 DEF IInv, Forward, Goto, TypeOK
    <3>2. (Opens(c)' <=> Opens(c)) /\ (Unknown(c)' <=> Unknown(c))
      BY <3>1 DEF Opens, Unknown
    <3> QED BY <2>1, <3>1, <3>2 DEF IInv, LoginsTrue
  <2> QED BY <2>2, <2>3
<1> QED BY <1>1, <1>2, <1>3 DEF IInv

\* A row found under the key is another attempt's: this one has none yet.
LEMMA CheckStep == ASSUME IInv, NEW a \in Attempts, Check(a) PROVE IInv'
<1>1. KeysUnique' /\ AnswersTrue'
  BY RowsKept DEF IInv, Check, AnswersTrue
<1>2. TypeOK'
  BY DEF IInv, Check, Goto, TypeOK, Results
<1>3. Taken(Key(a)) => LostTo(a)
  <2> SUFFICES ASSUME Taken(Key(a)) PROVE LostTo(a)
    OBVIOUS
  <2>1. PICK r \in rows : r.key = Normal[Address[a]]
    BY DEF Taken, Key
  <2>2. ~HasRow(a)
    BY DEF IInv, HandlersTrue, Check
  <2> QED BY <2>1, <2>2 DEF IInv, KeysUnique, HasRow, LostTo, SameAddress
<1>4. HandlersTrue'
  BY <1>3, RowsKept DEF IInv, Check, Goto, TypeOK, HandlersTrue
<1>5. LoginsTrue'
  BY LoginsKept DEF IInv, Check, Goto, TypeOK
<1> QED BY <1>1, <1>2, <1>4, <1>5 DEF IInv

\* The unique column: a row is added only when no row has its key.
LEMMA InsertStep == ASSUME IInv, NEW a \in Attempts, Insert(a) PROVE IInv'
<1>1. CASE Taken(Key(a))
  <2>1. UNCHANGED <<rows, user, answer, before, faults>> /\ Goto(a, "error")
    BY <1>1 DEF Insert
  <2>2. KeysUnique' /\ AnswersTrue'
    BY <2>1, RowsKept DEF IInv, AnswersTrue
  <2>3. TypeOK' /\ HandlersTrue'
    BY <2>1, RowsKept DEF IInv, Goto, TypeOK, HandlersTrue, Results
  <2>4. LoginsTrue'
    BY <2>1, LoginsKept DEF IInv, Goto, TypeOK
  <2> QED BY <2>2, <2>3, <2>4 DEF IInv
<1>2. CASE ~Taken(Key(a))
  <2> DEFINE row == [key |-> Key(a), by |-> a]
  <2>1. /\ rows' = rows \cup {row}
        /\ Goto(a, "created")
        /\ UNCHANGED <<user, answer, before, faults>>
    BY <1>2 DEF Insert
  <2>2. /\ row \in Row
        /\ row.key = Normal[Address[a]] /\ row.by = a
    BY AddressAssumption, NormalAssumption DEF Key, Row
  <2> HIDE DEF row
  <2>3. TypeOK'
    BY <2>1, <2>2 DEF IInv, TypeOK, Goto, Results
  <2>4. KeysUnique'
    <3>1. \A r \in rows : r.key # row.key
      BY <1>2, <2>2 DEF Taken, Key
    <3> QED BY <2>1, <2>2, <3>1 DEF IInv, KeysUnique
  <2>5. /\ HasRow(a)'
        /\ \A b \in Attempts : (HasRow(b) => HasRow(b)') /\ (LostTo(b) => LostTo(b)')
        /\ \A b \in Attempts \ {a} : HasRow(b)' => HasRow(b)
    BY <2>1, <2>2 DEF HasRow, LostTo
  <2>6. HandlersTrue'
    BY <2>1, <2>5 DEF IInv, TypeOK, Goto, HandlersTrue
  <2>7. AnswersTrue'
    BY <2>1, <2>5 DEF IInv, AnswersTrue
  <2>8. LoginsTrue'
    BY <2>1, LoginsKept DEF IInv, Goto, TypeOK
  <2> QED BY <2>3, <2>4, <2>6, <2>7, <2>8 DEF IInv
<1> QED BY <1>1, <1>2

\* The table has no row for the address, or one that was read.
LEMMA FindStep == ASSUME IInv, NEW a \in Attempts, Find(a) PROVE IInv'
<1>1. UNCHANGED <<rows, answer, before, faults>> /\ handler[a] = "find"
  BY DEF Find
<1>2. KeysUnique' /\ AnswersTrue'
  BY <1>1, RowsKept DEF IInv, AnswersTrue
<1>3. \A b \in Attempts : Opens(b)' <=> Opens(b)
  BY <1>1 DEF Opens
<1>4. \A b \in Attempts : Unknown(b)' <=> Unknown(b)
  BY <1>1 DEF Unknown
<1>5. ASSUME NEW r \in rows, r.key = Key(a), user' = [user EXCEPT ![a] = r],
             Goto(a, "compare")
      PROVE  IInv'
  <2>1. TypeOK'
    BY <1>1, <1>5 DEF IInv, TypeOK, Goto
  <2>2. HandlersTrue'
    BY <1>1, <1>5, RowsKept DEF IInv, TypeOK, Goto, HandlersTrue
  <2>3. LoginsTrue'
    BY <1>1, <1>3, <1>4, <1>5, RowsKept DEF IInv, TypeOK, Goto, LoginsTrue, Key
  <2> QED BY <1>2, <2>1, <2>2, <2>3 DEF IInv
<1>6. ASSUME ~Taken(Key(a)), Goto(a, "unauthorized"), UNCHANGED user
      PROVE  IInv'
  <2>1. TypeOK'
    BY <1>1, <1>6 DEF IInv, TypeOK, Goto, Results
  <2>2. HandlersTrue'
    BY <1>1, <1>6, RowsKept DEF IInv, TypeOK, Goto, HandlersTrue
  <2>3. Unknown(a)
    <3> SUFFICES ASSUME NEW b \in before[a], SameAddress(b, a) PROVE FALSE
      BY DEF Unknown
    <3>1. PICK r \in rows : r.by = b
      BY DEF IInv, LoginsTrue, HasRow
    <3>2. r.key = Key(a)
      BY <3>1 DEF IInv, KeysUnique, Key, SameAddress
    <3> QED BY <1>6, <3>2 DEF Taken
  <2>4. LoginsTrue'
    BY <1>1, <1>3, <1>4, <1>6, <2>3, RowsKept DEF IInv, TypeOK, Goto, LoginsTrue, Key
  <2> QED BY <1>2, <2>1, <2>2, <2>4 DEF IInv
<1> QED BY <1>5, <1>6 DEF Find

\* The row that was read is the only one of its address, so its password is the
\* one that every attempt answered "created" for the address was sent with.
LEMMA CompareStep == ASSUME IInv, NEW a \in Attempts, Compare(a) PROVE IInv'
<1>1. /\ UNCHANGED <<rows, user, answer, before, faults>>
      /\ handler[a] = "compare"
      /\ Goto(a, IF SamePassword(a, user[a].by) THEN "token" ELSE "unauthorized")
  BY DEF Compare
<1>2. KeysUnique' /\ AnswersTrue'
  BY <1>1, RowsKept DEF IInv, AnswersTrue
<1>3. TypeOK'
  BY <1>1 DEF IInv, TypeOK, Goto, Results
<1>4. HandlersTrue'
  BY <1>1, RowsKept DEF IInv, TypeOK, Goto, HandlersTrue
<1>5. user[a] \in rows /\ user[a].key = Key(a)
  BY <1>1 DEF IInv, LoginsTrue
<1>6. SamePassword(a, user[a].by) => Opens(a)
  BY <1>5 DEF IInv, KeysUnique, Opens, Key, SameAddress, SamePassword
<1>7. ~SamePassword(a, user[a].by) => Unknown(a)
  <2> SUFFICES ASSUME ~SamePassword(a, user[a].by),
                      NEW b \in before[a], SameAddress(b, a)
               PROVE  ~SamePassword(b, a)
    BY DEF Unknown
  <2>1. PICK r \in rows : r.by = b
    BY DEF IInv, LoginsTrue, HasRow
  <2>2. r = user[a]
    BY <1>5, <2>1 DEF IInv, KeysUnique, Key, SameAddress
  <2> QED BY <2>1, <2>2 DEF SamePassword
<1>8. \A b \in Attempts : (Opens(b)' <=> Opens(b)) /\ (Unknown(b)' <=> Unknown(b))
  BY <1>1 DEF Opens, Unknown
<1>9. LoginsTrue'
  BY <1>1, <1>6, <1>7, <1>8, RowsKept DEF IInv, TypeOK, Goto, LoginsTrue, Key
<1> QED BY <1>2, <1>3, <1>4, <1>9 DEF IInv

LEMMA ReplyStep == ASSUME IInv, NEW a \in Attempts, Reply(a) PROVE IInv'
<1>1. KeysUnique'
  BY RowsKept DEF IInv, Reply
<1>2. TypeOK'
  BY DEF IInv, Reply, Goto, TypeOK, Results
<1>3. HandlersTrue'
  BY RowsKept DEF IInv, Reply, Goto, TypeOK, HandlersTrue
<1>4. AnswersTrue'
  BY RowsKept DEF IInv, Reply, TypeOK, HandlersTrue, AnswersTrue
<1>5. LoginsTrue'
  BY LoginsKept DEF IInv, Reply, Goto, TypeOK
<1> QED BY <1>1, <1>2, <1>3, <1>4, <1>5 DEF IInv

LEMMA FaultStep ==
  ASSUME IInv,
         Crash \/ \E a \in Attempts : StatementFails(a) \/ ConnectionLost(a)
  PROVE  IInv'
<1>1. UNCHANGED <<rows, user, before>> /\ Fault
  BY DEF Crash, StatementFails, ConnectionLost
<1>2. KeysUnique' /\ faults' \in 0..MaxFaults
  BY <1>1, RowsKept, FaultCounted DEF IInv
<1>3. CASE Crash
  <2>1. TypeOK'
    BY <1>2, <1>3 DEF IInv, TypeOK, Crash
  <2>2. HandlersTrue' /\ AnswersTrue'
    BY <1>1, <1>3, RowsKept DEF IInv, Crash, HandlersTrue, AnswersTrue
  <2>3. LoginsTrue'
    BY <1>1, <1>3, LoginsKept DEF IInv, Crash, TypeOK
  <2> QED BY <1>2, <2>1, <2>2, <2>3 DEF IInv
<1>4. ASSUME NEW a \in Attempts, StatementFails(a) PROVE IInv'
  <2>1. TypeOK'
    BY <1>2, <1>4 DEF IInv, TypeOK, StatementFails, Goto, Results
  <2>2. HandlersTrue' /\ AnswersTrue'
    BY <1>1, <1>4, RowsKept
       DEF IInv, TypeOK, StatementFails, Goto, HandlersTrue, AnswersTrue
  <2>3. LoginsTrue'
    BY <1>1, <1>4, LoginsKept DEF IInv, TypeOK, StatementFails, Goto
  <2> QED BY <1>2, <2>1, <2>2, <2>3 DEF IInv
<1>5. ASSUME NEW a \in Attempts, ConnectionLost(a) PROVE IInv'
  <2>1. TypeOK'
    BY <1>2, <1>5 DEF IInv, TypeOK, ConnectionLost
  <2>2. HandlersTrue' /\ AnswersTrue'
    BY <1>1, <1>5, RowsKept DEF IInv, TypeOK, ConnectionLost, HandlersTrue, AnswersTrue
  <2>3. LoginsTrue'
    BY <1>1, <1>5, LoginsKept DEF IInv, TypeOK, ConnectionLost
  <2> QED BY <1>2, <2>1, <2>2, <2>3 DEF IInv
<1> QED BY <1>3, <1>4, <1>5

LEMMA NextIInv == IInv /\ [Next]_vars => IInv'
<1> SUFFICES ASSUME IInv, [Next]_vars PROVE IInv'
  OBVIOUS
<1>1. CASE Next
  BY <1>1, ForwardStep, CheckStep, InsertStep, FindStep, CompareStep, ReplyStep,
     FaultStep DEF Next
<1>2. CASE UNCHANGED vars
  BY <1>2 DEF vars, IInv, TypeOK, KeysUnique, HandlersTrue, AnswersTrue,
              LoginsTrue, HasRow, LostTo, Opens, Unknown, SameAddress
<1> QED BY <1>1, <1>2

\* No two accounts have addresses that differ only in writing: the check is
\* useless in a race, the unique column on the normal form is what holds.
THEOREM AccountsAreDistinct == Spec => []OneRowPerAddress
<1>1. IInv => OneRowPerAddress
  BY DEF IInv, KeysUnique, OneRowPerAddress, SameAddress
<1> QED BY <1>1, InitIInv, NextIInv, PTL DEF Spec

\* What a client was told of its attempt remains so, whatever fails later.
THEOREM AnswersStayTrue == Spec => []AnswerIsTrue
<1>1. IInv => AnswerIsTrue
  BY DEF IInv, AnswersTrue, AnswerIsTrue, HasRow, LostTo
<1> QED BY <1>1, InitIInv, NextIInv, PTL DEF Spec

\* Who was answered "created" can log in, in whatever writing of the address and
\* however the requests raced; and only the password of the row opens it.
THEOREM LoginsStayTrue == Spec => []LoginIsTrue
<1>1. IInv => LoginIsTrue
  BY DEF IInv, LoginsTrue, LoginIsTrue, Opens, Unknown
<1> QED BY <1>1, InitIInv, NextIInv, PTL DEF Spec
=============================================================================
