------------------------ MODULE EmailDistributorProofs ------------------------
(***************************************************************************)
(* Proofs about EmailDistributor, for any clients, minute, rate limit,     *)
(* cleaning period and wait.                                               *)
(***************************************************************************)
EXTENDS EmailDistributor, TLAPS

(***************************************************************************)
(* timeToStr rounds down, by less than a minute, and keeps the order.      *)
(***************************************************************************)
LEMMA DivMod ==
  ASSUME NEW t \in Int
  PROVE  /\ t % MINUTE \in 0..(MINUTE - 1)
         /\ t \div MINUTE \in Int
         /\ t = MINUTE * (t \div MINUTE) + (t % MINUTE)
  BY EmailAssumption

LEMMA RoundsDown ==
  ASSUME NEW t \in Int
  PROVE  /\ timeToStr(t) \in Int
         /\ timeToStr(t) =< t
         /\ t < timeToStr(t) + MINUTE
  BY DivMod, EmailAssumption DEF timeToStr

LEMMA RoundsInRange ==
  ASSUME NEW t \in Nat PROVE timeToStr(t) \in 0..t
  <1>1. t % MINUTE \in Int /\ t \div MINUTE \in Int
        /\ t = MINUTE * (t \div MINUTE) + (t % MINUTE)
    BY DivMod
  <1>2. t \div MINUTE >= 0
    BY <1>1, EmailAssumption
  <1> QED
    BY <1>1, <1>2, RoundsDown, EmailAssumption DEF timeToStr

LEMMA KeepsOrder ==
  ASSUME NEW s \in Int, NEW t \in Int, s =< t
  PROVE  timeToStr(s) =< timeToStr(t)
  <1> DEFINE p == s \div MINUTE
             q == t \div MINUTE
  <1>1. /\ p \in Int /\ s % MINUTE \in 0..(MINUTE - 1)
        /\ s = MINUTE * p + (s % MINUTE)
        /\ q \in Int /\ t % MINUTE \in 0..(MINUTE - 1)
        /\ t = MINUTE * q + (t % MINUTE)
    BY DivMod
  <1>2. MINUTE \in Nat
    BY EmailAssumption
  <1> HIDE DEF p, q
  <1>3. \A a, b \in Int, m \in Nat :
          (a =< b => m * a =< m * b) /\ (a > b => m * a >= m * b + m)
    OBVIOUS
  <1>4. CASE p =< q
    <2>1. MINUTE * p =< MINUTE * q
      BY <1>1, <1>2, <1>3, <1>4
    <2> QED
      BY <1>1, <1>2, <2>1 DEF timeToStr
  <1>5. CASE p > q
    <2>1. MINUTE * p >= MINUTE * q + MINUTE
      BY <1>1, <1>2, <1>3, <1>5
    <2> QED
      BY <1>1, <1>2, <2>1
  <1> QED
    BY <1>1, <1>4, <1>5

LEMMA InitInv == Init => IInv
  <1> SUFFICES ASSUME Init PROVE IInv
    OBVIOUS
  <1> USE EmailAssumption DEF Init
  <1>1. TypeOK
    BY DEF TypeOK
  <1>2. ClockInv
    BY DEF ClockInv
  <1>3. ASSUME NEW c \in Client
        PROVE  AnswerInv(c) /\ WarningInv(c) /\ RowInv(c)
    BY DEF AnswerInv, WarningInv, RowInv
  <1> QED
    BY <1>1, <1>2, <1>3 DEF IInv

LEMMA TickStep == ASSUME IInv, Tick PROVE IInv'
  <1> USE EmailAssumption DEF Tick, request, history
  <1>1. TypeOK /\ TypeOK'
    BY DEF IInv, TypeOK
  <1>2. ClockInv'
    BY <1>1 DEF IInv, ClockInv, TypeOK
  <1>3. ASSUME NEW c \in Client
        PROVE  (AnswerInv(c) /\ WarningInv(c) /\ RowInv(c))'
    <2>1. AnswerInv(c) /\ WarningInv(c) /\ RowInv(c)
      BY DEF IInv
    <2>2. timeToStr(asked)' = timeToStr(asked)
      BY DEF timeToStr
    <2>3. lastAnswer[c] # Never => lastAnswer[c] \in Int
      BY <1>1 DEF TypeOK
    <2> QED
      BY <1>1, <2>1, <2>2, <2>3 DEF AnswerInv, WarningInv, RowInv, TypeOK
  <1> QED
    BY <1>1, <1>2, <1>3 DEF IInv

LEMMA ReceiveStep == ASSUME IInv, NEW d \in Client, Receive(d) PROVE IInv'
  <1> USE EmailAssumption DEF Receive, history
  <1>1. TypeOK /\ TypeOK'
    BY DEF IInv, TypeOK
  <1>2. ClockInv'
    BY <1>1 DEF IInv, ClockInv, TypeOK
  <1>3. ASSUME NEW c \in Client
        PROVE  (AnswerInv(c) /\ WarningInv(c) /\ RowInv(c))'
    <2>1. AnswerInv(c) /\ WarningInv(c) /\ RowInv(c)
      BY DEF IInv
    <2>2. asked \in Int /\ asked' \in Int /\ asked =< asked'
      BY <1>1 DEF IInv, ClockInv, TypeOK
    <2>3. timeToStr(asked) =< timeToStr(asked)'
          /\ timeToStr(asked) \in Int /\ timeToStr(asked)' \in Int
      BY <2>2, KeepsOrder, RoundsDown DEF timeToStr
    <2>4. mailed[c] # Never => mailed[c] \in Int
      BY <1>1 DEF TypeOK
    <2> QED
      BY <2>1, <2>3, <2>4 DEF AnswerInv, WarningInv, RowInv
  <1> QED
    BY <1>1, <1>2, <1>3 DEF IInv

LEMMA AnswerStep == ASSUME IInv, NEW d \in Client, Answer(d) PROVE IInv'
  <1> USE EmailAssumption DEF Answer
  <1>1. TypeOK /\ asked \in Nat /\ now \in Nat /\ lastClean \in Nat
    BY DEF IInv, TypeOK
  <1>2. /\ timeToStr(asked) \in 0..asked /\ timeToStr(asked)' = timeToStr(asked)
        /\ asked < timeToStr(asked) + MINUTE
    BY <1>1, RoundsDown, RoundsInRange DEF timeToStr
  <1>3. TypeOK'
    BY <1>1, <1>2 DEF TypeOK
  <1>4. ClockInv /\ ClockInv' /\ now =< asked + MaxWait
    BY DEF IInv, ClockInv, TypeOK
  <1>5. ASSUME NEW c \in Client
        PROVE  (AnswerInv(c) /\ WarningInv(c) /\ RowInv(c))'
    <2>1. AnswerInv(c) /\ WarningInv(c) /\ RowInv(c)
      BY DEF IInv
    <2>2. CASE c = d
      <3>1. /\ mailed'[c] = timeToStr(asked) /\ lastAnswer'[c] = now
            /\ ~warnedSince'[c] /\ (warned'[c] = warned[c] \/ warned'[c] = Never)
        BY <1>1, <2>2 DEF TypeOK
      <3>2. lastClean' = lastClean /\ now' = now
        OBVIOUS
      <3>3. AnswerInv(c)'
        BY <1>1, <1>2, <1>4, <3>1, <3>2 DEF AnswerInv, ClockInv
      <3>4. RowInv(c)'
        BY <1>1, <1>2, <1>4, <2>1, <3>1, <3>2 DEF RowInv, ClockInv
      <3> QED
        BY <3>1, <3>3, <3>4 DEF WarningInv
    <2>3. CASE c # d
      <3>1. UNCHANGED <<mailed[c], warned[c], lastAnswer[c], warnedSince[c]>>
        BY <1>1, <2>3 DEF TypeOK
      <3> QED
        BY <1>2, <2>1, <3>1 DEF AnswerInv, WarningInv, RowInv
    <2> QED
      BY <2>2, <2>3
  <1> QED
    BY <1>3, <1>4, <1>5 DEF IInv

LEMMA WarnStep == ASSUME IInv, NEW d \in Client, Warn(d) PROVE IInv'
  <1> USE EmailAssumption DEF Warn
  <1>1. TypeOK /\ asked \in Nat /\ now \in Nat /\ lastClean \in Nat
    BY DEF IInv, TypeOK
  <1>2. /\ timeToStr(asked) \in 0..asked /\ timeToStr(asked)' = timeToStr(asked)
        /\ asked < timeToStr(asked) + MINUTE
    BY <1>1, RoundsDown, RoundsInRange DEF timeToStr
  <1>3. TypeOK'
    BY <1>1, <1>2 DEF TypeOK
  <1>4. ClockInv /\ ClockInv' /\ now =< asked + MaxWait
    BY DEF IInv, ClockInv, TypeOK
  <1>5. ASSUME NEW c \in Client
        PROVE  (AnswerInv(c) /\ WarningInv(c) /\ RowInv(c))'
    <2>1. AnswerInv(c) /\ WarningInv(c) /\ RowInv(c)
      BY DEF IInv
    <2>2. AnswerInv(c)'
      BY <1>2, <2>1 DEF AnswerInv
    <2>3. CASE c = d
      <3>1. warned'[c] = timeToStr(asked) /\ mailed' = mailed
        BY <1>1, <2>3 DEF TypeOK
      <3>2. WarningInv(c)'
        BY <1>1, <1>2, <2>1, <3>1 DEF AnswerInv, WarningInv, TypeOK
      <3>3. RowInv(c)'
        BY <1>1, <1>2, <1>4, <2>1, <3>1 DEF RowInv, ClockInv
      <3> QED
        BY <2>2, <3>2, <3>3
    <2>4. CASE c # d
      <3>1. UNCHANGED <<mailed[c], warned[c], warnedSince[c]>>
        BY <1>1, <2>4 DEF TypeOK
      <3> QED
        BY <2>1, <2>2, <3>1 DEF WarningInv, RowInv
    <2> QED
      BY <2>3, <2>4
  <1> QED
    BY <1>3, <1>4, <1>5 DEF IInv

LEMMA IgnoreStep == ASSUME IInv, NEW d \in Client, Ignore(d) PROVE IInv'
  <1> USE DEF Ignore, history
  <1>1. TypeOK' /\ ClockInv'
    BY EmailAssumption DEF IInv, TypeOK, ClockInv
  <1>2. ASSUME NEW c \in Client
        PROVE  (AnswerInv(c) /\ WarningInv(c) /\ RowInv(c))'
    BY DEF IInv, AnswerInv, WarningInv, RowInv, timeToStr
  <1> QED
    BY <1>1, <1>2 DEF IInv

(***************************************************************************)
(* Cleaning, in the running process or in a new one.  What it removes is   *)
(* older than the limit; what it keeps is not much older.                  *)
(***************************************************************************)
LEMMA ExpireStep ==
  ASSUME IInv, pending' \in {pending, NoClient},
         mailed' = Expire(mailed), warned' = Expire(warned), lastClean' = now,
         UNCHANGED <<now, asked, lastAnswer, warnedSince>>
  PROVE  IInv'
  <1> USE EmailAssumption
  <1> DEFINE oldest == timeToStr(now - RATE)
  <1>1. TypeOK /\ asked \in Nat /\ now \in Nat
    BY DEF IInv, TypeOK
  <1>2. oldest \in Int /\ oldest =< now - RATE /\ now - RATE < oldest + MINUTE
    BY <1>1, RoundsDown
  <1> HIDE DEF oldest
  <1>3. ASSUME NEW c \in Client
        PROVE  /\ mailed[c] \in 0..MaxTime \cup {Never}
               /\ warned[c] \in 0..MaxTime \cup {Never}
               /\ lastAnswer[c] \in 0..MaxTime \cup {Never}
               /\ mailed'[c] = IF mailed[c] # Never /\ mailed[c] < oldest
                                 THEN Never ELSE mailed[c]
               /\ warned'[c] = IF warned[c] # Never /\ warned[c] < oldest
                                 THEN Never ELSE warned[c]
    BY <1>1 DEF Expire, oldest, TypeOK
  <1>4. TypeOK'
    <2>1. mailed' \in [Client -> 0..MaxTime \cup {Never}]
      BY <1>1, <1>3 DEF Expire
    <2>2. warned' \in [Client -> 0..MaxTime \cup {Never}]
      BY <1>1, <1>3 DEF Expire
    <2> QED
      BY <1>1, <2>1, <2>2 DEF TypeOK
  <1>5. ClockInv'
    BY <1>1 DEF IInv, ClockInv
  <1>6. ASSUME NEW c \in Client
        PROVE  (AnswerInv(c) /\ WarningInv(c) /\ RowInv(c))'
    <2>1. AnswerInv(c) /\ WarningInv(c)
      BY DEF IInv
    <2>2. timeToStr(asked)' = timeToStr(asked) /\ timeToStr(asked) \in Int
      BY <1>1, RoundsDown DEF timeToStr
    <2>3. AnswerInv(c)'
      BY <1>1, <1>2, <1>3, <2>1, <2>2 DEF AnswerInv
    <2>4. WarningInv(c)'
      BY <1>2, <1>3, <2>1 DEF WarningInv
    <2>5. RowInv(c)'
      BY <1>1, <1>2, <1>3 DEF RowInv
    <2> QED
      BY <2>3, <2>4, <2>5
  <1> QED
    BY <1>4, <1>5, <1>6 DEF IInv

LEMMA NextInv == IInv /\ [Next]_vars => IInv'
  <1> SUFFICES ASSUME IInv, [Next]_vars PROVE IInv'
    OBVIOUS
  <1>1. CASE Tick
    BY <1>1, TickStep
  <1>2. CASE cleanDatabase
    BY <1>2, ExpireStep DEF cleanDatabase, request, history
  <1>3. CASE Restart
    BY <1>3, ExpireStep DEF Restart, history
  <1>4. ASSUME NEW c \in Client, Receive(c) \/ Answer(c) \/ Warn(c) \/ Ignore(c)
        PROVE  IInv'
    BY <1>4, ReceiveStep, AnswerStep, WarnStep, IgnoreStep
  <1>5. CASE UNCHANGED vars
    BY <1>5 DEF vars, request, history, IInv, TypeOK, ClockInv, AnswerInv,
                WarningInv, RowInv, timeToStr
  <1> QED
    BY <1>1, <1>2, <1>3, <1>4, <1>5 DEF Next

\* The inductive invariant holds in every state of every behaviour.
THEOREM Invariance == Spec => []IInv
  BY InitInv, NextInv, PTL DEF Spec

\* The distributor's times and tables keep their types.
THEOREM TypeCorrect == Spec => []TypeOK
  <1>1. IInv => TypeOK
    BY DEF IInv
  <1> QED
    BY <1>1, Invariance, PTL

\* Whatever the limit, the minute and the wait are, two answers to a client
\* are spaced as AnswersAreSpaced says, cleaned tables or not.
THEOREM Spacing == Spec => AnswersAreSpaced
  <1>1. ASSUME IInv, NEW c \in Client \ Whitelist,
               Answer(c), lastAnswer[c] # Never
        PROVE  now - lastAnswer[c] > RATE - (MINUTE - 1) - MaxWait
    <2>1. AnswerInv(c) /\ TypeOK /\ asked =< now
      BY <1>1 DEF IInv, ClockInv
    <2>2. /\ now \in Int /\ asked \in Int /\ lastAnswer[c] \in Int
          /\ mailed[c] # Never => mailed[c] \in Int
      BY <1>1, <2>1, EmailAssumption DEF TypeOK
    <2>3. CASE mailed[c] = Never
      BY <1>1, <2>1, <2>3 DEF AnswerInv
    <2>4. CASE mailed[c] # Never
      <3>1. ~(mailed[c] + RATE >= asked)
        BY <1>1, <2>4 DEF Answer, TooSoon
      <3> QED
        BY <2>1, <2>2, <2>4, <3>1, EmailAssumption DEF AnswerInv
    <2> QED
      BY <2>3, <2>4
  <1>2. IInv => [\A c \in Client \ Whitelist :
                    Answer(c) /\ lastAnswer[c] # Never =>
                      now - lastAnswer[c] > RATE - (MINUTE - 1) - MaxWait]_vars
    BY <1>1
  <1> QED
    BY <1>2, Invariance, PTL DEF AnswersAreSpaced

\* A client is warned once between two answers.
THEOREM WarnedOnce == Spec => OneWarningPerPeriod
  <1>1. IInv => [\A c \in Client : Warn(c) => ~warnedSince[c]]_vars
    BY DEF IInv, WarningInv, Warn, TooSoon
  <1> QED
    BY <1>1, Invariance, PTL DEF OneWarningPerPeriod

\* Nobody is refused for longer than the limit.
THEOREM RefusalsAreBounded == Spec => RefusalsEnd
  <1>1. ASSUME IInv, NEW c \in Client, Warn(c) \/ Ignore(c)
        PROVE  asked - lastAnswer[c] =< RATE
    <2>1. mailed[c] # Never /\ mailed[c] + RATE >= asked
      BY <1>1 DEF Warn, Ignore, TooSoon
    <2>2. mailed[c] =< lastAnswer[c] /\ lastAnswer[c] # Never
      BY <1>1, <2>1 DEF IInv, AnswerInv
    <2>3. asked \in Int /\ mailed[c] \in Int /\ lastAnswer[c] \in Int
      BY <1>1, <2>1, <2>2, EmailAssumption DEF IInv, TypeOK
    <2> QED
      BY <2>1, <2>2, <2>3, EmailAssumption
  <1>2. IInv => [\A c \in Client : Warn(c) \/ Ignore(c) =>
                    asked - lastAnswer[c] =< RATE]_vars
    BY <1>1
  <1> QED
    BY <1>2, Invariance, PTL DEF RefusalsEnd

\* No row of either table outlives its use by much.
THEOREM RowsExpire == Spec => []RowsAreForgotten
  <1>1. IInv => RowsAreForgotten
    <2> SUFFICES ASSUME IInv, NEW c \in Client
                 PROVE  /\ mailed[c] # Never =>
                             now - mailed[c] < RATE + CleanEvery + MINUTE + MaxWait
                        /\ warned[c] # Never =>
                             now - warned[c] < RATE + CleanEvery + MINUTE + MaxWait
      BY DEF RowsAreForgotten
    <2>1. RowInv(c) /\ now =< lastClean + CleanEvery
      BY DEF IInv, ClockInv
    <2>2. /\ now \in Int /\ lastClean \in Int
          /\ mailed[c] # Never => mailed[c] \in Int
          /\ warned[c] # Never => warned[c] \in Int
      BY EmailAssumption DEF IInv, TypeOK
    <2> QED
      BY <2>1, <2>2, EmailAssumption DEF RowInv
  <1> QED
    BY <1>1, Invariance, PTL
=============================================================================
