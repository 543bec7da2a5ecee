--------------------------- MODULE EmailDistributor ---------------------------
(***************************************************************************)
(* The rate limit of the email distributor                                 *)
(* (src/bridgedb/distributors/email/distributor.py) and the two tables it  *)
(* keeps in src/bridgedb/Storage.py, EmailedBridges and WarnedEmails.      *)
(*                                                                         *)
(* The reactor's thread handles one email at a time.  getBridges reads the *)
(* clock before it asks for the database, and may wait there for a session *)
(* of the thread that reloads; the rest of it is one session, and so is    *)
(* cleanDatabase, which runs in the reactor and at the end of each reload. *)
(***************************************************************************)
EXTENDS Integers

CONSTANTS
  Client, NoClient,
  Whitelist,     \* the clients of EMAIL_WHITELIST
  Never,         \* no row
  MINUTE,        \* what timeToStr rounds down to
  RATE,          \* emailRateMax
  CleanEvery,    \* the longest time between two runs of cleanDatabase
  MaxWait,       \* the longest time getBridges waits for the database
  MaxTime        \* bound: of the clock

ASSUME EmailAssumption ==
  /\ NoClient \notin Client /\ Whitelist \subseteq Client
  /\ MINUTE \in Nat \ {0} /\ RATE \in Nat /\ CleanEvery \in Nat
  /\ MaxWait \in Nat /\ MaxTime \in Nat
  /\ Never \notin Int

VARIABLES
  now,           \* the clock, in seconds
  pending,       \* the client whose email the reactor is handling
  asked,         \* getBridges' `now`
  mailed,        \* EmailedBridges.when_mailed
  warned,        \* WarnedEmails.when_warned
  lastClean,     \* when cleanDatabase last ran
  lastAnswer,    \* history: when each client was given bridges last
  warnedSince    \* history: has each client been warned since then

request == <<pending, asked>>
history == <<lastAnswer, warnedSince>>
vars == <<now, request, mailed, warned, lastClean, history>>

\* Fault: rounded up.
timeToStrUp(t) == t - (t % MINUTE) + MINUTE

\* timeToStr: "%Y-%m-%d %H:%M" has no seconds.
timeToStr(t) == t - (t % MINUTE)

Init ==
  /\ now = 0 /\ asked = 0 /\ lastClean = 0
  /\ pending = NoClient
  /\ mailed = [c \in Client |-> Never]
  /\ warned = [c \in Client |-> Never]
  /\ lastAnswer = [c \in Client |-> Never]
  /\ warnedSince = [c \in Client |-> FALSE]

Tick ==
  /\ now < MaxTime
  /\ now < lastClean + CleanEvery
  /\ pending # NoClient => now < asked + MaxWait
  /\ now' = now + 1
  /\ UNCHANGED <<request, mailed, warned, lastClean, history>>

\* An email asks for bridges: `now = time.time()`, then `with getDB()`.
Receive(c) ==
  /\ pending = NoClient
  /\ pending' = c /\ asked' = now
  /\ UNCHANGED <<now, mailed, warned, lastClean, history>>

\* The client was answered less than emailRateMax ago.
TooSoon(c) ==
  /\ mailed[c] # Never /\ c \notin Whitelist
  /\ mailed[c] + RATE >= asked

(***************************************************************************)
(* The client gets bridges.  The warning on record is deleted only when    *)
(* there was no answer on record.                                          *)
(***************************************************************************)
Answer(c) ==
  /\ pending = c /\ ~TooSoon(c)
  /\ warned' = IF mailed[c] = Never THEN [warned EXCEPT ![c] = Never] ELSE warned
  /\ mailed' = [mailed EXCEPT ![c] = timeToStr(asked)]
  /\ pending' = NoClient
  /\ lastAnswer' = [lastAnswer EXCEPT ![c] = now]
  /\ warnedSince' = [warnedSince EXCEPT ![c] = FALSE]
  /\ UNCHANGED <<now, asked, lastClean>>

\* Fault: the session ends without a commit.
WarnUncommitted(c) ==
  /\ pending = c /\ TooSoon(c) /\ warned[c] = Never
  /\ pending' = NoClient
  /\ warnedSince' = [warnedSince EXCEPT ![c] = TRUE]
  /\ UNCHANGED <<now, asked, mailed, warned, lastClean, lastAnswer>>

\* TooSoonEmail: the client is sent a warning.
Warn(c) ==
  /\ pending = c /\ TooSoon(c) /\ warned[c] = Never
  /\ warned' = [warned EXCEPT ![c] = timeToStr(asked)]
  /\ pending' = NoClient
  /\ warnedSince' = [warnedSince EXCEPT ![c] = TRUE]
  /\ UNCHANGED <<now, asked, mailed, lastClean, lastAnswer>>

\* Fault: every email starts the period again.
IgnoreAndProlong(c) ==
  /\ pending = c /\ TooSoon(c) /\ warned[c] # Never
  /\ mailed' = [mailed EXCEPT ![c] = timeToStr(asked)]
  /\ pending' = NoClient
  /\ UNCHANGED <<now, asked, warned, lastClean, history>>

\* IgnoreEmail: the client is sent nothing.
Ignore(c) ==
  /\ pending = c /\ TooSoon(c) /\ warned[c] # Never
  /\ pending' = NoClient
  /\ UNCHANGED <<now, asked, mailed, warned, lastClean, history>>

\* Fault: everything before this minute goes.
ExpireAll(table) ==
  [c \in Client |->
     IF table[c] # Never /\ table[c] < timeToStr(now)
       THEN Never ELSE table[c]]

\* DELETE ... WHERE when < timeToStr(time.time() - emailRateMax)
Expire(table) ==
  [c \in Client |->
     IF table[c] # Never /\ table[c] < timeToStr(now - RATE)
       THEN Never ELSE table[c]]

\* Fault: the warnings are kept.
cleanMailedOnly ==
  /\ mailed' = Expire(mailed)
  /\ lastClean' = now
  /\ UNCHANGED <<now, request, warned, history>>

cleanDatabase ==
  /\ mailed' = Expire(mailed)
  /\ warned' = Expire(warned)
  /\ lastClean' = now
  /\ UNCHANGED <<now, request, history>>

\* The process dies while it waits for the database and is started again:
\* reload(False) cleans the database before the first email is accepted.
Restart ==
  /\ pending # NoClient
  /\ pending' = NoClient
  /\ mailed' = Expire(mailed) /\ warned' = Expire(warned)
  /\ lastClean' = now
  /\ UNCHANGED <<now, asked, history>>

Next ==
  \/ Tick \/ cleanDatabase \/ Restart
  \/ \E c \in Client : Receive(c) \/ Answer(c) \/ Warn(c) \/ Ignore(c)

Spec == Init /\ [][Next]_vars

-----------------------------------------------------------------------------
(* Properties *)

TypeOK ==
  /\ now \in 0..MaxTime /\ asked \in 0..MaxTime /\ lastClean \in 0..MaxTime
  /\ pending \in Client \cup {NoClient}
  /\ mailed \in [Client -> 0..MaxTime \cup {Never}]
  /\ warned \in [Client -> 0..MaxTime \cup {Never}]
  /\ lastAnswer \in [Client -> 0..MaxTime \cup {Never}]
  /\ warnedSince \in [Client -> BOOLEAN]

\* A client is not given bridges again for emailRateMax, whatever was cleaned
\* from the tables in between, less what the clock readings lose: the seconds
\* that timeToStr drops and the time the last answer waited for the database.
AnswersAreSpaced ==
  [][\A c \in Client \ Whitelist :
       Answer(c) /\ lastAnswer[c] # Never =>
         now - lastAnswer[c] > RATE - (MINUTE - 1) - MaxWait]_vars

\* Nobody is warned twice between two answers: cleanDatabase never deletes
\* the warning of a client it still holds to the rate limit.
OneWarningPerPeriod ==
  [][\A c \in Client : Warn(c) => ~warnedSince[c]]_vars

\* The limit ends by itself: an email written more than emailRateMax after
\* the last answer is answered, however many were refused meanwhile.
RefusalsEnd ==
  [][\A c \in Client : Warn(c) \/ Ignore(c) =>
       asked - lastAnswer[c] =< RATE]_vars

\* cleanDatabase forgets: no row of either table is kept much longer than
\* the rate limit needs it, so a stale warning silences a client only so long.
RowsAreForgotten ==
  \A c \in Client, table \in {mailed, warned} :
    table[c] # Never => now - table[c] < RATE + CleanEvery + MINUTE + MaxWait

\* MAX_EMAIL_RATE (distributor.py): "The minimum amount of time (in seconds)
\* which must pass before a client who has previously been given an email
\* response must wait before being eligible to receive another response."
RateIsMinimum ==
  [][\A c \in Client \ Whitelist :
       Answer(c) /\ lastAnswer[c] # Never => now - lastAnswer[c] >= RATE]_vars

\* The warning's text (strings.py): "All further emails during this time
\* period will be ignored"; createResponseBody: nothing is sent "if they have
\* already received a rate-limiting warning email".  So who is ignored has
\* been warned in this period, since the last answer.
WarnedBeforeIgnored ==
  [][\A c \in Client : Ignore(c) => warnedSince[c]]_vars
-----------------------------------------------------------------------------
(***************************************************************************)
(* The inductive invariant behind these.  A stored time lags the event it  *)
(* stands for by less than a minute and a wait, and an answer that is no   *)
(* longer on record is older than the limit, less that lag.                *)
(***************************************************************************)
ClockInv ==
  /\ asked =< now /\ lastClean =< now /\ now =< lastClean + CleanEvery
  /\ pending # NoClient => now =< asked + MaxWait

AnswerInv(c) ==
  /\ mailed[c] # Never =>
       /\ lastAnswer[c] # Never
       /\ mailed[c] =< timeToStr(asked)
       /\ mailed[c] =< lastAnswer[c]
       /\ lastAnswer[c] < mailed[c] + MINUTE + MaxWait
  /\ mailed[c] = Never /\ lastAnswer[c] # Never =>
       now - lastAnswer[c] > RATE - (MINUTE - 1) - MaxWait

WarningInv(c) ==
  warnedSince[c] /\ mailed[c] # Never =>
    warned[c] # Never /\ warned[c] >= mailed[c]

RowInv(c) ==
  /\ mailed[c] # Never => mailed[c] > lastClean - RATE - MINUTE - MaxWait
  /\ warned[c] # Never => warned[c] > lastClean - RATE - MINUTE - MaxWait

IInv ==
  /\ TypeOK /\ ClockInv
  /\ \A c \in Client : AnswerInv(c) /\ WarningInv(c) /\ RowInv(c)
=============================================================================
