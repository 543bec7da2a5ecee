------------------------------- MODULE WebServers -------------------------------
(***************************************************************************)
(* The two web servers, HTTPS (src/bridgedb/distributors/https/server.py)  *)
(* and moat (src/bridgedb/distributors/moat/server.py): a client fetches a *)
(* captcha, and posts its solution to be given bridges.  HTTPS may leave   *)
(* captchas to reCAPTCHA.  What the distributor finds for a request is     *)
(* chosen: some bridges, none, or an exception.                            *)
(***************************************************************************)
EXTENDS Metrics, Schedule, FiniteSets

CONSTANTS
  HTTPS, Moat,
  Client,        \* addresses of clients
  NoAddress,     \* the client whose address is not known
  Protections,   \* how HTTPS may be protected: "gimp", "recaptcha"
  CaptchaLife,   \* the length of GimpCaptcha.sched's intervals
  MaxTime, MaxRequests     \* bounds: of the clock, of what clients send

ASSUME WebAssumption ==
  /\ Web = {HTTPS, Moat} /\ HTTPS # Moat /\ CaptchaLife \in Nat \ {0}
  /\ MaxTime \in Nat /\ MaxRequests \in Nat

VARIABLES
  now,
  protection,
  challenges,    \* the captchas made, in the hands of whoever wants them
  pending,       \* the requests to be answered later
  requests       \* the number of requests so far

webVars == <<now, protection, challenges, pending, requests>>

InitWeb ==
  /\ now = 0 /\ protection \in Protections
  /\ challenges = {} /\ pending = {} /\ requests = 0

Tick == now < MaxTime /\ now' = now + 1

-----------------------------------------------------------------------------
(* Captchas *)

\* Fault: the key of the captchas is the channel's alone.
hmacKeyOfChannel(ch, c) == <<ch>>

\* getHMAC(self.hmacKey, clientIP).  Without an address it is one for all.
hmacKey(ch, c) == <<ch, c>>

Forged == [key |-> <<>>, at |-> 0, to |-> <<>>]

\* createChallenge; "to" is not in the challenge, but for the properties.
createChallenge(ch, c) == [key |-> hmacKey(ch, c), at |-> now, to |-> <<ch, c>>]

\* Fault: the wrong side of the schedule.
expiredAfter(challenge) == now > nextIntervalStarts(CaptchaLife, AtSecond(challenge.at))

expired(challenge) == now >= nextIntervalStarts(CaptchaLife, AtSecond(challenge.at))

\* GimpCaptcha.check
check(challenge, solution, key) ==
  CASE solution = "none" \/ challenge.key # key -> "invalid"
    [] solution # "none" /\ challenge.key = key /\ expired(challenge) -> "expired"
    [] OTHER -> IF solution = "right" THEN "valid" ELSE "invalid"

\* What a client may post: sound if all the fields are there; counted if the
\* type of bridges is one the metrics support; found is what the distributor
\* finds for it, and a bot is given a decoy, if there is one for that type.
Form ==
  [headers : BOOLEAN, sound : BOOLEAN, counted : BOOLEAN,
   challenge : challenges \cup {Forged}, solution : {"right", "wrong", "none"},
   bot : {"no", "decoy", "no decoy"}, found : {"some", "none", "raises"}]

\* The client is told something, which a supported type makes countable.
Told(form, ch, c, what) == IF form.counted THEN {<<ch, c, what>>} ELSE {}

Counted(form, ch, success) == IF form.counted THEN {<<ch, success>>} ELSE {}

\* getClientIP: what is left of a header that is forged or missing is None.
ClientIP == Client \cup {NoAddress}

\* Fetching a captcha: a page of HTTPS, while Google makes those of reCAPTCHA.
getCaptchaImage(c) ==
  /\ protection = "gimp"
  /\ challenges' = challenges \cup {createChallenge(HTTPS, c)}

\* Moat's CaptchaFetchResource, which refuses headers that are not JSON's; what
\* transport it proposes does not bind the client.
getMoatCaptcha(c) == challenges' = challenges \cup {createChallenge(Moat, c)}

Fetch(ch, c) ==
  /\ ReactorIsFree /\ requests < MaxRequests
  /\ IF ch = Moat THEN getMoatCaptcha(c) ELSE getCaptchaImage(c)
  /\ requests' = requests + 1
  /\ UNCHANGED <<now, protection, pending, metricVars>>

\* The headers of a bot's request match those of the blacklist.
isRequestFromBot(form) == form.bot # "no"

\* What is given to a client for whom the distributor found so much.
Given(form, found) ==
  IF isRequestFromBot(form) THEN form.bot = "decoy" ELSE found = "some"

\* extractClientSolution: raises when a field is missing.
extractClientSolution(form) == form.sound

\* checkSolution of HTTPS: a captcha that has expired is a wrong one.
checkSolution(c, form) == check(form.challenge, form.solution, hmacKey(HTTPS, c)) = "valid"

\* Moat's answer tells an expired captcha from a wrong one; both are failures.
checkMoatSolution(c, form) ==
  check(form.challenge, form.solution, hmacKey(Moat, c)) = "valid"

-----------------------------------------------------------------------------
(* HTTPS *)

\* What BridgesResource shows: an exception, too, is an answer without bridges.
Page(c, form) ==
  IF c # NoAddress /\ form.found # "raises" /\ Given(form, form.found) THEN "bridges" ELSE "empty"

\* BridgesResource.render, after the captcha was solved.
ShowPage(c, form) ==
  Record(Counted(form, HTTPS, "success"), Told(form, HTTPS, c, Page(c, form)))

Refuse(ch, c, form) ==
  Record(Counted(form, ch, "fail"), Told(form, ch, c, "refused"))

\* A request that is answered later (NOT_DONE_YET).
Waiting(c, form) == [id |-> requests + 1, client |-> c, form |-> form]

Malicious == <<>>

\* CaptchaProtectedResource.render_POST with GimpCaptcha: without the fields the
\* refusal is sent a second later.
PostGimp(c, form) ==
  /\ protection = "gimp"
  /\ IF extractClientSolution(form) /\ checkSolution(c, form)
       THEN ShowPage(c, form) ELSE Refuse(HTTPS, c, form)
  /\ pending' = pending \cup
       (IF extractClientSolution(form) THEN {} ELSE {Waiting(c, Malicious)})

\* render_POST with reCAPTCHA: without the fields it raises, and Twisted sends
\* an error; else the answer waits for the API's.  The challenge is Google's.
PostReCaptcha(c, form) ==
  /\ protection = "recaptcha" /\ form.challenge = Forged /\ form.headers
  /\ form.bot = "no" \/ form.found = "some"  \* spares equivalent requests
  /\ IF extractClientSolution(form)
       THEN /\ pending' = pending \cup {Waiting(c, form)}
            /\ UNCHANGED metricVars
       ELSE UNCHANGED <<metricVars, pending>>

\* _ebRequest makes an answer of a failure, too; fields that are there but
\* empty are not even submitted.
Verdicts(form) == IF form.solution = "right" THEN {TRUE, FALSE} ELSE {FALSE}

\* redirectMaliciousRequest, or checkResponse and _renderDeferred
AnswerLate(p) ==
  /\ ReactorIsFree /\ p \in pending
  /\ pending' = pending \ {p}
  /\ IF p.form = Malicious THEN UNCHANGED metricVars
     ELSE \E valid \in Verdicts(p.form) :
            IF valid THEN ShowPage(p.client, p.form) ELSE Refuse(HTTPS, p.client, p.form)
  /\ UNCHANGED <<now, protection, challenges, requests>>

-----------------------------------------------------------------------------
(* Moat *)

\* checkRequestHeaders: is it JSON that is sent and understood?
checkRequestHeaders(form) == form.headers

\* failureResponse, for a captcha that is not solved or has expired; that there
\* are no bridges is told by the same method, but counted as a success.
failureResponse(c, form) == Refuse(Moat, c, form)

\* The lines found: without an address the request is not made valid.
MoatFinds(c, form) == IF c = NoAddress THEN "none" ELSE form.found

MoatAnswer(c, form) == IF Given(form, MoatFinds(c, form)) THEN "bridges" ELSE "empty"

\* CaptchaCheckResource.render_POST: an exception of the distributor's is not
\* caught, and nothing is counted.
PostMoat(c, form) ==
  /\ CASE checkRequestHeaders(form) /\ extractClientSolution(form)
            /\ checkMoatSolution(c, form) ->
            IF MoatFinds(c, form) = "raises" THEN UNCHANGED metricVars
            ELSE Record(Counted(form, Moat, "success"), Told(form, Moat, c, MoatAnswer(c, form)))
       [] OTHER -> failureResponse(c, form)
  /\ UNCHANGED pending

Post(ch, c, form) ==
  /\ ReactorIsFree /\ requests < MaxRequests
  /\ requests' = requests + 1
  /\ IF ch = Moat THEN PostMoat(c, form) ELSE PostGimp(c, form) \/ PostReCaptcha(c, form)
  /\ UNCHANGED <<now, protection, challenges>>
===============================================================================
