-------------------------------- MODULE Frontends --------------------------------
(***************************************************************************)
(* The servers that face the clients, HTTPS, moat and email, in the one    *)
(* reactor of the process, with the metrics they share and the threads of  *)
(* reloads, which touch those, too (src/bridgedb/main.py, run()).          *)
(***************************************************************************)
EXTENDS WebServers, EmailServer

vars == <<metricVars, webVars, emailVars>>

Init == InitMetrics /\ InitWeb /\ InitEmail

Clock ==
  /\ Tick
  /\ UNCHANGED <<metricVars, emailVars, protection, challenges, pending, requests>>

\* Between the messages of a mail the reactor does nothing else.
Idle == delivery.left = 0

WebRequest ==
  /\ Idle
  /\ \E ch \in Web, c \in ClientIP :
       Fetch(ch, c) \/ \E form \in Form : Post(ch, c, form)
  /\ UNCHANGED emailVars

LateAnswer(id) ==
  /\ Idle
  /\ \E p \in pending : p.id = id /\ AnswerLate(p)
  /\ UNCHANGED emailVars

IncomingMail ==
  /\ requests < MaxRequests /\ requests' = requests + 1
  /\ \E mail \in Mail : Receive(mail)
  /\ UNCHANGED <<now, protection, challenges, pending>>

Message == eomReceived /\ UNCHANGED webVars

MailPeriod == NewPeriod /\ UNCHANGED webVars

Exporting == Idle /\ Export /\ UNCHANGED <<webVars, emailVars>>

Recording == RecordBridgesInHashring /\ UNCHANGED <<webVars, emailVars>>

Next ==
  \/ Clock \/ WebRequest \/ \E id \in 1..MaxRequests : LateAnswer(id)
  \/ IncomingMail \/ Message \/ MailPeriod
  \/ Exporting \/ Recording

Spec == Init /\ [][Next]_vars

-----------------------------------------------------------------------------
TypeOK ==
  /\ \A b \in {hotMetrics, coldMetrics, report} : IsABag(b) /\ DOMAIN b \subseteq MetricKey
  /\ exporter \in {"idle", "writing", "disturbed", "stopped"}
  /\ setter \in {"not yet", "hot", "cold", "gone", "done"}
  /\ \A p, q \in pending : p.id = q.id => p = q
  /\ known \in [Mailbox -> {"nothing", "answered", "warned"}]
  /\ delivery \in {NoDelivery} \cup [mail : Mail, left : 1..MaxRecipients]

Copies(e, bag) == IF e \in DOMAIN bag THEN bag[e] ELSE 0

\* Bridges, or what looks like them, are shown by a web server only to a client
\* who was given a captcha by that server, at that address, within its time:
\* neither another client's captcha, nor the other server's, nor one of which
\* the time is over will do.  (That it is solved twice within its time is not
\* noticed.)  Unless it is Google that says so.
CaptchaGuards ==
  [][\A ch \in Web, c \in ClientIP, what \in {"bridges", "empty"} :
       Copies(<<ch, c, what>>, told') > Copies(<<ch, c, what>>, told) =>
         \/ ch = HTTPS /\ protection = "recaptcha"
         \/ \E challenge \in challenges :
              challenge.to = <<ch, c>> /\ now - challenge.at < CaptchaLife]_vars

\* Each thing a client was told, with which time it is that it was.
Times(bag) == UNION {{e} \X (1..bag[e]) : e \in DOMAIN bag}

\* How often clients of a channel were told one of some things.
Tellings(bag, ch, whats) == Cardinality({t \in Times(bag) : t[1][1] = ch /\ t[1][3] \in whats})

\* What a client is told whose request is counted so.
Whats(ch, success) ==
  IF ch = Email THEN IF success = "success" THEN {"answer"} ELSE {"warning", "nothing"}
  ELSE IF success = "success" THEN {"bridges", "empty"} ELSE {"refused"}

\* Do the counters of a dictionary count those who were told something?
Counts(metrics, bag) ==
  \A ch \in Channel, success \in {"success", "fail"} :
    Copies(<<ch, success>>, metrics) = Tellings(bag, ch, Whats(ch, success))

\* The numbers in the file are those of the requests of its interval, rounded up
\* to the bin: each request is counted once, under what its client was told,
\* in the interval it was decided in, whatever is exported, fails to be, or
\* is set by a reload in between.
CountedOnce ==
  /\ Counts(hotMetrics, told)
  /\ \A ch \in Channel, success \in {"success", "fail"} :
       <<ch, success>> \in DOMAIN report =>
         /\ report[<<ch, success>>] % BinSize = 0
         /\ report[<<ch, success>>] - Tellings(toldBefore, ch, Whats(ch, success))
              \in 0..(BinSize - 1)

\* Do two spellings mean one mailbox, to a provider of such a domain?
SameMailbox(a, b) ==
  /\ a.user = b.user /\ a.domain = b.domain
  /\ DomainMap[a.domain] \in IgnoreDots \/ a.dots = b.dots

\* A mailbox that is not whitelisted is sent bridges once in a period and one
\* warning, however it is spelled, and however many mails come from it over
\* however many connections to how many addresses of ours; and only by a mail
\* that its provider signed, where that is asked for, and no rule refuses.
RepliesAreDue ==
  \A e \in DOMAIN outbox :
    \/ e.to \in Whitelist \ Near
    \/ /\ e.to \notin Blacklist \cup Near
       /\ DomainMap[e.from.domain] \in SignedDomain => e.dkim
       /\ \A o \in DOMAIN outbox :
            SameMailbox(o.from, e.from) /\ o.to \notin Whitelist /\ o.body = e.body =>
              o = e /\ outbox[e] = 1
-----------------------------------------------------------------------------
\* The inductive invariant behind TypeOK, CaptchaGuards, CountedOnce and
\* RepliesAreDue.

MetricInv ==
  /\ \A b \in {hotMetrics, coldMetrics, report} : IsABag(b) /\ DOMAIN b \subseteq MetricKey
  /\ IsABag(told)
  /\ exporter \in {"idle", "writing", "disturbed", "stopped"}
  /\ setter \in {"not yet", "hot", "cold", "gone", "done"}

\* What is being written counts the interval that is over, and was not counted
\* in another; there is no report on it before it is written.
CountInv ==
  /\ IsFiniteSet(Times(told)) /\ IsFiniteSet(Times(toldBefore))
  /\ exporter \in {"writing", "disturbed"} => Counts(coldMetrics, toldBefore)
  /\ CountedOnce

\* A captcha's key is that of whom it was made for; only reCAPTCHA keeps a
\* solution waiting.
WebInv ==
  /\ now \in Nat /\ requests \in Nat
  /\ \A p \in pending :
        p.id \in 1..requests /\ (p.form = Malicious \/ protection = "recaptcha")
  /\ \A p, q \in pending : p.id = q.id => p = q
  /\ \A challenge \in challenges : challenge.key = challenge.to /\ challenge.at \in Nat

\* What the distributor knows of a client is what the client was sent.
Due(e) ==
  /\ e.to \notin Blacklist
  /\ canonicalizeEmailDomain(e.to.domain) \in SignedDomain => e.dkim
  /\ outbox[e] = 1
  /\ \/ e.body = "answer" /\ known[e.to] # "nothing"
     \/ e.body = "warning" /\ known[e.to] = "warned"
  /\ \A o \in DOMAIN outbox : o.to = e.to /\ o.body = e.body => o = e

MailInv ==
  /\ known \in [Mailbox -> {"nothing", "answered", "warned"}]
  /\ delivery \in {NoDelivery} \cup [mail : Mail, left : 1..MaxRecipients]
  /\ IsABag(outbox)
  /\ \A e \in DOMAIN outbox :
        /\ e.from \in Sender /\ e.to = getMailTo(e.from) /\ e.to \in Mailbox \ Near
        /\ e.to \notin Whitelist => Due(e)

IInv == MetricInv /\ CountInv /\ WebInv /\ MailInv
==================================================================================
