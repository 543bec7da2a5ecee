------------------------------- MODULE EmailServer -------------------------------
(***************************************************************************)
(* The SMTP server and the autoresponder that answers what it receives     *)
(* (src/bridgedb/distributors/email/server.py and autoresponder.py).  A    *)
(* mail is received over a connection and makes one message for every      *)
(* recipient of ours; each is checked and answered on its own.  Of the     *)
(* EmailDistributor, which the module of that name models, there is only   *)
(* what it knows of a client within one period.                            *)
(***************************************************************************)
EXTENDS Metrics

CONSTANTS
  Sender,        \* what is in the "From:" of a mail: [user, dots, plus, domain]
  DomainMap,     \* the canonical domains of the supported ones
  IgnoreDots, SignedDomain,    \* canonical domains with that rule: EMAIL_DOMAIN_RULES
  None,
  Whitelist,     \* EMAIL_WHITELIST
  Blacklist,     \* EMAIL_BLACKLIST
  Near,          \* those within EMAIL_FUZZY_MATCH of the blacklist
  MaxRecipients  \* bound: RCPT TO lines that are ours, per mail

ASSUME EmailServerAssumption ==
  /\ IgnoreDots \cup SignedDomain \subseteq {DomainMap[d] : d \in DOMAIN DomainMap}
  /\ None \notin Sender /\ MaxRecipients \in Nat
  /\ \A d \in DOMAIN DomainMap : None \notin {d, DomainMap[d]}
  /\ \A s \in Sender :
       /\ s = [user |-> s.user, dots |-> s.dots, plus |-> s.plus, domain |-> s.domain]
       /\ s.dots \in BOOLEAN

VARIABLES
  known,         \* what the distributor knows: clients "answered" and "warned"
  outbox,        \* the mails sent, with what they answer
  delivery       \* a mail received, and how many of its messages are left

emailVars == <<known, outbox, delivery>>

NoDelivery == [mail |-> None, left |-> 0]

\* canonicalizeEmailDomain; None: it raises UnsupportedDomain.
canonicalizeEmailDomain(domain) ==
  IF domain \in DOMAIN DomainMap THEN DomainMap[domain] ELSE None

\* extractEmailAddress raises BadEmail for what has no user and domain.
extractEmailAddress(from) == from.user # None

\* Fault: what follows a plus is kept.
normalizeEmailWithPlus(from) ==
  IF ~extractEmailAddress(from) \/ canonicalizeEmailDomain(from.domain) = None THEN None
  ELSE [from EXCEPT !.dots = @ /\ canonicalizeEmailDomain(from.domain) \notin IgnoreDots]

\* The domain stays as it was written, though the rules are its canonical one's.
normalizeEmail(from) ==
  IF ~extractEmailAddress(from) \/ canonicalizeEmailDomain(from.domain) = None THEN None
  ELSE [from EXCEPT !.plus = FALSE,
                    !.dots = @ /\ canonicalizeEmailDomain(from.domain) \notin IgnoreDots]

\* getMailTo: a whitelisted address stays as it is written.
getMailTo(from) == IF from \in Whitelist THEN from ELSE normalizeEmail(from)

Mailbox == {getMailTo(from) : from \in Sender} \ {None}

\* MAIL FROM: whitelisted or of a supported domain, of a domain that is not, or
\* one over which validateFrom fails otherwise.
Origin == {"supported", "unsupported", "odd"}

InitEmail ==
  /\ known = [c \in Mailbox |-> "nothing"]
  /\ outbox = EmptyBag /\ delivery = NoDelivery

\* What a mail is: its MAIL FROM, the RCPT TO that are ours, whether DKIM passed,
\* it fits MAX_LENGTH, and it asks for a type the metrics support.
Mail == [origin : Origin, recipients : 1..MaxRecipients,
         sender : Sender, dkim : BOOLEAN, fits : BOOLEAN, counted : BOOLEAN]

-----------------------------------------------------------------------------
(* The autoresponder *)

\* validateFrom, which refuses what is unsupported, and validateTo: a message is
\* made for every recipient of ours, and knows the domain it is from, unless
\* validateFrom failed.
accepted(mail) == mail.origin # "unsupported"

canonicalFromSMTP(mail) == mail.origin = "supported"

\* checkDKIM: if the rules ask for it, the results' header says "pass".
checkDKIM(mail, domain) == domain \in SignedDomain => mail.dkim

\* Fault: the signature is not looked at.
runChecksUnsigned(mail, client) ==
  /\ canonicalFromSMTP(mail)
  /\ client \in Whitelist \/ client \notin Blacklist
  /\ client \notin Near

\* runChecks.  Rules are looked up with what is not text for a whitelisted
\* address, and there are none; that it is near the blacklist counts.
runChecks(mail, client) ==
  /\ canonicalFromSMTP(mail)
  /\ client \in Whitelist \/ client \notin Blacklist
  /\ client \in Whitelist \/ checkDKIM(mail, canonicalizeEmailDomain(client.domain))
  /\ client \notin Near

\* createResponseBody: an answer, though there may be no bridges to put in
\* it; then a warning; then nothing.
createResponseBody(client, knows) ==
  CASE client \in Whitelist \/ knows = "nothing" -> "answer"
    [] client \notin Whitelist /\ knows = "answered" -> "warning"
    [] OTHER -> "nothing"

\* What the distributor knows of a client after that.
Learned(body) == IF body = "answer" THEN "answered" ELSE "warned"

\* The key that is counted for a message answered so.
MessageKeys(mail, body) ==
  IF mail.counted THEN {<<Email, IF body = "answer" THEN "success" ELSE "fail">>} ELSE {}

\* The letter that is sent, if any.
Letters(mail, client, body) ==
  IF body = "nothing" THEN {}
  ELSE {[from |-> mail.sender, dkim |-> mail.dkim, to |-> client, body |-> body]}

\* reply
reply(mail, client) ==
  LET body == createResponseBody(client, known[client]) IN
  /\ known' = [known EXCEPT ![client] = Learned(body)]
  /\ outbox' = outbox (+) SetToBag(Letters(mail, client, body))
  /\ Record(MessageKeys(mail, body), IF mail.counted THEN {<<Email, client, body>>} ELSE {})

\* A mail is received, and makes its messages; one that grows too long is ignored
\* from there on, and not counted.
Receive(mail) ==
  /\ ReactorIsFree /\ delivery.left = 0
  /\ delivery' = IF accepted(mail) /\ mail.fits
                   THEN [mail |-> mail, left |-> mail.recipients] ELSE NoDelivery
  /\ UNCHANGED <<known, outbox, metricVars>>

\* eomReceived, of one message: who may not be answered is not, and not counted.
eomReceived ==
  LET mail   == delivery.mail
      client == getMailTo(mail.sender) IN
  /\ delivery.left > 0
  /\ delivery' = IF delivery.left = 1 THEN NoDelivery ELSE [delivery EXCEPT !.left = @ - 1]
  /\ IF client # None /\ runChecks(mail, client)
       THEN reply(mail, client) ELSE UNCHANGED <<known, outbox, metricVars>>

\* The period in which a client is answered once ends (see EmailDistributor).
NewPeriod ==
  /\ ReactorIsFree /\ delivery.left = 0
  /\ known' = [c \in Mailbox |-> "nothing"] /\ outbox' = EmptyBag
  /\ UNCHANGED <<delivery, metricVars>>
===============================================================================
