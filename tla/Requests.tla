------------------------------- MODULE Requests -------------------------------
(***************************************************************************)
(* From what a client asks for to a request for bridges: the arguments of  *)
(* a web form (src/bridgedb/distributors/https/request.py), the fields of  *)
(* moat's JSON (src/bridgedb/distributors/moat/request.py) and the lines   *)
(* of an email (src/bridgedb/distributors/email/request.py).  A request is *)
(* [method, version, countries] (src/bridgedb/bridgerequest.py); "vanilla" *)
(* is no transport.                                                        *)
(***************************************************************************)
EXTENDS Sequences, Integers

CONSTANTS
  MethodName, CountryName,     \* what the patterns for the two match
  NoName,                      \* a value they do not match, or none
  DefaultTransport             \* strings._getDefaultTransport()

ASSUME RequestAssumption ==
  NoName \notin MethodName \cup CountryName /\ DefaultTransport \in MethodName

\* Of the values of a parameter, those that match its pattern.
Matching(values, names) == SelectSeq(values, LAMBDA v : v \in names)

\* The last transport that was named.
justOnePTType(transports) ==
  IF transports = <<>> THEN "vanilla" ELSE transports[Len(transports)]

BridgeRequest(version, transports, notBlockedIn) ==
  [method |-> justOnePTType(transports), version |-> version, countries |-> notBlockedIn]

Elements(s) == {s[i] : i \in DOMAIN s}

\* Fault: the client's own country is not added.
HTTPSBridgeRequestAsAsked(ask, country) ==
  BridgeRequest(IF ask.ipv6 THEN 6 ELSE 4, Matching(ask.transport, MethodName),
                Elements(Matching(ask.unblocked, CountryName)))

\* ask: is there an "ipv6", and the values of "transport" and of "unblocked".
\* The country the client is in is added, if it is known.
HTTPSBridgeRequest(ask, country) ==
  BridgeRequest(IF ask.ipv6 THEN 6 ELSE 4, Matching(ask.transport, MethodName),
                Elements(Matching(ask.unblocked, CountryName)) \cup ({country} \ {NoName}))

\* ask: the "transport" and the list "unblocked"; the version is that of the
\* client's own address.
MoatBridgeRequest(ask, version) ==
  BridgeRequest(version, Matching(<<ask.transport>>, MethodName),
                Elements(Matching(ask.unblocked, CountryName)))

\* A line of an email: blank or not, quoted or not, the words "get" and "ipv6",
\* and what follows the words "transport" and "unblocked".
Blank == [kind |-> "blank", get |-> FALSE, ipv6 |-> FALSE,
          transport |-> NoName, unblocked |-> NoName]

\* What is after the headers and not quoted.
Commands(lines) ==
  LET inBody(i) == \E j \in 1..i : lines[j].kind = "blank" IN
  SelectSeq([i \in DOMAIN lines |-> IF inBody(i) THEN lines[i] ELSE Blank],
            LAMBDA l : l.kind = "plain")

\* An email that does not say "get" is answered, too, with the default
\* transport if it names none.
determineBridgeRequestOptions(lines) ==
  LET said == Commands(lines)
      transports == Matching([i \in DOMAIN said |-> said[i].transport], MethodName)
      countries == Elements(Matching([i \in DOMAIN said |-> said[i].unblocked], CountryName))
      isValid == \E i \in DOMAIN said : said[i].get
  IN BridgeRequest(IF \E i \in DOMAIN said : said[i].ipv6 THEN 6 ELSE 4,
                   IF ~isValid /\ transports = <<>> THEN <<DefaultTransport>> ELSE transports,
                   countries)
===============================================================================
