------------------------------- MODULE ProxySet -------------------------------
(***************************************************************************)
(* The set of known proxies of src/bridgedb/proxy.py.  Two threads change  *)
(* it without a lock: each reload's, which reads the PROXY_LIST_FILES and  *)
(* then drops what they no longer list, and the reactor's, which replaces  *)
(* the Tor exit relays when a list of them has been downloaded.  A method  *)
(* of the set touches a set and then a dictionary, or the other way round; *)
(* each of the two is one step, and the other thread may run in between.   *)
(***************************************************************************)
CONSTANTS
  Address,       \* what isIPAddress accepts
  Canonical,     \* those the files spell the way isIPAddress returns them
  File,          \* PROXY_LIST_FILES
  Exit,          \* ProxySet._exitTag
  NoTag          \* not in the dictionary

ASSUME ProxyAssumption ==
  /\ Canonical \subseteq Address
  /\ Exit \notin File /\ NoTag \notin File \cup {Exit}

VARIABLES
  listed,        \* the addresses in each file
  proxies,       \* self._proxies
  tagOf,         \* self._proxydict
  job            \* where each thread is, inside the methods of the set

proxyVars == <<listed, proxies, tagOf, job>>

Thread == {"reload", "reactor"}
Tag == File \cup {Exit}
Idle == [at |-> "idle", tag |-> NoTag, ip |-> NoTag, add |-> {}, drop |-> {},
         kept |-> {}, named |-> {}]

WithTag(g) == {a \in Address : tagOf[a] = g}
Quiet == \A t \in Thread : job[t].at = "idle"

ProxyInit ==
  /\ listed \in [File -> SUBSET Address]
  /\ proxies = {} /\ tagOf = [a \in Address |-> NoTag]
  /\ job = [t \in Thread |-> Idle]

Become(t, j) == job' = [job EXCEPT ![t] = j]

\* The same, and the dictionary changes size: an iteration of the other thread
\* over it is going to raise a RuntimeError.
BecomeResized(t, j) ==
  job' = [u \in Thread |->
            IF u = t THEN j
            ELSE [job[u] EXCEPT !.at = IF @ = "scan" THEN "raise" ELSE @]]

\* Somebody edits a file.
EditFile(f) ==
  /\ \E s \in SUBSET Address : listed' = [listed EXCEPT ![f] = s]
  /\ UNCHANGED <<proxies, tagOf, job>>

-----------------------------------------------------------------------------
(* ProxySet.__add__ and __sub__, by either thread.  The test for an address *)
(* that is there already is isdisjoint(set(ip)), about the characters of    *)
(* the address, and is always true.                                         *)

Remember(t, ip) ==
  IF t = "reload" THEN job[t].kept \cup ({ip} \cap Canonical) ELSE {}

Tagging(t, ip) ==
  [job[t] EXCEPT !.at = "add", !.ip = NoTag, !.add = @ \ {ip}, !.kept = Remember(t, ip)]

\* Back to the rest of what is to be dropped.
Dropping(t, ip) == [job[t] EXCEPT !.at = "drop", !.ip = NoTag, !.drop = @ \ {ip}]

AddMember(t) ==
  /\ job[t].at = "add"
  /\ \E ip \in job[t].add :
       /\ proxies' = proxies \cup {ip}
       /\ Become(t, [job[t] EXCEPT !.at = "tag", !.ip = ip])
  /\ UNCHANGED <<listed, tagOf>>

\* Fault: the tag is left out, so it is the time.
SetTagToTime(t) ==
  LET ip == job[t].ip IN
  /\ job[t].at = "tag"
  /\ tagOf' = [tagOf EXCEPT ![ip] = "time"]
  /\ Become(t, Tagging(t, ip))
  /\ UNCHANGED <<listed, proxies>>

SetTag(t) ==
  LET ip == job[t].ip IN
  /\ job[t].at = "tag"
  /\ tagOf' = [tagOf EXCEPT ![ip] = job[t].tag]
  /\ IF tagOf[ip] = NoTag THEN BecomeResized(t, Tagging(t, ip))
                          ELSE Become(t, Tagging(t, ip))
  /\ UNCHANGED <<listed, proxies>>

\* Fault: only the dictionary forgets the address.
PopTagOnly(t) ==
  LET ip == job[t].ip IN
  /\ job[t].at = "pop"
  /\ tagOf' = [tagOf EXCEPT ![ip] = NoTag]
  /\ Become(t, Dropping(t, ip))
  /\ UNCHANGED <<listed, proxies>>

PopTag(t) ==
  LET ip == job[t].ip IN
  /\ job[t].at = "pop"
  /\ tagOf' = [tagOf EXCEPT ![ip] = NoTag]
  /\ IF tagOf[ip] = NoTag
       THEN Become(t, Dropping(t, ip))
       ELSE BecomeResized(t, [job[t] EXCEPT !.at = "discard"])
  /\ UNCHANGED <<listed, proxies>>

Discard(t) ==
  LET ip == job[t].ip IN
  /\ job[t].at = "discard"
  /\ proxies' = proxies \ {ip}
  /\ Become(t, Dropping(t, ip))
  /\ UNCHANGED <<listed, tagOf>>

Method(t) == AddMember(t) \/ SetTag(t) \/ PopTag(t) \/ Discard(t)

-----------------------------------------------------------------------------
(* loadProxiesFromFile(f, proxies, removeStale=True) *)

LoadProxies(f) ==
  /\ job["reload"].at = "idle"
  /\ Become("reload", [Idle EXCEPT !.at = "add", !.tag = f, !.add = listed[f],
                                   !.drop = {a \in Address : tagOf[a] # NoTag},
                                   !.named = listed[f]])
  /\ UNCHANGED <<listed, proxies, tagOf>>

\* Reading the rest of the file raises: what was read so far is all there is.
ReadFails ==
  /\ job["reload"].at = "add" /\ job["reload"].add # {}
  /\ Become("reload", [job["reload"] EXCEPT !.add = {},
                                            !.named = @ \ job["reload"].add])
  /\ UNCHANGED <<listed, proxies, tagOf>>

\* stale = oldProxySet.difference(addresses)
AllAdded ==
  /\ job["reload"].at = "add" /\ job["reload"].add = {}
  /\ Become("reload", [job["reload"] EXCEPT !.at = "drop", !.kept = {},
                                            !.drop = @ \ job["reload"].kept])
  /\ UNCHANGED <<listed, proxies, tagOf>>

\* Fault: stale addresses are kept.
CheckStaleNever ==
  /\ job["reload"].at = "drop"
  /\ \E ip \in job["reload"].drop :
       Become("reload", Dropping("reload", ip))
  /\ UNCHANGED <<listed, proxies, tagOf>>

\* if proxySet.getTag(ip) == filename
CheckStale ==
  /\ job["reload"].at = "drop"
  /\ \E ip \in job["reload"].drop :
       IF tagOf[ip] = job["reload"].tag
         THEN Become("reload", [job["reload"] EXCEPT !.at = "pop", !.ip = ip])
         ELSE Become("reload", Dropping("reload", ip))
  /\ UNCHANGED <<listed, proxies, tagOf>>

Loaded ==
  /\ job["reload"].at = "drop" /\ job["reload"].drop = {}
  /\ job' = [job EXCEPT !["reload"] = Idle]
  /\ UNCHANGED <<listed, proxies, tagOf>>

loadProxiesFromFile ==
  (\E f \in File : LoadProxies(f)) \/ ReadFails \/ AllAdded \/ CheckStale \/ Loaded

-----------------------------------------------------------------------------
(* ExitListProtocol.processEnded calls replaceExitRelays in the reactor. *)

ExitListDownloaded ==
  /\ job["reactor"].at = "idle"
  /\ \E relays \in SUBSET Address :
       Become("reactor", [Idle EXCEPT !.at = "scan", !.tag = Exit, !.add = relays,
                                    !.named = relays])
  /\ UNCHANGED <<listed, proxies, tagOf>>

\* getAllWithTag
FindExitRelays ==
  /\ job["reactor"].at = "scan"
  /\ Become("reactor", [job["reactor"] EXCEPT !.at = "drop", !.drop = WithTag(Exit)])
  /\ UNCHANGED <<listed, proxies, tagOf>>

\* RuntimeError in the deferred's callback: the errback logs it.
FindRaises ==
  /\ job["reactor"].at = "raise"
  /\ job' = [job EXCEPT !["reactor"] = Idle]
  /\ UNCHANGED <<listed, proxies, tagOf>>

DiscardRelay ==
  /\ job["reactor"].at = "drop"
  /\ \/ \E ip \in job["reactor"].drop :
          Become("reactor", [job["reactor"] EXCEPT !.at = "pop", !.ip = ip])
     \/ job["reactor"].drop = {} /\ Become("reactor", [job["reactor"] EXCEPT !.at = "add"])
  /\ UNCHANGED <<listed, proxies, tagOf>>

RelaysAdded ==
  /\ job["reactor"].at = "add" /\ job["reactor"].add = {}
  /\ job' = [job EXCEPT !["reactor"] = Idle]
  /\ UNCHANGED <<listed, proxies, tagOf>>

replaceExitRelays ==
  ExitListDownloaded \/ FindExitRelays \/ FindRaises \/ DiscardRelay \/ RelaysAdded

ProxyNext ==
  \/ \E f \in File : EditFile(f)
  \/ \E t \in Thread : Method(t)
  \/ loadProxiesFromFile \/ replaceExitRelays

-----------------------------------------------------------------------------
(* Properties *)

\* However the two threads interleave, an address that requests recognise as a
\* proxy has a tag once they are done: only what has a tag can be found again
\* by an update and dropped.
MembersAreTagged == Quiet => \A a \in proxies : tagOf[a] # NoTag

\* When an update under a tag ends, only what it named is left under the tag,
\* whatever the other thread did meanwhile: neither a relay that left the list
\* of exits nor a line that left its file stays.
TagsAreCurrent ==
  [][/\ Loaded => WithTag(job["reload"].tag) \subseteq job["reload"].named
     /\ RelaysAdded => WithTag(Exit) \subseteq job["reactor"].named]_proxyVars
-----------------------------------------------------------------------------
(***************************************************************************)
(* The inductive invariant behind them.  A member without a tag is between *)
(* the two steps of a method, and what has the tag of an update is either  *)
(* still to be dropped or named already.                                   *)
(***************************************************************************)
Job ==
  [at : {"idle", "add", "tag", "drop", "pop", "discard", "scan", "raise"},
   tag : Tag \cup {NoTag}, ip : Address \cup {NoTag}, add : SUBSET Address,
   drop : SUBSET Address, kept : SUBSET Address, named : SUBSET Address]

ProxyTypeOK ==
  /\ listed \in [File -> SUBSET Address]
  /\ proxies \subseteq Address
  /\ tagOf \in [Address -> Tag \cup {NoTag}]
  /\ job \in [Thread -> Job]

JobInv ==
  /\ job["reload"].at \notin {"scan", "raise"}
  /\ job["reload"].at # "idle" => job["reload"].tag \in File
  /\ job["reactor"].at # "idle" => job["reactor"].tag = Exit
  /\ \A t \in Thread :
       /\ job[t].at = "tag" => job[t].ip \in job[t].add
       /\ job[t].at \in {"pop", "discard"} => job[t].ip \in job[t].drop
       /\ job[t].add \subseteq job[t].named
       /\ job[t].kept \subseteq job[t].named \ job[t].add

MemberInv ==
  \A a \in proxies :
    tagOf[a] = NoTag =>
      \E t \in Thread : job[t].at \in {"tag", "discard"} /\ job[t].ip = a

CurrentInv ==
  LET reload == job["reload"]
      reactor == job["reactor"] IN
  /\ reload.at \in {"add", "tag"} =>
       WithTag(reload.tag) \subseteq reload.drop \cup (reload.named \ reload.add)
  /\ reload.at \in {"drop", "pop", "discard"} =>
       WithTag(reload.tag) \subseteq reload.drop \cup reload.named
  /\ reactor.at \in {"drop", "pop", "discard"} => WithTag(Exit) \subseteq reactor.drop
  /\ reactor.at \in {"add", "tag"} => WithTag(Exit) \subseteq reactor.named \ reactor.add
  /\ \A t \in Thread : job[t].at = "discard" => job[t].ip \notin WithTag(job[t].tag)

ProxyInv == ProxyTypeOK /\ JobInv /\ MemberInv /\ CurrentInv
===============================================================================
