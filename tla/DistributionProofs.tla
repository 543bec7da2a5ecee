------------------------- MODULE DistributionProofs -------------------------
(***************************************************************************)
(* Proofs about Distribution and its ProxySet: for any proxies, files,     *)
(* bridges, clients and requests, and any number of rings.                 *)
(***************************************************************************)
EXTENDS Distribution, FiniteSetTheorems, TLAPS

-----------------------------------------------------------------------------
(* The set of proxies: one lemma for each step of the two threads *)

LEMMA Threads ==
  /\ "reload" \in Thread /\ "reactor" \in Thread
  /\ \A t \in Thread : t = "reload" \/ t = "reactor"
  BY DEF Thread

LEMMA JobType ==
  ASSUME ProxyInv, NEW t \in Thread
  PROVE  job[t] \in Job
  BY DEF ProxyInv, ProxyTypeOK

LEMMA ProxyInitInv == ProxyInit => ProxyInv
  <1> SUFFICES ASSUME ProxyInit PROVE ProxyInv
    OBVIOUS
  <1>1. Idle \in Job
    BY DEF Idle, Job
  <1>2. ProxyTypeOK
    BY <1>1 DEF ProxyInit, ProxyTypeOK
  <1>3. \A t \in Thread : job[t].at = "idle" /\ job[t].add = {} /\ job[t].kept = {}
    BY DEF ProxyInit, Idle
  <1>4. JobInv /\ MemberInv /\ CurrentInv
    BY <1>3, Threads DEF JobInv, MemberInv, CurrentInv, ProxyInit
  <1> QED
    BY <1>2, <1>4 DEF ProxyInv

LEMMA ProxyStutter ==
  ASSUME ProxyInv, UNCHANGED proxyVars
  PROVE  ProxyInv'
  BY DEF proxyVars, ProxyInv, ProxyTypeOK, JobInv, MemberInv, CurrentInv, WithTag

LEMMA EditFileStep ==
  ASSUME ProxyInv, NEW f \in File, EditFile(f)
  PROVE  ProxyInv'
  BY DEF EditFile, ProxyInv, ProxyTypeOK, JobInv, MemberInv, CurrentInv, WithTag

\* A thread goes on alone.
LEMMA Becomes ==
  ASSUME ProxyInv, NEW t \in Thread, NEW j \in Job, Become(t, j)
  PROVE  /\ job' \in [Thread -> Job] /\ job'[t] = j
         /\ \A u \in Thread \ {t} : job'[u] = job[u]
  BY DEF Become, ProxyInv, ProxyTypeOK

\* A thread goes on, and maybe stops a scan of the other one.
LEMMA BecomesResized ==
  ASSUME ProxyInv, NEW t \in Thread, NEW j \in Job, BecomeResized(t, j)
  PROVE  /\ job' \in [Thread -> Job] /\ job'[t] = j
         /\ \A u \in Thread \ {t} :
              \/ job'[u] = job[u]
              \/ job[u].at = "scan" /\ job'[u] = [job[u] EXCEPT !.at = "raise"]
  <1>1. \A u \in Thread \ {t} :
          job'[u] = [job[u] EXCEPT !.at = IF @ = "scan" THEN "raise" ELSE @]
    BY DEF BecomeResized
  <1>2. job'[t] = j /\ job' = [u \in Thread |-> job'[u]]
    BY DEF BecomeResized
  <1>3. ASSUME NEW u \in Thread \ {t}
        PROVE  /\ job'[u] \in Job
               /\ \/ job'[u] = job[u]
                  \/ job[u].at = "scan" /\ job'[u] = [job[u] EXCEPT !.at = "raise"]
    <2>1. job[u] \in Job
      BY JobType
    <2>2. CASE job[u].at = "scan"
      BY <1>1, <2>1, <2>2 DEF Job
    <2>3. CASE job[u].at # "scan"
      BY <1>1, <2>1, <2>3 DEF Job
    <2> QED
      BY <2>2, <2>3
  <1> QED
    BY <1>2, <1>3

LEMMA AddMemberStep ==
  ASSUME ProxyInv, NEW t \in Thread, AddMember(t)
  PROVE  ProxyInv'
  <1>1. PICK ip \in job[t].add :
          /\ proxies' = proxies \cup {ip}
          /\ Become(t, [job[t] EXCEPT !.at = "tag", !.ip = ip])
    BY DEF AddMember
  <1>2. job[t].at = "add" /\ UNCHANGED <<listed, tagOf>>
    BY DEF AddMember
  <1>3. PICK j : j = [job[t] EXCEPT !.at = "tag", !.ip = ip]
    OBVIOUS
  <1>4. /\ j \in Job /\ ip \in Address /\ j.at = "tag" /\ j.ip = ip /\ j.tag = job[t].tag
        /\ j.add = job[t].add /\ j.drop = job[t].drop /\ j.kept = job[t].kept
        /\ j.named = job[t].named
    BY <1>1, <1>3, JobType DEF Job
  <1>5. /\ job' \in [Thread -> Job] /\ job'[t] = j
        /\ \A u \in Thread \ {t} : job'[u] = job[u]
    BY <1>1, <1>3, <1>4, Becomes
  <1>6. ProxyTypeOK'
    BY <1>1, <1>2, <1>4, <1>5 DEF ProxyInv, ProxyTypeOK
  <1>7. JobInv'
    BY <1>1, <1>2, <1>4, <1>5, Threads DEF ProxyInv, JobInv
  <1>8. MemberInv'
    BY <1>1, <1>2, <1>4, <1>5, Threads DEF ProxyInv, MemberInv
  <1>9. CurrentInv'
    BY <1>2, <1>4, <1>5, Threads DEF ProxyInv, CurrentInv, WithTag
  <1> QED
    BY <1>6, <1>7, <1>8, <1>9 DEF ProxyInv

LEMMA SetTagStep ==
  ASSUME ProxyInv, NEW t \in Thread, SetTag(t)
  PROVE  ProxyInv'
  <1>1. PICK ip : ip = job[t].ip
    OBVIOUS
  <1>2. PICK j : j = Tagging(t, ip)
    OBVIOUS
  <1>3. /\ job[t].at = "tag" /\ tagOf' = [tagOf EXCEPT ![ip] = job[t].tag]
        /\ UNCHANGED <<listed, proxies>> /\ (Become(t, j) \/ BecomeResized(t, j))
    BY <1>1, <1>2 DEF SetTag
  <1>4. /\ ip \in job[t].add /\ job[t].add \subseteq Address /\ job[t].tag \in Tag
        /\ job[t].add \subseteq job[t].named
        /\ job[t].kept \subseteq job[t].named \ job[t].add
        /\ t = "reload" => job[t].tag \in File
        /\ t = "reactor" => job[t].tag = Exit
    BY <1>1, <1>3, JobType, Threads DEF ProxyInv, JobInv, Job, Tag
  <1>5. /\ j \in Job /\ j.at = "add" /\ j.tag = job[t].tag /\ j.add = job[t].add \ {ip}
        /\ j.drop = job[t].drop /\ j.named = job[t].named
        /\ j.kept \subseteq job[t].kept \cup {ip}
    <2>1. Remember(t, ip) \in SUBSET Address /\ Remember(t, ip) \subseteq job[t].kept \cup {ip}
      BY <1>4, JobType DEF Remember, Job
    <2> QED
      BY <1>2, <2>1, JobType DEF Tagging, Job
  <1>6. /\ job' \in [Thread -> Job] /\ job'[t] = j
        /\ \A u \in Thread \ {t} :
             \/ job'[u] = job[u]
             \/ job[u].at = "scan" /\ job'[u] = [job[u] EXCEPT !.at = "raise"]
    BY <1>3, <1>5, Becomes, BecomesResized
  <1>7. \A u \in Thread \ {t} :
          /\ job'[u].ip = job[u].ip /\ job'[u].tag = job[u].tag /\ job'[u].add = job[u].add
          /\ job'[u].drop = job[u].drop /\ job'[u].kept = job[u].kept
          /\ job'[u].named = job[u].named
          /\ \/ job'[u].at = job[u].at
             \/ job[u].at = "scan" /\ job'[u].at = "raise"
    BY <1>6, JobType DEF Job
  <1>8. ProxyTypeOK'
    BY <1>3, <1>4, <1>6 DEF ProxyInv, ProxyTypeOK
  <1>9. JobInv'
    BY <1>3, <1>4, <1>5, <1>6, <1>7, Threads DEF ProxyInv, JobInv
  <1>10. tagOf'[ip] # NoTag /\ \A a \in Address : tagOf'[a] = IF a = ip THEN job[t].tag ELSE tagOf[a]
    BY <1>3, <1>4, ProxyAssumption DEF ProxyInv, ProxyTypeOK, Tag
  <1>11. MemberInv'
    <2>1. ASSUME NEW a \in proxies, tagOf'[a] = NoTag
          PROVE  \E u \in Thread : job'[u].at \in {"tag", "discard"} /\ job'[u].ip = a
      <3>1. a # ip /\ tagOf[a] = NoTag
        BY <1>10, <2>1 DEF ProxyInv, ProxyTypeOK
      <3>2. PICK u \in Thread : job[u].at \in {"tag", "discard"} /\ job[u].ip = a
        BY <3>1 DEF ProxyInv, MemberInv
      <3> QED
        BY <1>1, <1>7, <3>1, <3>2
    <2> QED
      BY <1>3, <2>1 DEF MemberInv
  <1>12. CurrentInv'
    <2>1. \A g : WithTag(g)' = IF g = job[t].tag THEN WithTag(g) \cup {ip} ELSE WithTag(g) \ {ip}
      BY <1>4, <1>10 DEF WithTag
    <2>2. CASE t = "reload"
      BY <1>3, <1>4, <1>5, <1>6, <1>7, <2>1, <2>2, Threads, ProxyAssumption
      DEF ProxyInv, CurrentInv, JobInv
    <2>3. CASE t = "reactor"
      BY <1>3, <1>4, <1>5, <1>6, <1>7, <2>1, <2>3, Threads, ProxyAssumption
      DEF ProxyInv, CurrentInv, JobInv
    <2> QED
      BY <2>2, <2>3, Threads
  <1> QED
    BY <1>8, <1>9, <1>11, <1>12 DEF ProxyInv

LEMMA PopTagStep ==
  ASSUME ProxyInv, NEW t \in Thread, PopTag(t)
  PROVE  ProxyInv'
  <1>1. PICK ip : ip = job[t].ip
    OBVIOUS
  <1>2. PICK j : j = IF tagOf[ip] = NoTag THEN Dropping(t, ip) ELSE [job[t] EXCEPT !.at = "discard"]
    OBVIOUS
  <1>3. /\ job[t].at = "pop" /\ tagOf' = [tagOf EXCEPT ![ip] = NoTag]
        /\ UNCHANGED <<listed, proxies>> /\ (Become(t, j) \/ BecomeResized(t, j))
    BY <1>1, <1>2 DEF PopTag
  <1>4. /\ ip \in job[t].drop /\ ip \in Address
    BY <1>1, <1>3, JobType, Threads DEF ProxyInv, JobInv, Job
  <1>5. /\ j \in Job /\ j.tag = job[t].tag /\ j.add = job[t].add
        /\ j.named = job[t].named /\ j.kept = job[t].kept
        /\ j.at = IF tagOf[ip] = NoTag THEN "drop" ELSE "discard"
        /\ j.drop = IF tagOf[ip] = NoTag THEN job[t].drop \ {ip} ELSE job[t].drop
        /\ tagOf[ip] # NoTag => j.ip = ip
    BY <1>1, <1>2, JobType DEF Dropping, Job
  <1>6. /\ job' \in [Thread -> Job] /\ job'[t] = j
        /\ \A u \in Thread \ {t} :
             \/ job'[u] = job[u]
             \/ job[u].at = "scan" /\ job'[u] = [job[u] EXCEPT !.at = "raise"]
    BY <1>3, <1>5, Becomes, BecomesResized
  <1>7. \A u \in Thread \ {t} :
          /\ job'[u].ip = job[u].ip /\ job'[u].tag = job[u].tag /\ job'[u].add = job[u].add
          /\ job'[u].drop = job[u].drop /\ job'[u].kept = job[u].kept
          /\ job'[u].named = job[u].named
          /\ \/ job'[u].at = job[u].at
             \/ job[u].at = "scan" /\ job'[u].at = "raise"
    BY <1>6, JobType DEF Job
  <1>8. ProxyTypeOK'
    BY <1>3, <1>4, <1>6 DEF ProxyInv, ProxyTypeOK
  <1>9. JobInv'
    BY <1>3, <1>4, <1>5, <1>6, <1>7, Threads DEF ProxyInv, JobInv
  <1>10. \A a \in Address : tagOf'[a] = IF a = ip THEN NoTag ELSE tagOf[a]
    BY <1>3, <1>4 DEF ProxyInv, ProxyTypeOK
  <1>11. MemberInv'
    <2>1. ASSUME NEW a \in proxies, tagOf'[a] = NoTag
          PROVE  \E u \in Thread : job'[u].at \in {"tag", "discard"} /\ job'[u].ip = a
      <3>1. CASE tagOf[a] = NoTag
        <4>1. PICK u \in Thread : job[u].at \in {"tag", "discard"} /\ job[u].ip = a
          BY <3>1 DEF ProxyInv, MemberInv
        <4> QED
          BY <1>3, <1>7, <4>1
      <3>2. CASE tagOf[a] # NoTag
        <4>1. a = ip
          BY <1>10, <2>1, <3>2 DEF ProxyInv, ProxyTypeOK
        <4> QED
          BY <1>5, <1>6, <3>2, <4>1
      <3> QED
        BY <3>1, <3>2
    <2> QED
      BY <1>3, <2>1 DEF MemberInv
  <1>12. CurrentInv'
    <2>1. \A g \in Tag : WithTag(g)' = WithTag(g) \ {ip}
      BY <1>4, <1>10, ProxyAssumption DEF WithTag, Tag
    <2>2. Exit \in Tag /\ (job["reload"].at # "idle" => job["reload"].tag \in Tag)
      BY DEF ProxyInv, JobInv, Tag
    <2>3. CASE t = "reload"
      BY <1>3, <1>4, <1>5, <1>6, <1>7, <2>1, <2>2, <2>3, Threads
      DEF ProxyInv, CurrentInv, JobInv
    <2>4. CASE t = "reactor"
      BY <1>3, <1>4, <1>5, <1>6, <1>7, <2>1, <2>2, <2>4, Threads
      DEF ProxyInv, CurrentInv, JobInv
    <2> QED
      BY <2>3, <2>4, Threads
  <1> QED
    BY <1>8, <1>9, <1>11, <1>12 DEF ProxyInv

LEMMA DiscardStep ==
  ASSUME ProxyInv, NEW t \in Thread, Discard(t)
  PROVE  ProxyInv'
  <1>1. PICK ip : ip = job[t].ip
    OBVIOUS
  <1>2. PICK j : j = Dropping(t, ip)
    OBVIOUS
  <1>3. /\ job[t].at = "discard" /\ proxies' = proxies \ {ip}
        /\ UNCHANGED <<listed, tagOf>> /\ Become(t, j)
    BY <1>1, <1>2 DEF Discard
  <1>4. /\ j \in Job /\ j.at = "drop" /\ j.tag = job[t].tag /\ j.add = job[t].add
        /\ j.named = job[t].named /\ j.kept = job[t].kept /\ j.drop = job[t].drop \ {ip}
    BY <1>2, JobType DEF Dropping, Job
  <1>5. /\ job' \in [Thread -> Job] /\ job'[t] = j
        /\ \A u \in Thread \ {t} : job'[u] = job[u]
    BY <1>3, <1>4, Becomes
  <1>6. ProxyTypeOK' /\ JobInv' /\ MemberInv'
    BY <1>1, <1>3, <1>4, <1>5, Threads DEF ProxyInv, ProxyTypeOK, JobInv, MemberInv
  <1>7. CurrentInv'
    <2>1. \A g : WithTag(g)' = WithTag(g)
      BY <1>3 DEF WithTag
    <2>2. ip \notin WithTag(job[t].tag)
      BY <1>1, <1>3 DEF ProxyInv, CurrentInv
    <2>3. t = "reactor" => job[t].tag = Exit
      BY <1>3 DEF ProxyInv, JobInv
    <2>4. CASE t = "reload"
      BY <1>3, <1>4, <1>5, <2>1, <2>2, <2>4, Threads DEF ProxyInv, CurrentInv
    <2>5. CASE t = "reactor"
      BY <1>3, <1>4, <1>5, <2>1, <2>2, <2>3, <2>5, Threads DEF ProxyInv, CurrentInv
    <2> QED
      BY <2>4, <2>5, Threads
  <1> QED
    BY <1>6, <1>7 DEF ProxyInv

\* Steps of a thread that leave the set and its tags alone.
LEMMA Goes ==
  ASSUME ProxyInv, UNCHANGED <<listed, proxies, tagOf>>,
         NEW t \in Thread, NEW j \in Job, job' = [job EXCEPT ![t] = j],
         job[t].at \notin {"tag", "discard"},
         j.at \notin {"tag", "discard"},
         j.at = "pop" => j.ip \in j.drop,
         j.add \subseteq j.named, j.kept \subseteq j.named \ j.add,
         t = "reload" =>
           /\ j.at \notin {"scan", "raise"} /\ (j.at # "idle" => j.tag \in File)
           /\ j.at = "add" => WithTag(j.tag) \subseteq j.drop \cup (j.named \ j.add)
           /\ j.at \in {"drop", "pop"} => WithTag(j.tag) \subseteq j.drop \cup j.named,
         t = "reactor" =>
           /\ j.at # "idle" => j.tag = Exit
           /\ j.at \in {"drop", "pop"} => WithTag(Exit) \subseteq j.drop
           /\ j.at = "add" => WithTag(Exit) \subseteq j.named \ j.add
  PROVE  ProxyInv'
  <1>1. /\ job' \in [Thread -> Job] /\ job'[t] = j
        /\ \A u \in Thread \ {t} : job'[u] = job[u]
    BY DEF ProxyInv, ProxyTypeOK
  <1>2. ProxyTypeOK'
    BY <1>1 DEF ProxyInv, ProxyTypeOK
  <1>3. JobInv' /\ MemberInv'
    BY <1>1, Threads DEF ProxyInv, JobInv, MemberInv
  <1>4. \A g : WithTag(g)' = WithTag(g)
    BY DEF WithTag
  <1>5. CurrentInv'
    <2>1. CASE t = "reload"
      BY <1>1, <1>4, <2>1, Threads DEF ProxyInv, CurrentInv
    <2>2. CASE t = "reactor"
      BY <1>1, <1>4, <2>2, Threads DEF ProxyInv, CurrentInv
    <2> QED
      BY <2>1, <2>2, Threads
  <1> QED
    BY <1>2, <1>3, <1>5 DEF ProxyInv

LEMMA IdleJob ==
  /\ Idle \in Job /\ Idle.at = "idle" /\ Idle.add = {} /\ Idle.drop = {}
  /\ Idle.kept = {} /\ Idle.named = {}
  BY DEF Idle, Job

LEMMA LoadProxiesFromFileStep ==
  ASSUME ProxyInv, loadProxiesFromFile
  PROVE  ProxyInv'
  <1>1. "reload" \in Thread /\ "reload" # "reactor" /\ job["reload"] \in Job
    BY JobType, Threads
  <1>2. ASSUME NEW f \in File, LoadProxies(f) PROVE ProxyInv'
    <2>1. PICK tagged : tagged = {a \in Address : tagOf[a] # NoTag}
      OBVIOUS
    <2>2. PICK j : j = [Idle EXCEPT !.at = "add", !.tag = f, !.add = listed[f],
                                    !.drop = tagged, !.named = listed[f]]
      OBVIOUS
    <2>3. /\ job["reload"].at = "idle" /\ job' = [job EXCEPT !["reload"] = j]
          /\ UNCHANGED <<listed, proxies, tagOf>>
      BY <1>2, <2>1, <2>2 DEF LoadProxies, Become
    <2>4. listed[f] \in SUBSET Address /\ tagged \in SUBSET Address /\ f \in Tag
      BY <2>1 DEF ProxyInv, ProxyTypeOK, Tag
    <2>5. /\ j \in Job /\ j.at = "add" /\ j.tag = f /\ j.add = j.named /\ j.kept = {}
          /\ j.drop = tagged
      BY <2>2, <2>4, IdleJob DEF Job
    <2>6. WithTag(f) \subseteq tagged
      BY <2>1, ProxyAssumption DEF WithTag
    <2> QED
      BY <1>1, <2>3, <2>5, <2>6, Goes
  <1>3. ASSUME ReadFails PROVE ProxyInv'
    <2>1. PICK j : j = [job["reload"] EXCEPT !.add = {}, !.named = @ \ job["reload"].add]
      OBVIOUS
    <2>2. /\ job["reload"].at = "add" /\ job' = [job EXCEPT !["reload"] = j]
          /\ UNCHANGED <<listed, proxies, tagOf>>
      BY <1>3, <2>1 DEF ReadFails, Become
    <2>3. /\ j \in Job /\ j.at = "add" /\ j.tag = job["reload"].tag /\ j.add = {}
          /\ j.named = job["reload"].named \ job["reload"].add
          /\ j.kept = job["reload"].kept /\ j.drop = job["reload"].drop
      BY <1>1, <2>1, <2>2 DEF Job
    <2> QED
      BY <1>1, <2>2, <2>3, Goes DEF ProxyInv, JobInv, CurrentInv
  <1>4. ASSUME AllAdded PROVE ProxyInv'
    <2>1. PICK j : j = [job["reload"] EXCEPT !.at = "drop", !.kept = {},
                                             !.drop = @ \ job["reload"].kept]
      OBVIOUS
    <2>2. /\ job["reload"].at = "add" /\ job["reload"].add = {}
          /\ job' = [job EXCEPT !["reload"] = j]
          /\ UNCHANGED <<listed, proxies, tagOf>>
      BY <1>4, <2>1 DEF AllAdded, Become
    <2>3. /\ j \in Job /\ j.at = "drop" /\ j.tag = job["reload"].tag /\ j.add = {}
          /\ j.named = job["reload"].named
          /\ j.kept = {} /\ j.drop = job["reload"].drop \ job["reload"].kept
      BY <1>1, <2>1, <2>2 DEF Job
    <2>4. WithTag(j.tag) \subseteq j.drop \cup j.named
      BY <1>1, <2>2, <2>3 DEF ProxyInv, JobInv, CurrentInv
    <2> QED
      BY <1>1, <2>2, <2>3, <2>4, Goes DEF ProxyInv, JobInv
  <1>5. ASSUME CheckStale PROVE ProxyInv'
    <2>1. PICK ip \in job["reload"].drop :
            IF tagOf[ip] = job["reload"].tag
              THEN Become("reload", [job["reload"] EXCEPT !.at = "pop", !.ip = ip])
              ELSE Become("reload", Dropping("reload", ip))
      BY <1>5 DEF CheckStale
    <2>2. PICK j : j = IF tagOf[ip] = job["reload"].tag
                         THEN [job["reload"] EXCEPT !.at = "pop", !.ip = ip]
                         ELSE Dropping("reload", ip)
      OBVIOUS
    <2>3. /\ job["reload"].at = "drop" /\ job' = [job EXCEPT !["reload"] = j]
          /\ UNCHANGED <<listed, proxies, tagOf>>
      BY <1>5, <2>1, <2>2 DEF CheckStale, Become
    <2>4. /\ j \in Job /\ j.tag = job["reload"].tag /\ j.add = job["reload"].add
          /\ j.named = job["reload"].named /\ j.kept = job["reload"].kept
          /\ \/ tagOf[ip] = job["reload"].tag /\ j.at = "pop" /\ j.ip = ip
                /\ j.drop = job["reload"].drop
             \/ tagOf[ip] # job["reload"].tag /\ j.at = "drop"
                /\ j.drop = job["reload"].drop \ {ip}
      BY <1>1, <2>1, <2>2, <2>3 DEF Job, Dropping
    <2>5. WithTag(j.tag) \subseteq j.drop \cup j.named
      BY <1>1, <2>3, <2>4 DEF ProxyInv, JobInv, CurrentInv, WithTag
    <2> QED
      BY <1>1, <2>1, <2>3, <2>4, <2>5, Goes DEF ProxyInv, JobInv
  <1>6. ASSUME Loaded PROVE ProxyInv'
    BY <1>1, <1>6, IdleJob, Goes DEF Loaded
  <1> QED
    BY <1>2, <1>3, <1>4, <1>5, <1>6 DEF loadProxiesFromFile

LEMMA ReplaceExitRelaysStep ==
  ASSUME ProxyInv, replaceExitRelays
  PROVE  ProxyInv'
  <1>1. "reactor" \in Thread /\ "reload" # "reactor" /\ job["reactor"] \in Job
    BY JobType, Threads
  <1>2. ASSUME ExitListDownloaded PROVE ProxyInv'
    <2>1. PICK relays \in SUBSET Address :
            Become("reactor", [Idle EXCEPT !.at = "scan", !.tag = Exit, !.add = relays,
                                           !.named = relays])
      BY <1>2 DEF ExitListDownloaded
    <2>2. PICK j : j = [Idle EXCEPT !.at = "scan", !.tag = Exit, !.add = relays,
                                    !.named = relays]
      OBVIOUS
    <2>3. /\ job["reactor"].at = "idle" /\ job' = [job EXCEPT !["reactor"] = j]
          /\ UNCHANGED <<listed, proxies, tagOf>>
      BY <1>2, <2>1, <2>2 DEF ExitListDownloaded, Become
    <2>4. /\ j \in Job /\ j.at = "scan" /\ j.tag = Exit /\ j.add = j.named /\ j.kept = {}
      BY <2>2, IdleJob DEF Job, Tag
    <2> QED
      BY <1>1, <2>3, <2>4, Goes
  <1>3. ASSUME FindExitRelays PROVE ProxyInv'
    <2>1. PICK relays : relays = WithTag(Exit)
      OBVIOUS
    <2>2. PICK j : j = [job["reactor"] EXCEPT !.at = "drop", !.drop = relays]
      OBVIOUS
    <2>3. /\ job["reactor"].at = "scan" /\ job' = [job EXCEPT !["reactor"] = j]
          /\ UNCHANGED <<listed, proxies, tagOf>>
      BY <1>3, <2>1, <2>2 DEF FindExitRelays, Become
    <2>4. relays \in SUBSET Address
      BY <2>1 DEF WithTag
    <2>5. /\ j \in Job /\ j.at = "drop" /\ j.tag = job["reactor"].tag
          /\ j.add = job["reactor"].add /\ j.named = job["reactor"].named
          /\ j.kept = job["reactor"].kept /\ j.drop = relays
      BY <1>1, <2>2, <2>4 DEF Job
    <2> QED
      BY <1>1, <2>1, <2>3, <2>5, Goes DEF ProxyInv, JobInv
  <1>4. ASSUME FindRaises PROVE ProxyInv'
    BY <1>1, <1>4, IdleJob, Goes DEF FindRaises
  <1>5. ASSUME DiscardRelay PROVE ProxyInv'
    <2>1. /\ job["reactor"].at = "drop" /\ UNCHANGED <<listed, proxies, tagOf>>
      BY <1>5 DEF DiscardRelay
    <2>2. ASSUME NEW ip \in job["reactor"].drop,
                 Become("reactor", [job["reactor"] EXCEPT !.at = "pop", !.ip = ip])
          PROVE  ProxyInv'
      <3>1. PICK j : j = [job["reactor"] EXCEPT !.at = "pop", !.ip = ip]
        OBVIOUS
      <3>2. /\ j \in Job /\ j.at = "pop" /\ j.ip = ip /\ j.tag = job["reactor"].tag
            /\ j.add = job["reactor"].add /\ j.named = job["reactor"].named
            /\ j.kept = job["reactor"].kept /\ j.drop = job["reactor"].drop
        BY <1>1, <2>2, <3>1 DEF Job
      <3>3. job' = [job EXCEPT !["reactor"] = j]
        BY <2>2, <3>1 DEF Become
      <3> QED
        BY <1>1, <2>1, <3>2, <3>3, Goes DEF ProxyInv, JobInv, CurrentInv
    <2>3. ASSUME job["reactor"].drop = {},
                 Become("reactor", [job["reactor"] EXCEPT !.at = "add"])
          PROVE  ProxyInv'
      <3>1. PICK j : j = [job["reactor"] EXCEPT !.at = "add"]
        OBVIOUS
      <3>2. /\ j \in Job /\ j.at = "add" /\ j.tag = job["reactor"].tag
            /\ j.add = job["reactor"].add /\ j.named = job["reactor"].named
            /\ j.kept = job["reactor"].kept /\ j.drop = {}
        BY <1>1, <2>3, <3>1 DEF Job
      <3>3. job' = [job EXCEPT !["reactor"] = j]
        BY <2>3, <3>1 DEF Become
      <3>4. WithTag(Exit) = {}
        BY <2>1, <2>3 DEF ProxyInv, CurrentInv
      <3> QED
        BY <1>1, <2>1, <3>2, <3>3, <3>4, Goes DEF ProxyInv, JobInv
    <2> QED
      BY <1>5, <2>2, <2>3 DEF DiscardRelay
  <1>6. ASSUME RelaysAdded PROVE ProxyInv'
    BY <1>1, <1>6, IdleJob, Goes DEF RelaysAdded
  <1> QED
    BY <1>2, <1>3, <1>4, <1>5, <1>6 DEF replaceExitRelays

LEMMA ProxyNextInv == ProxyInv /\ [ProxyNext]_proxyVars => ProxyInv'
  BY EditFileStep, AddMemberStep, SetTagStep, PopTagStep, DiscardStep,
     LoadProxiesFromFileStep, ReplaceExitRelaysStep, ProxyStutter
  DEF ProxyNext, Method

\* Every step of the process is one of the proxies' or leaves them alone.
LEMMA ProxyStep == [Next]_vars => [ProxyNext]_proxyVars
  BY DEF Next, Proxies, Start, Reload, GetBridges, vars, proxyVars

\* The proxies' invariant holds whatever else the process does.
THEOREM ProxyInvariance == Spec => []ProxyInv
  <1>1. Init => ProxyInv
    BY ProxyInitInv DEF Init
  <1>2. ProxyInv /\ [Next]_vars => ProxyInv'
    BY ProxyNextInv, ProxyStep
  <1> QED
    BY <1>1, <1>2, PTL DEF Spec

\* No interleaving of the two threads leaves an address in the set of proxies
\* that has no tag.
THEOREM NoneWithoutTag == Spec => []MembersAreTagged
  <1>1. ProxyInv => MembersAreTagged
    BY DEF ProxyInv, MemberInv, MembersAreTagged, Quiet
  <1> QED
    BY <1>1, ProxyInvariance, PTL

\* Nor does one leave an address under a tag whose update did not name it.
THEOREM NoneLeftBehind == Spec => TagsAreCurrent
  <1>1. ASSUME ProxyInv, Loaded
        PROVE  WithTag(job["reload"].tag) \subseteq job["reload"].named
    BY <1>1 DEF ProxyInv, CurrentInv, Loaded
  <1>2. ASSUME ProxyInv, RelaysAdded
        PROVE  WithTag(Exit) \subseteq job["reactor"].named
    BY <1>2 DEF ProxyInv, CurrentInv, RelaysAdded
  <1>3. ProxyInv =>
          [/\ Loaded => WithTag(job["reload"].tag) \subseteq job["reload"].named
           /\ RelaysAdded => WithTag(Exit) \subseteq job["reactor"].named]_proxyVars
    BY <1>1, <1>2
  <1> QED
    BY <1>3, ProxyInvariance, PTL DEF TagsAreCurrent

-----------------------------------------------------------------------------
(* The names under which filters are cached: no two sets of filters that    *)
(* requests have share one.                                                 *)

LEMMA WordsOfFilters ==
  /\ \A v : Words(byIPv(v)) = {<<"ipv", v>>}
  /\ \A m, v : Words(byProbingResistance(m, v)) =
                 {<<"by-probing-resistance", m>>, <<"ipv", v>>}
  /\ \A m, v : Words(byTransport(m, v)) = {<<"transport", m>>, <<"ipv", v>>}
  /\ \A c, m, v : Words(byNotBlockedIn(c, m, v)) =
                 {<<"transport", m>>, <<"ipv", v>>, <<"not-blocked-in", c>>}
  /\ \A d, i, n : Words(bySubring(d, i, n)) = {<<d, i, n>>}
  BY DEF Words, byIPv, byProbingResistance, byTransport, byNotBlockedIn, bySubring

LEMMA PairsAndTriples ==
  /\ \A a, b, c, d : <<a, b>> = <<c, d>> <=> a = c /\ b = d
  /\ \A a, b, c, d, e, f : <<a, b, c>> = <<d, e, f>> <=> a = d /\ b = e /\ c = f
  /\ \A a, b, c, d, e : <<a, b>> # <<c, d, e>>
  OBVIOUS

LEMMA NameOfRequest ==
  ASSUME NEW r
  PROVE  /\ \A m : <<"by-probing-resistance", m>> \in Name(generateFilters(r)) <=> m = r.method
         /\ \A v : <<"ipv", v>> \in Name(generateFilters(r)) <=> v = r.version
         /\ \A c : <<"not-blocked-in", c>> \in Name(generateFilters(r)) <=> c \in r.countries
         /\ \A d, i, n : <<d, i, n>> \notin Name(generateFilters(r))
  <1> DEFINE m0 == r.method
             v0 == r.version
  <1>1. CASE r.countries # {}
    <2>1. generateFilters(r) = {byProbingResistance(m0, v0)} \cup
                               {byNotBlockedIn(c, m0, v0) : c \in r.countries}
      BY <1>1 DEF generateFilters
    <2>2. \A w : w \in Name(generateFilters(r)) <=>
                   \/ w \in Words(byProbingResistance(m0, v0))
                   \/ \E c \in r.countries : w \in Words(byNotBlockedIn(c, m0, v0))
      BY <2>1 DEF Name
    <2>3. \A w : w \in Name(generateFilters(r)) <=>
                   \/ w = <<"by-probing-resistance", m0>> \/ w = <<"ipv", v0>>
                   \/ w = <<"transport", m0>>
                   \/ \E c \in r.countries : w = <<"not-blocked-in", c>>
      BY <1>1, <2>2, WordsOfFilters
    <2> QED
      BY <2>3, PairsAndTriples
  <1>2. CASE r.countries = {}
    <2>1. PICK f : f = IF r.method # "vanilla" THEN byTransport(m0, v0) ELSE byIPv(v0)
      OBVIOUS
    <2>2. generateFilters(r) = {byProbingResistance(m0, v0), f}
      BY <1>2, <2>1 DEF generateFilters
    <2>3. \A w : w \in Name(generateFilters(r)) <=>
                   w \in Words(byProbingResistance(m0, v0)) \/ w \in Words(f)
      BY <2>2 DEF Name
    <2>4. \A w : w \in Words(f) => w = <<"transport", m0>> \/ w = <<"ipv", v0>>
      BY <2>1, WordsOfFilters
    <2> QED
      BY <1>2, <2>3, <2>4, WordsOfFilters, PairsAndTriples
  <1> QED
    BY <1>1, <1>2

LEMMA NameOfDefault ==
  ASSUME NEW v0
  PROVE  /\ \A m : <<"by-probing-resistance", m>> \notin Name({byIPv(v0)})
         /\ \A v : <<"ipv", v>> \in Name({byIPv(v0)}) <=> v = v0
         /\ \A d, i, n : <<d, i, n>> \notin Name({byIPv(v0)})
  <1>1. Name({byIPv(v0)}) = {<<"ipv", v0>>}
    BY WordsOfFilters DEF Name
  <1> QED
    BY <1>1, PairsAndTriples

\* What is wanted is told by its pairs.
LEMMA WantedByName ==
  ASSUME NEW g \in Wanted, NEW h \in Wanted,
         \A x, y : <<x, y>> \in Name(g) <=> <<x, y>> \in Name(h)
  PROVE  g = h
  <1>1. CASE \E r, q : g = generateFilters(r) /\ h = generateFilters(q)
    <2>1. PICK r, q : g = generateFilters(r) /\ h = generateFilters(q)
      BY <1>1
    <2>2. r.method = q.method /\ r.version = q.version
      BY <2>1, NameOfRequest
    <2>3. r.countries = q.countries
      BY <2>1, NameOfRequest
    <2> QED
      BY <2>1, <2>2, <2>3 DEF generateFilters
  <1>2. CASE \E v, u : g = {byIPv(v)} /\ h = {byIPv(u)}
    BY <1>2, NameOfDefault
  <1>3. ~ \E r, v : g = generateFilters(r) /\ h = {byIPv(v)}
    BY NameOfRequest, NameOfDefault
  <1>4. ~ \E r, v : h = generateFilters(r) /\ g = {byIPv(v)}
    BY NameOfRequest, NameOfDefault
  <1> QED
    BY <1>1, <1>2, <1>3, <1>4 DEF Wanted

LEMMA WantedHasNoTriples ==
  ASSUME NEW g \in Wanted
  PROVE  \A d, i, n : <<d, i, n>> \notin Name(g)
  BY NameOfRequest, NameOfDefault DEF Wanted

LEMMA NamesDiffer ==
  ASSUME NEW s \in AnyFilters, NEW u \in AnyFilters, Name(s) = Name(u)
  PROVE  s = u
  <1>1. PICK g \in Wanted : s = g \/ \E d, i, n : s = g \cup {bySubring(d, i, n)}
    BY DEF AnyFilters
  <1>2. PICK h \in Wanted : u = h \/ \E d, i, n : u = h \cup {bySubring(d, i, n)}
    BY DEF AnyFilters
  <1>3. ASSUME NEW k, NEW d, NEW i, NEW n
        PROVE  Name(k \cup {bySubring(d, i, n)}) = Name(k) \cup {<<d, i, n>>}
    BY WordsOfFilters DEF Name
  <1>4. g = h
    <2>1. \A x, y : <<x, y>> \in Name(s) <=> <<x, y>> \in Name(g)
      BY <1>1, <1>3, PairsAndTriples
    <2>2. \A x, y : <<x, y>> \in Name(u) <=> <<x, y>> \in Name(h)
      BY <1>2, <1>3, PairsAndTriples
    <2> QED
      BY <2>1, <2>2, WantedByName
  <1>5. \A d, i, n : <<d, i, n>> \notin Name(g)
    BY WantedHasNoTriples
  <1>6. CASE s = g
    <2>1. ASSUME NEW d, NEW i, NEW n, u = h \cup {bySubring(d, i, n)} PROVE FALSE
      <3>1. <<d, i, n>> \in Name(u)
        BY <1>3, <2>1
      <3> QED
        BY <1>5, <1>6, <3>1
    <2> QED
      BY <1>2, <1>4, <1>6, <2>1
  <1>7. ASSUME NEW d, NEW i, NEW n, s = g \cup {bySubring(d, i, n)}
        PROVE  s = u
    <2>1. <<d, i, n>> \in Name(u) /\ <<d, i, n>> \notin Name(h)
      BY <1>3, <1>4, <1>5, <1>7
    <2>2. PICK e, j, l : u = h \cup {bySubring(e, j, l)}
      BY <1>2, <2>1
    <2>3. <<d, i, n>> = <<e, j, l>>
      BY <1>3, <2>1, <2>2
    <2> QED
      BY <1>4, <1>7, <2>2, <2>3, PairsAndTriples
  <1> QED
    BY <1>1, <1>6, <1>7

-----------------------------------------------------------------------------
(* Rings *)

LEMMA Remembered ==
  ASSUME NEW s \in AnyFilters
  PROVE  (CHOOSE n \in Named(s) : TRUE) = s
  <1>1. Named(s) = {s}
    BY NamesDiffer DEF Named
  <1> QED
    BY <1>1

LEMMA RingsAdded ==
  ASSUME NEW ring, NEW sets \in SUBSET AnyFilters,
         DOMAIN ring.rings \subseteq AnyFilters,
         \A s \in DOMAIN ring.rings : ring.rings[s] = Populated(ring.load, s),
         NEW new, new = addRing(ring, sets)
  PROVE  /\ new.load = ring.load
         /\ DOMAIN new.rings = DOMAIN ring.rings \cup sets
         /\ \A s \in DOMAIN new.rings : new.rings[s] = Populated(ring.load, s)
  <1>1. \A s \in sets : (CHOOSE n \in Named(s) : TRUE) = s
    BY Remembered
  <1> QED
    BY <1>1 DEF addRing

LEMMA Prepopulates ==
  ASSUME NEW d \in Distributor, NEW sharing \in BOOLEAN
  PROVE  Prepopulated(d, sharing) \subseteq AnyFilters
  <1>1. \A v \in {4, 6} : {byIPv(v)} \in Wanted
    BY DEF Wanted
  <1>2. CASE d \in ByName
    <2>1. Prepopulated(d, sharing) \subseteq Wanted
      BY <1>1, <1>2 DEF Prepopulated
    <2> QED
      BY <2>1 DEF AnyFilters
  <1>3. CASE d \notin ByName
    <2>1. totalSubrings(sharing) \in {Clusters, Clusters + 1}
      BY DEF totalSubrings
    <2>2. 1..totalSubrings(sharing) \subseteq 1..(Clusters + 1)
      BY <2>1, DistributionAssumption
    <2>3. ASSUME NEW v \in {4, 6}, NEW i \in 1..totalSubrings(sharing)
          PROVE  {byIPv(v), bySubring(d, i, totalSubrings(sharing))} \in AnyFilters
      <3>1. {byIPv(v), bySubring(d, i, totalSubrings(sharing))} =
              {byIPv(v)} \cup {bySubring(d, i, totalSubrings(sharing))}
        OBVIOUS
      <3>2. d \in ByAddress
        BY <1>3 DEF Distributor
      <3> QED
        BY <1>1, <2>1, <2>2, <3>1, <3>2 DEF AnyFilters
    <2> QED
      BY <1>3, <2>3 DEF Prepopulated
  <1> QED
    BY <1>2, <1>3

LEMMA RequestHas ==
  ASSUME NEW d \in Distributor, NEW c \in Client, Serves(d, c), NEW ask \in Asks[d]
  PROVE  RequestOf(d, c, ask) \in Request
  BY DEF Request

\* A client's sub-ring: the last one for known proxies, and only for them.
LEMMA Subring ==
  ASSUME RingInv, NEW d \in Enabled \cap ByAddress, NEW c \in DOMAIN ProxyGroup
  PROVE  /\ usingProxy(d, c) => mapSubnetToSubring(d, c) = Clusters + 1
         /\ ~usingProxy(d, c) => mapSubnetToSubring(d, c) \in 1..Clusters
         /\ mapSubnetToSubring(d, c) \in 1..(Clusters + 1)
         /\ totalSubrings(shares[d]) \in {Clusters, Clusters + 1}
  <1>1. getSubnet(d, c) \in DOMAIN AreaHash
    BY DistributionAssumption DEF getSubnet
  <1>2. /\ AreaHash[getSubnet(d, c)] \in Nat /\ Clusters \in Nat \ {0}
    BY <1>1, DistributionAssumption
  <1>3. (AreaHash[getSubnet(d, c)] % Clusters) + 1 \in 1..Clusters
    BY <1>2
  <1> QED
    BY <1>2, <1>3 DEF mapSubnetToSubring, totalSubrings

LEMMA KeyIsOfRequest ==
  ASSUME RingInv, NEW d \in Enabled, NEW c \in Client, Serves(d, c), NEW ask \in Asks[d]
  PROVE  RingKey(d, c, RequestOf(d, c, ask)) \in AnyFilters
  <1>1. d \in Distributor
    BY DEF RingInv
  <1>2. generateFilters(RequestOf(d, c, ask)) \in Wanted
    BY <1>1, RequestHas DEF Wanted
  <1>3. CASE d \in ByName
    BY <1>2, <1>3 DEF RingKey, AnyFilters
  <1>4. CASE d \notin ByName
    <2>1. d \in ByAddress /\ c \in DOMAIN ProxyGroup
      BY <1>1, <1>4 DEF Serves, Distributor
    <2> QED
      BY <1>2, <1>4, <2>1, Subring DEF RingKey, AnyFilters
  <1> QED
    BY <1>3, <1>4

LEMMA InitRings == Init => RingInv
  <1> SUFFICES ASSUME Init PROVE RingInv
    OBVIOUS
  <1>1. PICK enabled \in Deployments :
          /\ hashring = [d \in enabled |-> NewHashring([bridges |-> {}, blocked |-> {}])]
          /\ shares = [d \in enabled |-> FALSE]
    BY DEF Init
  <1>2. \A d \in Enabled : /\ hashring[d].load = [bridges |-> {}, blocked |-> {}]
                           /\ DOMAIN hashring[d].rings = {}
    BY <1>1 DEF Enabled, NewHashring
  <1> QED
    BY <1>1, <1>2, DistributionAssumption DEF RingInv, RingsAreFresh, Init, Enabled

LEMMA RingsLoaded ==
  ASSUME RingInv, NEW load \in Loads, up' \in BOOLEAN, shares' \in [Enabled -> BOOLEAN],
         hashring' = [d \in Enabled |-> Reloaded(d, load, Sharing[d])]
  PROVE  RingInv'
  <1>1. ASSUME NEW d \in Enabled
        PROVE  /\ hashring'[d].load = load
               /\ DOMAIN hashring'[d].rings \subseteq AnyFilters
               /\ \A s \in DOMAIN hashring'[d].rings :
                    hashring'[d].rings[s] = Populated(load, s)
    <2>1. d \in Distributor /\ Sharing[d] \in BOOLEAN
      BY DEF RingInv, Sharing
    <2>2. PICK ring : ring = NewHashring(load)
      OBVIOUS
    <2>3. ring.load = load /\ DOMAIN ring.rings = {}
      BY <2>2 DEF NewHashring
    <2>4. hashring'[d] = addRing(ring, Prepopulated(d, Sharing[d]))
      BY <2>2 DEF Reloaded
    <2> QED
      BY <2>1, <2>3, <2>4, Prepopulates, RingsAdded
  <1>2. Enabled' = Enabled
    BY DEF Enabled
  <1> QED
    BY <1>1, <1>2 DEF RingInv, RingsAreFresh

LEMMA RingsNext == RingInv /\ [Next]_vars => RingInv'
  <1> SUFFICES ASSUME RingInv, [Next]_vars PROVE RingInv'
    OBVIOUS
  <1>1. CASE UNCHANGED <<hashring, shares, up>>
    BY <1>1 DEF RingInv, RingsAreFresh, Enabled
  <1>2. Sharing \in [Enabled -> BOOLEAN]
    BY DEF Sharing
  <1>3. ASSUME NEW load \in Loads, Start(load) \/ Reload(load) PROVE RingInv'
    BY <1>2, <1>3, RingsLoaded DEF Start, Reload, RingInv
  <1>4. ASSUME NEW d \in Enabled, NEW c \in Client, NEW ask \in Asks[d], GetBridges(d, c, ask)
        PROVE  RingInv'
    <2>1. PICK key : key = RingKey(d, c, RequestOf(d, c, ask))
      OBVIOUS
    <2>2. key \in AnyFilters
      BY <1>4, <2>1, KeyIsOfRequest DEF GetBridges
    <2>3. PICK new : new = addRing(hashring[d], {key})
      OBVIOUS
    <2>4. hashring' = [hashring EXCEPT ![d] = new] /\ UNCHANGED <<shares, up>>
      BY <1>4, <2>1, <2>3 DEF GetBridges
    <2>5. /\ new.load = hashring[d].load /\ DOMAIN new.rings \subseteq AnyFilters
          /\ \A s \in DOMAIN new.rings : new.rings[s] = Populated(new.load, s)
      BY <2>2, <2>3, RingsAdded DEF RingInv, RingsAreFresh
    <2>6. /\ Enabled' = Enabled /\ hashring'[d] = new
          /\ \A e \in Enabled \ {d} : hashring'[e] = hashring[e]
      BY <2>4 DEF Enabled
    <2> QED
      BY <2>4, <2>5, <2>6 DEF RingInv, RingsAreFresh
  <1> QED
    BY <1>1, <1>3, <1>4 DEF Next, Proxies, vars

\* The invariant of the rings, and with it that of the proxies.
THEOREM Invariance == Spec => []IInv
  <1>1. Spec => []RingInv
    BY InitRings, RingsNext, PTL DEF Spec
  <1> QED
    BY <1>1, ProxyInvariance, PTL DEF IInv

THEOREM TypeCorrect == Spec => []TypeOK
  <1>1. ASSUME IInv PROVE TypeOK
    <2>1. ASSUME NEW d \in Enabled
          PROVE  /\ hashring[d].load.bridges \subseteq Bridge
                 /\ \A s \in DOMAIN hashring[d].rings : hashring[d].rings[s] \subseteq Bridge
      <3>1. hashring[d].load.bridges \subseteq Bridge
        BY <1>1, DistributionAssumption DEF IInv, RingInv
      <3> QED
        BY <1>1, <3>1 DEF IInv, RingInv, RingsAreFresh, Populated
    <2> QED
      BY <1>1, <2>1 DEF IInv, ProxyInv, ProxyTypeOK, RingInv, TypeOK
  <1> QED
    BY <1>1, Invariance, PTL

\* Every ring holds what a ring made now would, whichever requests made rings
\* before and in whichever order, for the names of what they ask for differ.
THEOREM FreshRings == Spec => []RingsAreFresh
  <1>1. IInv => RingsAreFresh
    BY DEF IInv, RingInv
  <1> QED
    BY <1>1, Invariance, PTL

-----------------------------------------------------------------------------
(* Answers *)

LEMMA BridgesOfRing ==
  ASSUME NEW ring, NEW place, NEW pos, NEW n, NEW bySubnet
  PROVE  /\ getBridges(ring, place, pos, n, bySubnet) \subseteq ring
         /\ bySubnet => \E keys \in SUBSET ring :
                            getBridges(ring, place, pos, n, bySubnet) \subseteq
                              filterDistinctSubnets(keys, place)
  <1>1. \A some, m : getBridgeKeysAt(some, place, pos, m) \subseteq some
    BY DEF getBridgeKeysAt, FirstOf
  <1>2. Forced(ring, place, pos) \subseteq ring
    BY <1>1 DEF Forced, SubRing
  <1>3. PICK keys : keys = Oversampled(ring, place, pos, n)
    OBVIOUS
  <1>4. keys \subseteq ring
    BY <1>1, <1>2, <1>3 DEF Oversampled
  <1>5. filterDistinctSubnets(keys, place) \subseteq keys
    BY DEF filterDistinctSubnets
  <1>6. PICK fit : fit = IF bySubnet THEN filterDistinctSubnets(keys, place) ELSE keys
    OBVIOUS
  <1>7. getBridges(ring, place, pos, n, bySubnet) = FirstOf(fit, place, n)
    BY <1>3, <1>6 DEF getBridges
  <1>8. FirstOf(fit, place, n) \subseteq fit
    BY DEF FirstOf
  <1> QED
    BY <1>4, <1>5, <1>6, <1>7, <1>8

\* What a client is given passes the filters of its request.
LEMMA AnswerPasses ==
  ASSUME RingInv, NEW d \in Enabled, NEW c \in Client, Serves(d, c), NEW ask \in Asks[d],
         NEW r, r = RequestOf(d, c, ask), NEW i, NEW b \in Answer(d, c, r, i)
  PROVE  /\ b \in Bridge
         /\ \A f \in RingKey(d, c, r) : Passes(f, b, hashring[d].load.blocked)
  <1>1. PICK key : key = RingKey(d, c, r)
    OBVIOUS
  <1>2. key \in AnyFilters
    BY <1>1, KeyIsOfRequest
  <1>3. PICK new : new = addRing(hashring[d], {key})
    OBVIOUS
  <1>4. new.rings[key] = Populated(hashring[d].load, key)
    BY <1>2, <1>3, RingsAdded DEF RingInv, RingsAreFresh
  <1>5. Ring(d, c, r) = Populated(hashring[d].load, key)
    BY <1>1, <1>3, <1>4 DEF Ring
  <1>6. b \in Ring(d, c, r)
    BY BridgesOfRing DEF Answer
  <1>7. hashring[d].load.bridges \subseteq Bridge
    BY DistributionAssumption DEF RingInv
  <1> QED
    BY <1>1, <1>5, <1>6, <1>7 DEF Populated

LEMMA AnswerInSubring ==
  ASSUME RingInv, NEW d \in Enabled \cap ByAddress, NEW c \in DOMAIN ProxyGroup,
         NEW ask \in Asks[d], NEW i, NEW b \in Answer(d, c, RequestOf(d, c, ask), i)
  PROVE  (ShareHash[d][b] % totalSubrings(shares[d])) + 1 = mapSubnetToSubring(d, c)
  <1>1. c \in Client /\ d \notin ByName
    BY DistributionAssumption
  <1>2. Serves(d, c)
    BY <1>1 DEF Serves
  <1>3. PICK f : f = bySubring(d, mapSubnetToSubring(d, c), totalSubrings(shares[d]))
    OBVIOUS
  <1>4. f \in RingKey(d, c, RequestOf(d, c, ask))
    BY <1>1, <1>3 DEF RingKey
  <1>5. Passes(f, b, hashring[d].load.blocked)
    BY <1>1, <1>2, <1>4, AnswerPasses
  <1>6. /\ f.by = "subring" /\ f.dist = d /\ f.assigned = mapSubnetToSubring(d, c)
        /\ f.total = totalSubrings(shares[d])
    BY <1>3 DEF bySubring
  <1>7. PassesSubring(f, b)
    BY <1>5, <1>6 DEF Passes
  <1> QED
    BY <1>6, <1>7 DEF PassesSubring

\* A proxy's sub-ring is the one after those of all the other clients, so no
\* bridge is given to both.
THEOREM ApartFromProxies == Spec => []ProxiesApart
  <1>1. ASSUME IInv, NEW d \in Enabled \cap ByAddress,
               NEW p \in DOMAIN ProxyGroup, NEW c \in DOMAIN ProxyGroup, NEW i \in Interval,
               usingProxy(d, p), ~usingProxy(d, c),
               NEW asked \in Asks[d], NEW ask \in Asks[d],
               NEW b \in Answer(d, p, RequestOf(d, p, asked), i),
               b \in Answer(d, c, RequestOf(d, c, ask), i)
        PROVE  FALSE
    <2>1. mapSubnetToSubring(d, p) = mapSubnetToSubring(d, c)
      BY <1>1, AnswerInSubring DEF IInv
    <2>2. mapSubnetToSubring(d, p) = Clusters + 1 /\ mapSubnetToSubring(d, c) \in 1..Clusters
      BY <1>1, Subring DEF IInv
    <2> QED
      BY <2>1, <2>2, DistributionAssumption
  <1>2. IInv => ProxiesApart
    BY <1>1 DEF ProxiesApart
  <1> QED
    BY <1>2, Invariance, PTL

\* What each filter says of a bridge that passes it.
LEMMA WhatPasses ==
  ASSUME NEW b, NEW blocked, NEW m, NEW v
  PROVE  /\ Passes(byIPv(v), b, blocked) => HasIPv(b, v)
         /\ Passes(byProbingResistance(m, v), b, blocked) =>
              (hasProbingResistantPT(b) => m \in {"scramblesuit", "obfs4"})
         /\ Passes(byTransport(m, v), b, blocked) =>
              \E e \in TransportsOf(b) : e.method = m /\ e.version = v
  <1>1. PICK f : f = byIPv(v)
    OBVIOUS
  <1>2. f.by = "ip" /\ f.version = v
    BY <1>1 DEF byIPv
  <1>3. Passes(f, b, blocked) => HasIPv(b, v)
    BY <1>2 DEF Passes, PassesIPv
  <1>4. PICK g : g = byProbingResistance(m, v)
    OBVIOUS
  <1>5. g.by = "probing resistance" /\ g.method = m
    BY <1>4 DEF byProbingResistance
  <1>6. Passes(g, b, blocked) =>
          (hasProbingResistantPT(b) => m \in {"scramblesuit", "obfs4"})
    BY <1>5 DEF Passes, PassesProbingResistance
  <1>7. PICK h : h = byTransport(m, v)
    OBVIOUS
  <1>8. h.by = "transport" /\ h.method = m /\ h.version = v
    BY <1>7 DEF byTransport
  <1>9. Passes(h, b, blocked) => \E e \in TransportsOf(b) : e.method = m /\ e.version = v
    BY <1>8 DEF Passes, PassesTransport
  <1> QED
    BY <1>1, <1>3, <1>4, <1>6, <1>7, <1>9

\* What the filter against blocks says, for one of a request's countries.
LEMMA WhatIsUnblocked ==
  ASSUME NEW r, NEW b, NEW blocked, NEW c \in r.countries,
         \A f \in generateFilters(r) : Passes(f, b, blocked)
  PROVE  /\ r.method = "vanilla" => HasIPv(b, r.version) /\ <<MainOf[b], c>> \notin blocked
         /\ r.method # "vanilla" =>
              /\ ~transportIsBlockedIn(b, r.method, c, blocked)
              /\ \E e \in TransportsOf(b) : e.method = r.method /\ e.version = r.version
  <1>1. PICK u : u = byNotBlockedIn(c, r.method, r.version)
    OBVIOUS
  <1>2. /\ u.by = "unblocked" /\ u.country = c /\ u.method = r.method
        /\ u.version = r.version
    BY <1>1 DEF byNotBlockedIn
  <1>3. u \in generateFilters(r)
    BY <1>1 DEF generateFilters
  <1>4. PassesNotBlockedIn(u, b, blocked)
    BY <1>2, <1>3 DEF Passes
  <1> QED
    BY <1>2, <1>4 DEF PassesNotBlockedIn, PassesTransport

\* A bridge that passes the filters of a request has an endpoint for it.
LEMMA EndpointForRequest ==
  ASSUME NEW r, NEW b \in Bridge, NEW blocked,
         \A f \in generateFilters(r) : Passes(f, b, blocked),
         r.method # "vanilla" \/ r.version = 4 \/ r.countries = {}
  PROVE  EndpointsFor(r, b, blocked) # {}
  <1>1. CASE r.countries = {}
    <2>1. CASE r.method = "vanilla"
      <3>1. byIPv(r.version) \in generateFilters(r)
        BY <1>1, <2>1 DEF generateFilters
      <3>2. HasIPv(b, r.version)
        BY <3>1, WhatPasses
      <3> QED
        BY <1>1, <2>1, <3>2 DEF HasIPv, EndpointsFor, VanillaForRequest, UnblockedIn
    <2>2. CASE r.method # "vanilla"
      <3>1. byTransport(r.method, r.version) \in generateFilters(r)
        BY <1>1, <2>2 DEF generateFilters
      <3>2. \E e \in TransportsOf(b) : e.method = r.method /\ e.version = r.version
        BY <3>1, WhatPasses
      <3> QED
        BY <1>1, <2>2, <3>2 DEF EndpointsFor, TransportForRequest
    <2> QED
      BY <2>1, <2>2
  <1>2. CASE r.countries # {}
    <2>1. CASE r.method = "vanilla"
      <3>1. r.version = 4
        BY <1>2, <2>1
      <3>2. HasIPv(b, 4) /\ \A c \in r.countries : <<MainOf[b], c>> \notin blocked
        BY <1>2, <2>1, <3>1, WhatIsUnblocked
      <3>3. MainOf[b] \in VanillasOf(b) /\ MainOf[b].version = 4
        BY <3>2, DistributionAssumption
      <3> QED
        BY <2>1, <3>1, <3>2, <3>3 DEF EndpointsFor, VanillaForRequest, UnblockedIn
    <2>2. CASE r.method # "vanilla"
      <3>1. /\ \E e \in TransportsOf(b) : e.method = r.method /\ e.version = r.version
            /\ \A c \in r.countries : ~transportIsBlockedIn(b, r.method, c, blocked)
        BY <1>2, <2>2, WhatIsUnblocked
      <3> QED
        BY <2>2, <3>1 DEF EndpointsFor, TransportForRequest
    <2> QED
      BY <2>1, <2>2
  <1> QED
    BY <1>1, <1>2

\* A line can be made of each endpoint, whichever is picked, unless it is the
\* main one of a bridge that lacks it.
LEMMA LineForRequest ==
  ASSUME NEW r, NEW b \in Bridge, NEW blocked,
         \A f \in generateFilters(r) : Passes(f, b, blocked), Usable(r, b)
  PROVE  BridgeLines(r, b, blocked) # {} /\ BridgeLines(r, b, blocked) = EndpointsFor(r, b, blocked)
  <1>1. EndpointsFor(r, b, blocked) # {}
    BY EndpointForRequest DEF Usable
  <1>2. \A e \in EndpointsFor(r, b, blocked) : e # MainOf[b] \/ b \notin Incomplete
    <2>1. MainOf[b].method = "vanilla" /\ MainOf[b].version = 4
      BY DistributionAssumption DEF VanillasOf, TransportsOf
    <2>2. CASE r.method = "vanilla"
      BY <2>1, <2>2 DEF EndpointsFor, VanillaForRequest, Usable
    <2>3. CASE r.method # "vanilla"
      BY <2>1, <2>3 DEF EndpointsFor, TransportForRequest
    <2> QED
      BY <2>2, <2>3
  <1> QED
    BY <1>1, <1>2 DEF BridgeLines

\* No line is blocked where it was asked not to be.
LEMMA LineUnblocked ==
  ASSUME NEW r, NEW b, NEW blocked, NEW e \in BridgeLines(r, b, blocked),
         NEW c \in r.countries
  PROVE  <<e, c>> \notin blocked
  <1>1. CASE r.method = "vanilla"
    BY <1>1 DEF BridgeLines, EndpointsFor, VanillaForRequest, UnblockedIn
  <1>2. CASE r.method # "vanilla"
    BY <1>2 DEF BridgeLines, EndpointsFor, TransportForRequest, transportIsBlockedIn
  <1> QED
    BY <1>1, <1>2

LEMMA ResistantAsked ==
  ASSUME NEW r, NEW b, NEW blocked,
         \A f \in generateFilters(r) : Passes(f, b, blocked), hasProbingResistantPT(b)
  PROVE  r.method \in Resistant
  <1>1. byProbingResistance(r.method, r.version) \in generateFilters(r)
    BY DEF generateFilters
  <1>2. Passes(byProbingResistance(r.method, r.version), b, blocked)
    BY <1>1
  <1>3. r.method \in {"scramblesuit", "obfs4"}
    BY <1>2, WhatPasses
  <1> QED
    BY <1>3, DistributionAssumption

LEMMA SubnetsDiffer ==
  ASSUME NEW k \in 1..(Clusters + 1), NEW keys \in SUBSET Bridge,
         NEW b \in filterDistinctSubnets(keys, Place[k]),
         NEW o \in filterDistinctSubnets(keys, Place[k]), Net[o] = Net[b]
  PROVE  o = b
  <1>1. b \in keys /\ o \in keys /\ ~Before(Place[k], b, o) /\ ~Before(Place[k], o, b)
    BY DEF filterDistinctSubnets
  <1>2. Place[k][b] \in Int /\ Place[k][o] \in Int
    BY <1>1, DistributionAssumption
  <1>3. Place[k][b] = Place[k][o]
    BY <1>1, <1>2 DEF Before
  <1> QED
    BY <1>1, <1>3, DistributionAssumption

\* HTTPS asks for what is not blocked where the client is, if that is known.
LEMMA OwnCountry ==
  ASSUME NEW d \in ByAddress \ {"moat"}, NEW c, NEW ask,
         CountryOf[c] # NoName
  PROVE  CountryOf[c] \in RequestOf(d, c, ask).countries
  <1>1. d \notin ByName
    BY DistributionAssumption
  <1>2. RequestOf(d, c, ask) = HTTPSBridgeRequest(ask, CountryOf[c])
    BY <1>1 DEF RequestOf
  <1> QED
    BY <1>2 DEF HTTPSBridgeRequest, BridgeRequest

\* Whatever rings were made before, and for whom: a client's answer has lines
\* for what it asked, none blocked, of bridges in distinct subnets.
THEOREM AnswersAreFit == Spec => []AnswersFit
  <1>1. ASSUME IInv, NEW d \in Enabled, NEW c \in Client, NEW i \in Interval, Serves(d, c),
               NEW ask \in Asks[d], NEW r, r = RequestOf(d, c, ask),
               NEW answer, answer = Answer(d, c, r, i), NEW b \in answer,
               NEW blocked, blocked = hashring[d].load.blocked
        PROVE  /\ Usable(r, b) =>
                    BridgeLines(r, b, blocked) # {}
                    /\ BridgeLines(r, b, blocked) = EndpointsFor(r, b, blocked)
               /\ d \in ByAddress \ {"moat"} =>
                    \A e \in BridgeLines(r, b, blocked) : <<e, CountryOf[c]>> \notin blocked
               /\ hasProbingResistantPT(b) => r.method \in Resistant
               /\ d \in ByAddress =>
                    Net[b] # NoNet /\ \A o \in answer : Net[o] = Net[b] => o = b
    <2>1. RingInv /\ d \in Distributor
      BY <1>1 DEF IInv, RingInv
    <2>2. b \in Bridge /\ \A f \in RingKey(d, c, r) : Passes(f, b, blocked)
      BY <1>1, <2>1, AnswerPasses
    <2>3. generateFilters(r) \subseteq RingKey(d, c, r)
      BY DEF RingKey
    <2>4. \A f \in generateFilters(r) : Passes(f, b, blocked)
      BY <2>2, <2>3
    <2>5. Usable(r, b) =>
            BridgeLines(r, b, blocked) # {}
            /\ BridgeLines(r, b, blocked) = EndpointsFor(r, b, blocked)
      BY <2>2, <2>4, LineForRequest
    <2>6. ASSUME d \in ByAddress \ {"moat"}, NEW e \in BridgeLines(r, b, blocked)
          PROVE  <<e, CountryOf[c]>> \notin blocked
      <3>1. CASE CountryOf[c] = NoName
        <4>1. \A mark \in blocked : mark[2] # NoName
          BY <1>1, <2>1, DistributionAssumption DEF RingInv
        <4> QED
          BY <3>1, <4>1
      <3>2. CASE CountryOf[c] # NoName
        BY <1>1, <2>6, <3>2, OwnCountry, LineUnblocked
      <3> QED
        BY <3>1, <3>2
    <2>7. hasProbingResistantPT(b) => r.method \in Resistant
      BY <2>4, ResistantAsked
    <2>8. ASSUME d \in ByAddress
          PROVE  Net[b] # NoNet /\ \A o \in answer : Net[o] = Net[b] => o = b
      <3>1. PICK k : k = mapSubnetToSubring(d, c)
        OBVIOUS
      <3>2. d \notin ByName /\ c \in DOMAIN ProxyGroup
        BY <1>1, <2>8, DistributionAssumption DEF Serves
      <3>3. k \in 1..(Clusters + 1)
        BY <2>1, <2>8, <3>1, <3>2, Subring
      <3>4. PICK ring, pos, n :
              /\ ring = Ring(d, c, r)
              /\ answer \subseteq getBridges(ring, Place[k], pos, n, TRUE)
        BY <1>1, <2>8, <3>1, <3>2 DEF Answer, RingOrder
      <3>5. PICK keys \in SUBSET ring : answer \subseteq filterDistinctSubnets(keys, Place[k])
        BY <3>4, BridgesOfRing
      <3>6. PICK fit : fit = {o \in keys : o \in Bridge}
        OBVIOUS
      <3>7. answer \subseteq Bridge
        BY <1>1, <2>1, AnswerPasses
      <3>8. answer \subseteq filterDistinctSubnets(fit, Place[k])
        BY <3>5, <3>6, <3>7 DEF filterDistinctSubnets
      <3>9. Net[b] # NoNet
        BY <1>1, <3>5 DEF filterDistinctSubnets
      <3> QED
        BY <1>1, <3>3, <3>6, <3>8, <3>9, SubnetsDiffer
    <2> QED
      BY <2>5, <2>6, <2>7, <2>8
  <1>2. IInv => AnswersFit
    BY <1>1 DEF AnswersFit
  <1> QED
    BY <1>2, Invariance, PTL

-----------------------------------------------------------------------------
(* How long answers are *)

\* The n first of some bridges are n bridges, if there are as many.
LEMMA FirstOnes ==
  ASSUME NEW some, IsFiniteSet(some), NEW place,
         \A b \in some : place[b] \in Int,
         \A b, c \in some : place[b] = place[c] => b = c,
         NEW n \in Nat
  PROVE  /\ IsFiniteSet(FirstOf(some, place, n))
         /\ Cardinality(FirstOf(some, place, n)) =
              IF n =< Cardinality(some) THEN n ELSE Cardinality(some)
  <1> DEFINE before(b) == {c \in some : Before(place, c, b)}
             rank == [b \in some |-> Cardinality(before(b))]
             size == Cardinality(some)
             least == IF n =< size THEN n ELSE size
             first == FirstOf(some, place, n)
             rankOfFirst == [b \in first |-> rank[b]]
  <1>1. size \in Nat
    BY FS_CardinalityType
  <1>2. \A b \in some : IsFiniteSet(before(b)) /\ Cardinality(before(b)) \in Nat
    <2> TAKE b \in some
    <2>1. before(b) \in SUBSET some
      OBVIOUS
    <2>2. IsFiniteSet(before(b))
      BY <2>1, FS_Subset
    <2> QED
      BY <2>2, FS_CardinalityType
  <1>3. \A b \in some : rank[b] \in 0..(size - 1)
    <2> TAKE b \in some
    <2>1. before(b) \in SUBSET (some \ {b})
      BY DEF Before
    <2>2. IsFiniteSet(some \ {b}) /\ Cardinality(some \ {b}) = size - 1
      BY FS_RemoveElement
    <2>3. Cardinality(before(b)) =< size - 1
      <3> HIDE DEF before
      <3> QED
        BY <2>1, <2>2, FS_Subset
    <2> QED
      BY <1>1, <1>2, <2>3
  <1>4. \A b, c \in some : place[b] < place[c] => rank[b] < rank[c]
    <2> TAKE b, c \in some
    <2> HAVE place[b] < place[c]
    <2>1. b \notin before(b) /\ before(b) \cup {b} \in SUBSET before(c)
      BY DEF Before
    <2>2. /\ IsFiniteSet(before(b) \cup {b})
          /\ Cardinality(before(b) \cup {b}) = Cardinality(before(b)) + 1
      <3> HIDE DEF before
      <3> QED
        BY <1>2, <2>1, FS_AddElement
    <2>3. Cardinality(before(b) \cup {b}) =< Cardinality(before(c))
      <3> HIDE DEF before
      <3> QED
        BY <1>2, <2>1, FS_Subset
    <2>4. rank[b] = Cardinality(before(b)) /\ rank[c] = Cardinality(before(c))
      OBVIOUS
    <2> HIDE DEF before, rank
    <2> QED
      BY <1>2, <2>2, <2>3, <2>4
  <1>5. \A b, c \in some : rank[b] = rank[c] => b = c
    <2> SUFFICES ASSUME NEW b \in some, NEW c \in some, b # c PROVE rank[b] # rank[c]
      OBVIOUS
    <2>1. place[b] < place[c] \/ place[c] < place[b]
      OBVIOUS
    <2>2. rank[b] \in Int /\ rank[c] \in Int
      BY <1>3
    <2> HIDE DEF rank
    <2> QED
      BY <1>4, <2>1, <2>2
  <1>6. rank \in Surjection(some, 0..(size - 1))
    <2>1. rank \in Injection(some, 0..(size - 1))
      BY <1>3, <1>5 DEF Injection, IsInjective
    <2>2. IsFiniteSet(0..(size - 1)) /\ Cardinality(0..(size - 1)) = size
      BY <1>1, FS_Interval
    <2> QED
      BY <2>1, <2>2, FS_Injection
  <1>7. first = {b \in some : rank[b] < n}
    BY DEF FirstOf
  <1>8. rankOfFirst \in Bijection(first, 0..(least - 1))
    <2> HIDE DEF rank, first
    <2>1. \A b \in first : rank[b] \in 0..(least - 1)
      BY <1>1, <1>3, <1>7
    <2>2. \A k \in 0..(least - 1) : \E b \in first : rank[b] = k
      <3> TAKE k \in 0..(least - 1)
      <3>1. k \in 0..(size - 1) /\ k < n
        BY <1>1
      <3>2. PICK b \in some : rank[b] = k
        BY <1>6, <3>1 DEF Surjection
      <3> QED
        BY <1>7, <3>1, <3>2
    <2>3. rankOfFirst \in Injection(first, 0..(least - 1))
      BY <1>5, <1>7, <2>1 DEF Injection, IsInjective
    <2>4. rankOfFirst \in Surjection(first, 0..(least - 1))
      BY <2>1, <2>2 DEF Surjection
    <2> QED
      BY <2>3, <2>4 DEF Bijection
  <1>9. IsFiniteSet(first)
    <2>1. first \in SUBSET some
      BY DEF FirstOf
    <2> QED
      BY <2>1, FS_Subset
  <1>10. Cardinality(first) = Cardinality(0..(least - 1))
    <2> HIDE DEF first, least, rankOfFirst
    <2>1. ExistsBijection(first, 0..(least - 1))
      BY <1>8 DEF ExistsBijection
    <2> QED
      BY <1>9, <2>1, FS_Bijection
  <1>11. Cardinality(0..(least - 1)) = least
    <2>1. least \in Nat
      BY <1>1
    <2> HIDE DEF least
    <2> QED
      BY <2>1, FS_Interval
  <1> QED
    BY <1>9, <1>10, <1>11

\* Of bridges at distinct places, one is before all the others.
LEMMA FirstOne ==
  ASSUME NEW some, IsFiniteSet(some), some # {}, NEW place,
         \A b \in some : place[b] \in Int,
         \A b, c \in some : place[b] = place[c] => b = c
  PROVE  \E b \in some : \A c \in some : ~Before(place, c, b)
  <1>1. Cardinality(some) \in Nat /\ Cardinality(some) # 0
    BY FS_CardinalityType, FS_EmptySet
  <1>2. Cardinality(FirstOf(some, place, 1)) = 1
    BY <1>1, FirstOnes
  <1>3. FirstOf(some, place, 1) # {}
    BY <1>2, FS_EmptySet
  <1>4. PICK b \in some : Cardinality({c \in some : Before(place, c, b)}) < 1
    BY <1>3 DEF FirstOf
  <1>5. PICK before \in SUBSET some : before = {c \in some : Before(place, c, b)}
    OBVIOUS
  <1>6. IsFiniteSet(before) /\ Cardinality(before) \in Nat
    BY FS_Subset, FS_CardinalityType
  <1>7. before = {}
    BY <1>4, <1>5, <1>6, FS_EmptySet
  <1> QED
    BY <1>5, <1>7

\* A lookup returns n bridges, or all of the ring, from any position.
LEMMA KeysFound ==
  ASSUME NEW ring, IsFiniteSet(ring), NEW place,
         \A b \in ring : place[b] \in 0..(Circle - 1),
         \A b, c \in ring : place[b] = place[c] => b = c,
         NEW pos \in 0..(Circle - 1), NEW n \in Nat
  PROVE  /\ IsFiniteSet(getBridgeKeysAt(ring, place, pos, n))
         /\ Cardinality(getBridgeKeysAt(ring, place, pos, n)) =
              IF n =< Cardinality(ring) THEN n ELSE Cardinality(ring)
  <1>1. PICK ahead : ahead = [b \in ring |-> Ahead(place, pos, b)]
    OBVIOUS
  <1>2. \A b \in ring : ahead[b] \in Int
    BY <1>1, RingAssumption DEF Ahead
  <1>3. \A b, c \in ring : ahead[b] = ahead[c] => b = c
    <2> TAKE b, c \in ring
    <2>1. place[b] \in 0..(Circle - 1) /\ place[c] \in 0..(Circle - 1) /\ Circle \in Nat
      BY RingAssumption
    <2>2. Ahead(place, pos, b) = Ahead(place, pos, c) => place[b] = place[c]
      BY <2>1 DEF Ahead
    <2> QED
      BY <1>1, <2>2
  <1> QED
    BY <1>1, <1>2, <1>3, FirstOnes DEF getBridgeKeysAt

\* The n first of some bridges, by the places of a sub-ring.
LEMMA CutToSize ==
  ASSUME NEW some \in SUBSET Bridge, NEW k \in 0..(Clusters + 1), NEW n \in Nat
  PROVE  /\ IsFiniteSet(some) /\ Cardinality(some) \in Nat
         /\ Cardinality(FirstOf(some, Place[k], n)) =
              IF n =< Cardinality(some) THEN n ELSE Cardinality(some)
  <1>1. IsFiniteSet(some)
    BY RingAssumption, FS_Subset
  <1>2. /\ \A b \in some : Place[k][b] \in Int
        /\ \A b, c \in some : Place[k][b] = Place[k][c] => b = c
    BY DistributionAssumption
  <1> QED
    BY <1>1, <1>2, FirstOnes, FS_CardinalityType

\* The lookup among the keys: 2n bridges of the ring, or all of it.
LEMMA Lookup ==
  ASSUME NEW ring \in SUBSET Bridge, NEW k \in 0..(Clusters + 1),
         NEW pos \in 0..(Circle - 1), NEW n \in Nat
  PROVE  LET found == getBridgeKeysAt(ring, Place[k], pos, n + n)
             keys == Oversampled(ring, Place[k], pos, n) IN
         /\ found \in SUBSET keys /\ keys \in SUBSET ring
         /\ Cardinality(found) = IF n + n =< Cardinality(ring) THEN n + n ELSE Cardinality(ring)
  <1> DEFINE found == getBridgeKeysAt(ring, Place[k], pos, n + n)
             keys == Oversampled(ring, Place[k], pos, n)
  <1>1. found \in SUBSET keys /\ keys \in SUBSET ring
    BY DEF Oversampled, Forced, getBridgeKeysAt, FirstOf, SubRing
  <1>2. IsFiniteSet(ring)
    BY CutToSize
  <1>3. /\ \A b \in ring : Place[k][b] \in 0..(Circle - 1)
        /\ \A b, c \in ring : Place[k][b] = Place[k][c] => b = c
    BY DistributionAssumption
  <1>4. Cardinality(found) = IF n + n =< Cardinality(ring) THEN n + n ELSE Cardinality(ring)
    BY <1>2, <1>3, KeysFound
  <1> QED
    BY <1>1, <1>4

LEMMA AnswerByName ==
  ASSUME NEW ring \in SUBSET Bridge, NEW k \in 0..(Clusters + 1),
         NEW pos \in 0..(Circle - 1), NEW n \in Nat
  PROVE  Cardinality(FirstOf(Oversampled(ring, Place[k], pos, n), Place[k], n)) =
           IF n =< Cardinality(ring) THEN n ELSE Cardinality(ring)
  <1>1. PICK found, keys : /\ found = getBridgeKeysAt(ring, Place[k], pos, n + n)
                           /\ keys = Oversampled(ring, Place[k], pos, n)
    OBVIOUS
  <1>2. found \in SUBSET keys /\ keys \in SUBSET ring
    BY <1>1, Lookup
  <1>3. Cardinality(found) = IF n + n =< Cardinality(ring) THEN n + n ELSE Cardinality(ring)
    <2>1. Cardinality(getBridgeKeysAt(ring, Place[k], pos, n + n)) =
            IF n + n =< Cardinality(ring) THEN n + n ELSE Cardinality(ring)
      BY Lookup
    <2> QED
      BY <1>1, <2>1
  <1>4. /\ IsFiniteSet(ring) /\ Cardinality(ring) \in Nat
        /\ IsFiniteSet(keys) /\ Cardinality(keys) \in Nat
        /\ Cardinality(FirstOf(keys, Place[k], n)) =
             IF n =< Cardinality(keys) THEN n ELSE Cardinality(keys)
    BY <1>2, CutToSize
  <1>5. Cardinality(found) =< Cardinality(keys) /\ Cardinality(keys) =< Cardinality(ring)
    BY <1>2, <1>4, FS_Subset
  <1>6. Cardinality(FirstOf(keys, Place[k], n)) =
          IF n =< Cardinality(ring) THEN n ELSE Cardinality(ring)
    BY <1>3, <1>4, <1>5
  <1> QED
    BY <1>1, <1>6

LEMMA AnswerByAddress ==
  ASSUME NEW ring \in SUBSET Bridge, NEW k \in 0..(Clusters + 1),
         NEW pos \in 0..(Circle - 1), NEW n \in Nat, n # 0,
         NEW fit, fit = filterDistinctSubnets(Oversampled(ring, Place[k], pos, n), Place[k]),
         NEW strange, strange = {b \in ring : Net[b] = NoNet}
  PROVE  /\ Cardinality(FirstOf(fit, Place[k], n)) =< n
         /\ Cardinality(strange) < n + n /\ ring # strange =>
              Cardinality(FirstOf(fit, Place[k], n)) > 0
  <1>1. PICK found, keys : /\ found = getBridgeKeysAt(ring, Place[k], pos, n + n)
                           /\ keys = Oversampled(ring, Place[k], pos, n)
    OBVIOUS
  <1>2. found \in SUBSET keys /\ keys \in SUBSET ring
    BY <1>1, Lookup
  <1>3. Cardinality(found) = IF n + n =< Cardinality(ring) THEN n + n ELSE Cardinality(ring)
    <2>1. Cardinality(getBridgeKeysAt(ring, Place[k], pos, n + n)) =
            IF n + n =< Cardinality(ring) THEN n + n ELSE Cardinality(ring)
      BY Lookup
    <2> QED
      BY <1>1, <2>1
  <1>4. PICK size : size = Cardinality(FirstOf(fit, Place[k], n))
    OBVIOUS
  <1>5. /\ IsFiniteSet(fit) /\ Cardinality(fit) \in Nat
        /\ size = IF n =< Cardinality(fit) THEN n ELSE Cardinality(fit)
    <2>1. fit \in SUBSET Bridge
      BY <1>1, <1>2 DEF filterDistinctSubnets
    <2> QED
      BY <1>4, <2>1, CutToSize
  <1>6. ASSUME Cardinality(strange) < n + n, ring # strange
        PROVE  fit # {}
    <2>1. ~(found \subseteq strange)
      <3> SUFFICES ASSUME found \subseteq strange PROVE FALSE
        OBVIOUS
      <3>1. strange \in SUBSET ring /\ IsFiniteSet(ring) /\ IsFiniteSet(strange)
        BY RingAssumption, FS_Subset
      <3>2. /\ Cardinality(strange) \in Nat /\ Cardinality(found) =< Cardinality(strange)
            /\ Cardinality(ring) \in Nat
        BY <3>1, FS_Subset, FS_CardinalityType
      <3>3. Cardinality(ring) =< Cardinality(strange)
        BY <1>3, <1>6, <3>2
      <3>4. Cardinality(strange) =< Cardinality(ring) /\ Cardinality(strange) # Cardinality(ring)
        BY <1>6, <3>1, FS_Subset
      <3> QED
        BY <3>2, <3>3, <3>4
    <2>2. PICK b \in keys : Net[b] # NoNet
      BY <1>2, <2>1
    <2>3. PICK same : same = {c \in keys : Net[c] = Net[b]}
      OBVIOUS
    <2>4. same \in SUBSET Bridge /\ same # {} /\ IsFiniteSet(same)
      BY <1>2, <2>2, <2>3, RingAssumption, FS_Subset
    <2>5. /\ \A c \in same : Place[k][c] \in Int
          /\ \A c, o \in same : Place[k][c] = Place[k][o] => c = o
      BY <2>4, DistributionAssumption
    <2>6. PICK first \in same : \A c \in same : ~Before(Place[k], c, first)
      BY <2>4, <2>5, FirstOne
    <2>7. first \in filterDistinctSubnets(keys, Place[k])
      BY <2>2, <2>3, <2>6 DEF filterDistinctSubnets
    <2> QED
      BY <1>1, <2>7
  <1>7. size =< n
    BY <1>5
  <1>8. ASSUME Cardinality(strange) < n + n, ring # strange
        PROVE  size > 0
    <2>1. Cardinality(fit) # 0
      BY <1>5, <1>6, <1>8, FS_EmptySet
    <2> QED
      BY <1>5, <2>1
  <1> QED
    BY <1>4, <1>7, <1>8

\* A ring is some of what the hashring holds, whichever rings it has on hand.
LEMMA RingIsPopulated ==
  ASSUME RingInv, NEW d \in Enabled, NEW c \in Client, Serves(d, c), NEW ask \in Asks[d],
         NEW r, r = RequestOf(d, c, ask)
  PROVE  Ring(d, c, r) = Populated(hashring[d].load, RingKey(d, c, r))
  <1>1. PICK key : key = RingKey(d, c, r)
    OBVIOUS
  <1>2. key \in AnyFilters
    BY <1>1, KeyIsOfRequest
  <1>3. PICK new : new = addRing(hashring[d], {key})
    OBVIOUS
  <1>4. new.rings[key] = Populated(hashring[d].load, key)
    BY <1>2, <1>3, RingsAdded DEF RingInv, RingsAreFresh
  <1> QED
    BY <1>1, <1>3, <1>4 DEF Ring

LEMMA RingOfRequest ==
  ASSUME RingInv, NEW d \in Enabled, NEW c \in Client, Serves(d, c), NEW ask \in Asks[d],
         NEW r, r = RequestOf(d, c, ask)
  PROVE  Ring(d, c, r) \in SUBSET Bridge
  <1>1. hashring[d].load.bridges \subseteq Bridge
    BY DistributionAssumption DEF RingInv
  <1> QED
    BY <1>1, RingIsPopulated DEF Populated

\* Every position, and the order of every ring, is a place on the circle.
LEMMA ClientsWay ==
  ASSUME RingInv, NEW d \in Enabled, NEW c \in Client, Serves(d, c), NEW i \in Interval
  PROVE  /\ mapClientToHashringPosition(i, d, c) \in 0..(Circle - 1)
         /\ \E k \in 0..(Clusters + 1) : RingOrder(d, c) = Place[k]
  <1>1. d \in Distributor /\ Clusters \in Nat
    BY DistributionAssumption DEF RingInv
  <1>2. CASE d \in ByName
    <2>1. mapClientToHashringPosition(i, d, c) = Position[<<i, AreaOf[c]>>]
      BY <1>2 DEF mapClientToHashringPosition
    <2>2. RingOrder(d, c) = Place[0]
      BY <1>2 DEF RingOrder
    <2> QED
      BY <1>1, <2>1, <2>2, DistributionAssumption
  <1>3. CASE d \notin ByName
    <2>1. d \in Enabled \cap ByAddress /\ c \in DOMAIN ProxyGroup
      BY <1>1, <1>3 DEF Serves, Distributor
    <2>2. getSubnet(d, c) \in DOMAIN AreaHash
      BY <2>1, DistributionAssumption DEF getSubnet
    <2>3. mapClientToHashringPosition(i, d, c) = Position[<<i, getSubnet(d, c)>>]
      BY <1>3 DEF mapClientToHashringPosition
    <2>4. RingOrder(d, c) = Place[mapSubnetToSubring(d, c)]
      BY <1>3 DEF RingOrder
    <2>5. mapSubnetToSubring(d, c) \in 0..(Clusters + 1)
      BY <1>1, <2>1, Subring
    <2> QED
      BY <2>2, <2>3, <2>4, <2>5, DistributionAssumption
  <1> QED
    BY <1>2, <1>3

\* An email answer is as long as the ring allows, from every position; one by
\* address is not longer, and only empty for the bridges without an address.
THEOREM FullAnswers == Spec => []AnswersAreFull
  <1>1. ASSUME IInv, NEW d \in Enabled, NEW c \in Client, NEW i \in Interval, Serves(d, c),
               hashring[d].load.bridges # {}, NEW ask \in Asks[d],
               NEW r, r = RequestOf(d, c, ask), NEW ring, ring = Ring(d, c, r),
               NEW n, n = bridgesPerResponse(ring),
               NEW strange, strange = {b \in ring : Net[b] = NoNet},
               NEW size, size = Cardinality(Answer(d, c, r, i))
        PROVE  IF d \in ByName
                 THEN size = IF n =< Cardinality(ring) THEN n ELSE Cardinality(ring)
                 ELSE /\ size =< n
                      /\ Cardinality(strange) < n + n /\ ring # strange => size > 0
    <2>1. RingInv /\ d \in Distributor
      BY <1>1 DEF IInv, RingInv
    <2>2. ring \in SUBSET Bridge
      BY <1>1, <2>1, RingOfRequest
    <2>3. PICK pos : pos = mapClientToHashringPosition(i, d, c)
      OBVIOUS
    <2>4. pos \in 0..(Circle - 1)
      BY <1>1, <2>1, <2>3, ClientsWay
    <2>5. PICK k \in 0..(Clusters + 1) : RingOrder(d, c) = Place[k]
      BY <1>1, <2>1, ClientsWay
    <2>6. n \in Nat /\ n # 0
      BY <1>1 DEF bridgesPerResponse
    <2>7. CASE d \in ByName
      <3>1. Answer(d, c, r, i) = FirstOf(Oversampled(ring, Place[k], pos, n), Place[k], n)
        BY <1>1, <2>3, <2>5, <2>7, DistributionAssumption DEF Answer, getBridges
      <3>2. Cardinality(Answer(d, c, r, i)) =
              IF n =< Cardinality(ring) THEN n ELSE Cardinality(ring)
        BY <2>2, <2>4, <2>6, <3>1, AnswerByName
      <3> QED
        BY <1>1, <2>7, <3>2
    <2>8. CASE d \notin ByName
      <3>1. PICK fit : fit = filterDistinctSubnets(Oversampled(ring, Place[k], pos, n), Place[k])
        OBVIOUS
      <3>2. size = Cardinality(FirstOf(fit, Place[k], n))
        BY <1>1, <2>1, <2>3, <2>5, <2>8, <3>1 DEF Answer, getBridges, Distributor
      <3>3. strange = {b \in ring : Net[b] = NoNet}
        BY <1>1
      <3>4. size =< n
        BY <2>2, <2>4, <2>6, <3>1, <3>2, <3>3, AnswerByAddress
      <3>5. Cardinality(strange) < n + n /\ ring # strange => size > 0
        BY <2>2, <2>4, <2>6, <3>1, <3>2, <3>3, AnswerByAddress
      <3> QED
        BY <2>8, <3>4, <3>5
    <2> QED
      BY <2>7, <2>8
  <1>2. IInv => AnswersAreFull
    BY <1>1 DEF AnswersAreFull
  <1> QED
    BY <1>2, Invariance, PTL
-----------------------------------------------------------------------------
(* Consistent hashing *)

\* Who the first are depends only on the places of those there are.
LEMMA SamePlaces ==
  ASSUME NEW some, NEW place, NEW other, \A b \in some : place[b] = other[b], NEW n
  PROVE  FirstOf(some, place, n) = FirstOf(some, other, n)
  <1>1. \A b \in some : {c \in some : Before(place, c, b)} = {c \in some : Before(other, c, b)}
    BY DEF Before
  <1> QED
    BY <1>1 DEF FirstOf

\* One more bridge pushes at most one of the n first from its place.
LEMMA OneIsDisplaced ==
  ASSUME NEW some, IsFiniteSet(some), NEW place,
         \A b \in some : place[b] \in Int,
         \A b, c \in some : place[b] = place[c] => b = c,
         NEW new, NEW n \in Nat
  PROVE  /\ FirstOf(some \cup {new}, place, n) \subseteq FirstOf(some, place, n) \cup {new}
         /\ \A x, y \in FirstOf(some, place, n) \ FirstOf(some \cup {new}, place, n) : x = y
  <1> DEFINE before(b) == {c \in some : Before(place, c, b)}
             beforeNow(b) == {c \in some \cup {new} : Before(place, c, b)}
  <1>1. \A b : /\ IsFiniteSet(before(b)) /\ Cardinality(before(b)) \in Nat
               /\ IsFiniteSet(beforeNow(b)) /\ Cardinality(beforeNow(b)) \in Nat
    <2> TAKE b
    <2>1. before(b) \in SUBSET some /\ beforeNow(b) \in SUBSET (some \cup {new})
      OBVIOUS
    <2>2. IsFiniteSet(some \cup {new})
      BY FS_AddElement
    <2> HIDE DEF before, beforeNow
    <2> QED
      BY <2>1, <2>2, FS_Subset, FS_CardinalityType
  <1>2. \A b : Cardinality(before(b)) =< Cardinality(beforeNow(b))
    <2> TAKE b
    <2>1. before(b) \in SUBSET beforeNow(b)
      OBVIOUS
    <2> HIDE DEF before, beforeNow
    <2> QED
      BY <1>1, <2>1, FS_Subset
  <1>3. \A b : Cardinality(beforeNow(b)) =< Cardinality(before(b)) + 1
    <2> TAKE b
    <2>1. beforeNow(b) \in SUBSET (before(b) \cup {new})
      OBVIOUS
    <2>2. /\ IsFiniteSet(before(b) \cup {new})
          /\ Cardinality(before(b) \cup {new}) \in Nat
          /\ Cardinality(before(b) \cup {new}) =< Cardinality(before(b)) + 1
      <3> HIDE DEF before, beforeNow
      <3>1. CASE new \in before(b)
        <4>1. before(b) \cup {new} = before(b)
          BY <3>1
        <4>2. IsFiniteSet(before(b)) /\ Cardinality(before(b)) \in Nat
          BY <1>1
        <4>3. Cardinality(before(b)) =< Cardinality(before(b)) + 1
          BY <4>2
        <4> QED
          BY <4>1, <4>2, <4>3
      <3>2. CASE new \notin before(b)
        BY <1>1, <3>2, FS_AddElement
      <3> QED
        BY <3>1, <3>2
    <2> HIDE DEF before, beforeNow
    <2>3. Cardinality(beforeNow(b)) =< Cardinality(before(b) \cup {new})
      BY <2>1, <2>2, FS_Subset
    <2>4. Cardinality(beforeNow(b)) \in Nat /\ Cardinality(before(b)) \in Nat
      BY <1>1
    <2> QED
      BY <2>2, <2>3, <2>4
  <1>4. \A x, y \in some : place[x] < place[y] => Cardinality(before(x)) < Cardinality(before(y))
    <2> TAKE x, y \in some
    <2> HAVE place[x] < place[y]
    <2>1. x \notin before(x) /\ before(x) \cup {x} \in SUBSET before(y)
      BY DEF Before
    <2> HIDE DEF before
    <2>2. Cardinality(before(x) \cup {x}) = Cardinality(before(x)) + 1
      BY <1>1, <2>1, FS_AddElement
    <2>3. Cardinality(before(x) \cup {x}) =< Cardinality(before(y))
      BY <1>1, <2>1, FS_Subset
    <2>4. Cardinality(before(x)) \in Nat /\ Cardinality(before(y)) \in Nat
      BY <1>1
    <2> QED
      BY <2>2, <2>3, <2>4
  <1>5. /\ \A b : b \in FirstOf(some, place, n) <=> b \in some /\ Cardinality(before(b)) < n
        /\ \A b : b \in FirstOf(some \cup {new}, place, n) <=>
                    b \in some \cup {new} /\ Cardinality(beforeNow(b)) < n
    BY DEF FirstOf
  <1> HIDE DEF before, beforeNow
  <1>6. FirstOf(some \cup {new}, place, n) \subseteq FirstOf(some, place, n) \cup {new}
    BY <1>1, <1>2, <1>5
  <1>7. ASSUME NEW x \in FirstOf(some, place, n) \ FirstOf(some \cup {new}, place, n)
        PROVE  x \in some /\ Cardinality(before(x)) = n - 1
    <2>1. x \in some /\ Cardinality(before(x)) < n /\ ~(Cardinality(beforeNow(x)) < n)
      BY <1>5
    <2> QED
      BY <1>1, <1>3, <2>1
  <1>8. \A x, y \in FirstOf(some, place, n) \ FirstOf(some \cup {new}, place, n) : x = y
    <2> SUFFICES ASSUME NEW x \in FirstOf(some, place, n) \ FirstOf(some \cup {new}, place, n),
                        NEW y \in FirstOf(some, place, n) \ FirstOf(some \cup {new}, place, n)
                 PROVE  x = y
      OBVIOUS
    <2>1. /\ x \in some /\ Cardinality(before(x)) = n - 1
          /\ y \in some /\ Cardinality(before(y)) = n - 1
      BY <1>7
    <2>2. ~(place[x] < place[y]) /\ ~(place[y] < place[x])
      BY <1>1, <1>4, <2>1
    <2> QED
      BY <2>1, <2>2
  <1> QED
    BY <1>6, <1>8

\* When a bridge comes or goes, whoever looked up n bridges from somewhere on
\* the circle finds the same as before, but for that bridge and at most one
\* more, wherever the circle is cut: _getBridgeKeysAt is consistent hashing.
THEOREM LookupsAreStable ==
  ASSUME NEW ring \in SUBSET Bridge, NEW b \in Bridge, NEW k \in 0..(Clusters + 1),
         NEW pos \in 0..(Circle - 1), NEW n \in Nat
  PROVE  LET without == getBridgeKeysAt(ring, Place[k], pos, n)
             with == getBridgeKeysAt(ring \cup {b}, Place[k], pos, n) IN
         /\ with \subseteq without \cup {b}
         /\ \A x, y \in without \ with : x = y
  <1> DEFINE all == ring \cup {b}
             ahead == [c \in ring |-> Ahead(Place[k], pos, c)]
             aheadOfAll == [c \in all |-> Ahead(Place[k], pos, c)]
  <1>1. IsFiniteSet(ring)
    BY RingAssumption, FS_Subset
  <1>2. \A c \in all : Place[k][c] \in 0..(Circle - 1) /\ Circle \in Nat
    BY RingAssumption, DistributionAssumption
  <1>3. \A c \in all : aheadOfAll[c] \in Int
    BY <1>2 DEF Ahead
  <1>4. \A c, e \in all : aheadOfAll[c] = aheadOfAll[e] => c = e
    <2> TAKE c, e \in all
    <2>1. Place[k][c] = Place[k][e] => c = e
      BY DistributionAssumption
    <2>2. Ahead(Place[k], pos, c) = Ahead(Place[k], pos, e) => Place[k][c] = Place[k][e]
      <3>1. /\ Place[k][c] \in 0..(Circle - 1) /\ Place[k][e] \in 0..(Circle - 1)
            /\ Circle \in Nat
        BY <1>2
      <3> QED
        BY <3>1 DEF Ahead
    <2> QED
      BY <2>1, <2>2
  <1>5. FirstOf(ring, ahead, n) = FirstOf(ring, aheadOfAll, n)
    <2>1. \A c \in ring : ahead[c] = aheadOfAll[c]
      OBVIOUS
    <2> HIDE DEF ahead, aheadOfAll
    <2> QED
      BY <2>1, SamePlaces
  <1>6. /\ getBridgeKeysAt(ring, Place[k], pos, n) = FirstOf(ring, aheadOfAll, n)
        /\ getBridgeKeysAt(all, Place[k], pos, n) = FirstOf(all, aheadOfAll, n)
    BY <1>5 DEF getBridgeKeysAt
  <1>7. /\ FirstOf(all, aheadOfAll, n) \subseteq FirstOf(ring, aheadOfAll, n) \cup {b}
        /\ \A x, y \in FirstOf(ring, aheadOfAll, n) \ FirstOf(all, aheadOfAll, n) : x = y
    <2>1. /\ \A c \in ring : aheadOfAll[c] \in Int
          /\ \A c, e \in ring : aheadOfAll[c] = aheadOfAll[e] => c = e
      BY <1>3, <1>4
    <2> HIDE DEF aheadOfAll
    <2> QED
      BY <1>1, <2>1, OneIsDisplaced
  <1> QED
    BY <1>6, <1>7
-----------------------------------------------------------------------------
(* Requests and the cache of rings *)

\* Whoever asks is answered from what the hashring holds, whichever rings it
\* has on hand.
AnsweredFromLoad ==
  \A d \in Enabled, c \in Client : Serves(d, c) =>
    \A ask \in Asks[d] :
      LET r == RequestOf(d, c, ask) IN
      Ring(d, c, r) = Populated(hashring[d].load, RingKey(d, c, r))

LEMMA AnsweredSo == Spec => []AnsweredFromLoad
  <1>1. IInv => AnsweredFromLoad
    BY RingIsPopulated DEF IInv, AnsweredFromLoad
  <1> QED
    BY <1>1, Invariance, PTL

\* Making a ring for a request leaves the bridges and every other hashring.
LEMMA LoadsAreKept ==
  ASSUME NEW d \in Enabled, NEW c \in Client, NEW ask \in Asks[d], GetBridges(d, c, ask)
  PROVE  /\ Enabled' = Enabled
         /\ \A e \in Enabled : hashring'[e].load = hashring[e].load
  <1>1. PICK new : new = addRing(hashring[d], {RingKey(d, c, RequestOf(d, c, ask))})
    OBVIOUS
  <1>2. new.load = hashring[d].load
    BY <1>1 DEF addRing
  <1>3. hashring' = [hashring EXCEPT ![d] = new]
    BY <1>1 DEF GetBridges
  <1> QED
    BY <1>2, <1>3 DEF Enabled

\* Requests do not disturb each other: whatever ring a request adds to the
\* cache of a FilteredBridgeSplitter, every request, of the same client or of
\* another, of this distributor or another, is answered as before.
THEOREM RequestsDoNotInterfere ==
  Spec =>
    [][(\E d \in Enabled, c \in Client : \E ask \in Asks[d] : GetBridges(d, c, ask)) =>
         \A e \in Enabled, x \in Client, i \in Interval : Serves(e, x) =>
           \A asked \in Asks[e] :
             Answer(e, x, RequestOf(e, x, asked), i)' =
               Answer(e, x, RequestOf(e, x, asked), i)]_vars
  <1>1. ASSUME AnsweredFromLoad, AnsweredFromLoad',
               NEW d \in Enabled, NEW c \in Client, NEW ask \in Asks[d], GetBridges(d, c, ask),
               NEW e \in Enabled, NEW x \in Client, NEW i \in Interval, Serves(e, x),
               NEW asked \in Asks[e]
        PROVE  Answer(e, x, RequestOf(e, x, asked), i)' =
                 Answer(e, x, RequestOf(e, x, asked), i)
    <2>1. Enabled' = Enabled /\ hashring'[e].load = hashring[e].load
      BY <1>1, LoadsAreKept
    <2>2. shares' = shares /\ proxies' = proxies
      BY <1>1 DEF GetBridges, proxyVars
    <2>3. PICK r : r = RequestOf(e, x, asked)
      OBVIOUS
    <2>4. mapSubnetToSubring(e, x)' = mapSubnetToSubring(e, x)
      BY <2>2 DEF mapSubnetToSubring, usingProxy, totalSubrings, getSubnet
    <2>5. /\ RingKey(e, x, r)' = RingKey(e, x, r)
          /\ RingOrder(e, x)' = RingOrder(e, x)
          /\ mapClientToHashringPosition(i, e, x)' = mapClientToHashringPosition(i, e, x)
      BY <2>2, <2>4 DEF RingKey, RingOrder, mapClientToHashringPosition, getSubnet, usingProxy
    <2>6. Ring(e, x, r) = Populated(hashring[e].load, RingKey(e, x, r))
      BY <1>1, <2>3 DEF AnsweredFromLoad
    <2>7. Ring(e, x, r)' = Populated(hashring'[e].load, RingKey(e, x, r)')
      BY <1>1, <2>1, <2>3 DEF AnsweredFromLoad
    <2>8. Ring(e, x, r)' = Ring(e, x, r)
      BY <2>1, <2>5, <2>6, <2>7
    <2>9. Answer(e, x, r, i)' = Answer(e, x, r, i)
      BY <2>1, <2>5, <2>8 DEF Answer
    <2> QED
      BY <2>3, <2>9
  <1>2. AnsweredFromLoad /\ AnsweredFromLoad' =>
          [(\E d \in Enabled, c \in Client : \E ask \in Asks[d] : GetBridges(d, c, ask)) =>
             \A e \in Enabled, x \in Client, i \in Interval : Serves(e, x) =>
               \A asked \in Asks[e] :
                 Answer(e, x, RequestOf(e, x, asked), i)' =
                   Answer(e, x, RequestOf(e, x, asked), i)]_vars
    BY <1>1
  <1> QED
    BY <1>2, AnsweredSo, PTL
=============================================================================
