----------------------------- MODULE FrontendsProofs -----------------------------
(***************************************************************************)
(* Proofs about Frontends: for any clients, mails, and number of requests, *)
(* and captchas of any length of life.                                     *)
(***************************************************************************)
EXTENDS Frontends, ScheduleProofs, FiniteSetTheorems

-----------------------------------------------------------------------------
(* Bags of counters *)

LEMMA EmptyBagHasNothing == DOMAIN EmptyBag = {} /\ IsABag(EmptyBag)
  BY DEF EmptyBag, SetToBag, IsABag

LEMMA BagAfter ==
  ASSUME NEW bag, NEW some, IsABag(bag)
  PROVE  /\ IsABag(bag (+) SetToBag(some))
         /\ DOMAIN (bag (+) SetToBag(some)) = DOMAIN bag \cup some
         /\ \A e \in DOMAIN bag \ some : (bag (+) SetToBag(some))[e] = bag[e]
         /\ \A e \in some \ DOMAIN bag : (bag (+) SetToBag(some))[e] = 1
  <1>1. PICK new : new = bag (+) SetToBag(some)
    OBVIOUS
  <1>2. \A e \in DOMAIN bag : bag[e] \in Nat /\ bag[e] > 0
    BY DEF IsABag
  <1>3. /\ DOMAIN new = DOMAIN bag \cup some
        /\ new = [e \in DOMAIN bag \cup some |->
                    (IF e \in DOMAIN bag THEN bag[e] ELSE 0) + (IF e \in some THEN 1 ELSE 0)]
    BY <1>1 DEF (+), SetToBag
  <1>4. \A e \in DOMAIN new : new[e] \in Nat /\ new[e] > 0
    BY <1>2, <1>3
  <1>5. IsABag(new)
    BY <1>3, <1>4 DEF IsABag
  <1> QED
    BY <1>1, <1>2, <1>3, <1>5

LEMMA SetKeepsBag ==
  ASSUME NEW bag, NEW key, IsABag(bag)
  PROVE  IsABag(set(bag, key)) /\ DOMAIN set(bag, key) = DOMAIN bag \cup {key}
  BY DEF IsABag, set

LEMMA Rounded ==
  ASSUME NEW value \in Nat, value > 0
  PROVE  /\ Sanitized(value) \in Nat /\ Sanitized(value) > 0
         /\ Sanitized(value) - value \in 0..(BinSize - 1)
  <1>1. BinSize \in Nat \ {0}
    BY MetricsAssumption
  <1>2. value % BinSize \in 0..(BinSize - 1)
    BY <1>1, Remainder
  <1> QED
    BY <1>1, <1>2 DEF Sanitized

-----------------------------------------------------------------------------
(* Metrics *)

\* A handler counts keys, and tells things.
LEMMA RecordMetrics ==
  ASSUME MetricInv, NEW keys \in SUBSET (Channel \X {"success", "fail"}), NEW tellings,
         Record(keys, tellings)
  PROVE  MetricInv'
  <1>1. keys \subseteq MetricKey
    BY DEF MetricKey
  <1>2. IsABag(hotMetrics') /\ DOMAIN hotMetrics' \subseteq MetricKey
    BY <1>1, BagAfter DEF MetricInv, Record, inc
  <1>3. IsABag(told')
    BY BagAfter DEF MetricInv, Record
  <1> QED
    BY <1>2, <1>3 DEF MetricInv, Record

LEMMA MetricStutter ==
  ASSUME MetricInv, UNCHANGED metricVars
  PROVE  MetricInv'
  BY DEF MetricInv, metricVars

LEMMA ExportMetrics ==
  ASSUME MetricInv, Export
  PROVE  MetricInv'
  <1>1. CASE StartExport
    BY <1>1, EmptyBagHasNothing DEF MetricInv, StartExport, Rotate
  <1>2. ASSUME NEW keys \in SUBSET Requested, report' = Lines(keys)
        PROVE  IsABag(report') /\ DOMAIN report' \subseteq MetricKey
    <2>1. \A k \in DOMAIN coldMetrics : coldMetrics[k] \in Nat /\ coldMetrics[k] > 0
      BY DEF MetricInv, IsABag
    <2>2. /\ DOMAIN report' = keys /\ keys \subseteq DOMAIN coldMetrics
          /\ \A k \in DOMAIN report' : report'[k] \in Nat /\ report'[k] > 0
          /\ report' = [k \in DOMAIN report' |-> report'[k]]
      BY <1>2, <2>1, Rounded DEF Lines, Requested
    <2> QED
      BY <2>2 DEF IsABag, MetricInv
  <1>3. CASE FinishExport
    BY <1>2, <1>3 DEF MetricInv, FinishExport
  <1>4. CASE FailExport
    <2>1. PICK keys \in SUBSET Requested : report' = Lines(keys)
      BY <1>4 DEF FailExport
    <2>2. IsABag(report') /\ DOMAIN report' \subseteq MetricKey
      BY <1>2, <2>1
    <2> QED
      BY <1>4, <2>2 DEF MetricInv, FailExport
  <1> QED
    BY <1>1, <1>3, <1>4 DEF Export

LEMMA RecordingMetrics ==
  ASSUME MetricInv, RecordBridgesInHashring
  PROVE  MetricInv'
  <1>1. Sizes \in MetricKey
    BY DEF MetricKey
  <1>2. CASE FetchHot
    BY <1>2 DEF MetricInv, FetchHot
  <1>3. CASE SetHot
    <2>1. IsABag(hotMetrics) /\ DOMAIN hotMetrics \subseteq MetricKey
      BY DEF MetricInv
    <2>2. /\ IsABag(set(hotMetrics, Sizes))
          /\ DOMAIN set(hotMetrics, Sizes) = DOMAIN hotMetrics \cup {Sizes}
      BY <2>1, SetKeepsBag
    <2> QED
      BY <1>1, <1>3, <2>1, <2>2 DEF MetricInv, SetHot
  <1>4. CASE SetCold
    <2>1. exporter' \in {exporter, "writing", "disturbed"}
      BY <1>4 DEF SetCold
    <2>2. IsABag(coldMetrics) /\ DOMAIN coldMetrics \subseteq MetricKey
      BY DEF MetricInv
    <2>3. /\ IsABag(set(coldMetrics, Sizes))
          /\ DOMAIN set(coldMetrics, Sizes) = DOMAIN coldMetrics \cup {Sizes}
      BY <2>2, SetKeepsBag
    <2> QED
      BY <1>1, <1>4, <2>1, <2>2, <2>3 DEF MetricInv, SetCold
  <1>5. CASE SetGone
    BY <1>5 DEF MetricInv, SetGone
  <1> QED
    BY <1>2, <1>3, <1>4, <1>5 DEF RecordBridgesInHashring

-----------------------------------------------------------------------------
(* Counting *)

\* A number rounded up to the bin is a multiple of it.
LEMMA RoundedToBin ==
  ASSUME NEW value \in Nat
  PROVE  Sanitized(value) % BinSize = 0
  <1>1. PICK n \in Nat \ {0} : n = BinSize
    BY MetricsAssumption
  <1>2. PICK q, m : q = value \div n /\ m = value % n
    OBVIOUS
  <1>3. q \in Int /\ m \in 0..(n - 1) /\ value = n * q + m
    BY <1>2
  <1>4. Sanitized(value) = n * q \/ Sanitized(value) = n * (q + 1)
    BY <1>1, <1>2, <1>3 DEF Sanitized
  <1>5. (n * q) % n = 0 /\ (n * (q + 1)) % n = 0
    BY <1>3
  <1> QED
    BY <1>1, <1>4, <1>5

\* What is told once more is one more time.
LEMMA OnceMore ==
  ASSUME NEW bag, IsABag(bag), NEW e
  PROVE  /\ Times(bag (+) SetToBag({e})) = Times(bag) \cup {<<e, Copies(e, bag) + 1>>}
         /\ <<e, Copies(e, bag) + 1>> \notin Times(bag)
  <1> DEFINE new == bag (+) SetToBag({e})
  <1>1. \A x \in DOMAIN bag : bag[x] \in Nat /\ bag[x] > 0
    BY DEF IsABag
  <1>2. /\ DOMAIN new = DOMAIN bag \cup {e}
        /\ \A x \in DOMAIN new :
             new[x] = (IF x \in DOMAIN bag THEN bag[x] ELSE 0) + (IF x \in {e} THEN 1 ELSE 0)
    BY DEF (+), SetToBag
  <1> HIDE DEF new
  <1>3. Copies(e, bag) \in Nat
    BY <1>1 DEF Copies
  <1>4. \A x, n : <<x, n>> \in Times(bag) <=> x \in DOMAIN bag /\ n \in 1..bag[x]
    BY DEF Times
  <1>5. \A x, n : <<x, n>> \in Times(new) <=> x \in DOMAIN new /\ n \in 1..new[x]
    BY DEF Times
  <1>6. \A t \in Times(bag) \cup Times(new) : t = <<t[1], t[2]>>
    BY DEF Times
  <1>7. \A x \in DOMAIN bag \ {e} : new[x] = bag[x]
    BY <1>1, <1>2
  <1>8. new[e] = Copies(e, bag) + 1
    BY <1>1, <1>2 DEF Copies
  <1>9. ASSUME NEW x, NEW n
        PROVE  <<x, n>> \in Times(new) <=> <<x, n>> \in Times(bag) \/ (x = e /\ n = Copies(e, bag) + 1)
    <2>1. CASE x # e
      BY <1>2, <1>4, <1>5, <1>7, <2>1
    <2>2. CASE x = e /\ e \in DOMAIN bag
      <3>1. Copies(e, bag) = bag[e] /\ bag[e] \in Nat
        BY <1>1, <2>2 DEF Copies
      <3>2. new[e] = bag[e] + 1 /\ e \in DOMAIN new
        BY <1>2, <1>8, <2>2, <3>1
      <3>3. n \in 1..(bag[e] + 1) <=> n \in 1..bag[e] \/ n = bag[e] + 1
        BY <3>1
      <3>4. <<e, n>> \in Times(new) <=> n \in 1..new[e]
        BY <1>5, <3>2
      <3>5. <<e, n>> \in Times(bag) <=> n \in 1..bag[e]
        BY <1>4, <2>2
      <3> QED
        BY <2>2, <3>1, <3>2, <3>3, <3>4, <3>5
    <2>3. CASE x = e /\ e \notin DOMAIN bag
      BY <1>2, <1>4, <1>5, <1>8, <2>3 DEF Copies
    <2> QED
      BY <2>1, <2>2, <2>3
  <1>10. <<e, Copies(e, bag) + 1>> \notin Times(bag)
    BY <1>1, <1>3, <1>4 DEF Copies
  <1>11. \A t : t \in Times(new) <=> t \in Times(bag) \cup {<<e, Copies(e, bag) + 1>>}
    BY <1>6, <1>9
  <1> QED
    BY <1>10, <1>11 DEF new

LEMMA StillFinitelyTold ==
  ASSUME NEW bag, IsABag(bag), IsFiniteSet(Times(bag)), NEW e
  PROVE  IsFiniteSet(Times(bag (+) SetToBag({e})))
  <1>1. Times(bag (+) SetToBag({e})) = Times(bag) \cup {<<e, Copies(e, bag) + 1>>}
    BY ONLY OnceMore, IsABag(bag)
  <1> QED
    BY <1>1, FS_AddElement

OneMore(m, n) == m = n + 1

\* A client is told something: one more telling of that, and of nothing else.
LEMMA ToldOnceMore ==
  ASSUME NEW bag, IsABag(bag), IsFiniteSet(Times(bag)), NEW ch, NEW c, NEW what,
         NEW whats, what \in whats
  PROVE  OneMore(Tellings(bag (+) SetToBag({<<ch, c, what>>}), ch, whats), Tellings(bag, ch, whats))
  <1> DEFINE e == <<ch, c, what>>
             t == <<e, Copies(e, bag) + 1>>
             new == bag (+) SetToBag({e})
             before == {x \in Times(bag) : x[1][1] = ch /\ x[1][3] \in whats}
             after == {x \in Times(new) : x[1][1] = ch /\ x[1][3] \in whats}
  <1>1. Times(new) = Times(bag) \cup {t} /\ t \notin Times(bag)
    BY OnceMore
  <1>2. t[1][1] = ch /\ t[1][3] = what
    OBVIOUS
  <1>3. after = before \cup {t}
    BY <1>1, <1>2
  <1>4. IsFiniteSet(before) /\ t \notin before
    <2>1. before \in SUBSET Times(bag)
      OBVIOUS
    <2> QED
      BY <1>1, <2>1, FS_Subset
  <1>5. Cardinality(after) = Cardinality(before) + 1
    <2> HIDE DEF after, before, t
    <2> QED
      BY <1>3, <1>4, FS_AddElement
  <1> QED
    BY <1>5 DEF Tellings, OneMore

LEMMA NotToldOnceMore ==
  ASSUME NEW bag, IsABag(bag), NEW ch, NEW c, NEW what,
         NEW o, NEW whats, ~(o = ch /\ what \in whats)
  PROVE  Tellings(bag (+) SetToBag({<<ch, c, what>>}), o, whats) = Tellings(bag, o, whats)
  <1> DEFINE e == <<ch, c, what>>
             t == <<e, Copies(e, bag) + 1>>
             new == bag (+) SetToBag({e})
  <1>1. Times(new) = Times(bag) \cup {t}
    BY ONLY OnceMore, IsABag(bag)
  <1>2. t[1][1] = ch /\ t[1][3] = what
    OBVIOUS
  <1>3. {x \in Times(new) : x[1][1] = o /\ x[1][3] \in whats}
          = {x \in Times(bag) : x[1][1] = o /\ x[1][3] \in whats}
    BY <1>1, <1>2
  <1> QED
    BY <1>3 DEF Tellings

\* Are keys and tellings those of one request, or of one that is not counted?
Matched(keys, tellings) ==
  \/ keys = {} /\ tellings = {}
  \/ \E ch \in Channel, success \in {"success", "fail"} : \E c, what :
       /\ keys = {<<ch, success>>} /\ tellings = {<<ch, c, what>>}
       /\ what \in Whats(ch, success)

LEMMA NothingAdded ==
  ASSUME NEW bag, IsABag(bag)
  PROVE  bag (+) SetToBag({}) = bag
  <1>1. bag = [e \in DOMAIN bag |-> bag[e]] /\ \A e \in DOMAIN bag : bag[e] \in Nat
    BY DEF IsABag
  <1> QED
    BY <1>1 DEF (+), SetToBag

\* The counters agree with what is told, after each request.
LEMMA RecordCounts ==
  ASSUME IsABag(hotMetrics), IsABag(told), IsFiniteSet(Times(told)), Counts(hotMetrics, told),
         NEW keys, NEW tellings, Matched(keys, tellings), Record(keys, tellings)
  PROVE  IsFiniteSet(Times(told')) /\ Counts(hotMetrics', told')
  <1>1. hotMetrics' = hotMetrics (+) SetToBag(keys) /\ told' = told (+) SetToBag(tellings)
    BY DEF Record, inc
  <1>2. CASE keys = {} /\ tellings = {}
    BY <1>1, <1>2, NothingAdded
  <1>3. ASSUME NEW ch \in Channel, NEW success \in {"success", "fail"}, NEW c, NEW what,
               keys = {<<ch, success>>}, tellings = {<<ch, c, what>>},
               what \in Whats(ch, success)
        PROVE  IsFiniteSet(Times(told')) /\ Counts(hotMetrics', told')
    <2>1. told' = told (+) SetToBag({<<ch, c, what>>})
      BY <1>1, <1>3
    <2>2. \A e \in DOMAIN hotMetrics : hotMetrics[e] \in Nat
      BY DEF IsABag
    <2>3. \A e : Copies(e, hotMetrics') =
                   IF e = <<ch, success>> THEN Copies(e, hotMetrics) + 1 ELSE Copies(e, hotMetrics)
      BY <1>1, <1>3, <2>2 DEF (+), SetToBag, Copies
    <2>4. \A o \in Channel, s \in {"success", "fail"} :
            o = ch /\ what \in Whats(o, s) <=> <<o, s>> = <<ch, success>>
      BY <1>3 DEF Whats
    <2>5. ASSUME NEW o \in Channel, NEW s \in {"success", "fail"}
          PROVE  Copies(<<o, s>>, hotMetrics') = Tellings(told', o, Whats(o, s))
      <3>1. Copies(<<o, s>>, hotMetrics) = Tellings(told, o, Whats(o, s))
        BY <2>5 DEF Counts
      <3>2. CASE o = ch /\ what \in Whats(o, s)
        <4>1. Tellings(told', o, Whats(o, s)) = Tellings(told, o, Whats(o, s)) + 1
          <5>1. IsABag(told) /\ IsFiniteSet(Times(told))
            OBVIOUS
          <5>2. what \in Whats(o, s)
            BY <3>2
          <5>3. OneMore(Tellings(told (+) SetToBag({<<ch, c, what>>}), ch, Whats(o, s)),
                        Tellings(told, ch, Whats(o, s)))
            BY <5>1, <5>2, ToldOnceMore
          <5> QED
            BY <2>1, <3>2, <5>3 DEF OneMore
        <4>2. <<o, s>> = <<ch, success>>
          BY <2>4, <2>5, <3>2
        <4>3. Copies(<<o, s>>, hotMetrics') = Copies(<<o, s>>, hotMetrics) + 1
          BY <2>3, <4>2
        <4> QED
          BY <3>1, <4>1, <4>3
      <3>3. CASE ~(o = ch /\ what \in Whats(o, s))
        <4>1. Tellings(told', o, Whats(o, s)) = Tellings(told, o, Whats(o, s))
          <5>1. IsABag(told)
            OBVIOUS
          <5>2. Tellings(told (+) SetToBag({<<ch, c, what>>}), o, Whats(o, s))
                  = Tellings(told, o, Whats(o, s))
            BY <3>3, <5>1, NotToldOnceMore
          <5> QED
            BY <2>1, <5>2
        <4>2. <<o, s>> # <<ch, success>>
          BY <2>4, <2>5, <3>3
        <4>3. Copies(<<o, s>>, hotMetrics') = Copies(<<o, s>>, hotMetrics)
          BY <2>3, <4>2
        <4> QED
          BY <3>1, <4>1, <4>3
      <3> QED
        BY <3>2, <3>3
    <2>6. IsFiniteSet(Times(told'))
      BY <2>1, StillFinitelyTold
    <2> QED
      BY <2>5, <2>6 DEF Counts
  <1> QED
    BY <1>2, <1>3 DEF Matched

LEMMA Uncounted ==
  /\ Times(EmptyBag) = {} /\ IsFiniteSet(Times(EmptyBag))
  /\ \A ch, whats : Tellings(EmptyBag, ch, whats) = 0
  /\ Counts(EmptyBag, EmptyBag)
  <1>1. Times(EmptyBag) = {}
    BY EmptyBagHasNothing DEF Times
  <1>2. \A ch, whats : Tellings(EmptyBag, ch, whats) = 0
    <2>1. \A ch, whats : {t \in Times(EmptyBag) : t[1][1] = ch /\ t[1][3] \in whats} = {}
      BY <1>1
    <2> QED
      BY <2>1, FS_EmptySet DEF Tellings
  <1>3. \A e : Copies(e, EmptyBag) = 0
    BY EmptyBagHasNothing DEF Copies
  <1> QED
    BY <1>1, <1>2, <1>3, FS_EmptySet DEF Counts

\* The key that a reload sets is not among the counted.
LEMMA SetCounts ==
  ASSUME NEW metrics, NEW bag, Counts(metrics, bag)
  PROVE  Counts(set(metrics, Sizes), bag)
  <1>1. \A e \in Channel \X {"success", "fail"} : Copies(e, set(metrics, Sizes)) = Copies(e, metrics)
    BY MetricsAssumption DEF Copies, set
  <1> QED
    BY <1>1 DEF Counts

LEMMA CountStutter ==
  ASSUME CountInv, UNCHANGED metricVars
  PROVE  CountInv'
  <1>1. /\ hotMetrics' = hotMetrics /\ coldMetrics' = coldMetrics /\ told' = told
        /\ toldBefore' = toldBefore /\ exporter' = exporter /\ report' = report
    BY DEF metricVars
  <1> QED
    BY <1>1 DEF CountInv, CountedOnce

LEMMA ExportCounts ==
  ASSUME MetricInv, CountInv, Export
  PROVE  CountInv'
  <1>1. CASE StartExport
    <2>1. /\ hotMetrics' = EmptyBag /\ told' = EmptyBag /\ report' = EmptyBag
          /\ coldMetrics' = hotMetrics /\ toldBefore' = told
      BY <1>1 DEF StartExport, Rotate
    <2>2. Counts(hotMetrics', told') /\ IsFiniteSet(Times(told'))
      BY <2>1, Uncounted
    <2>3. Counts(coldMetrics', toldBefore') /\ IsFiniteSet(Times(toldBefore'))
      BY <2>1 DEF CountInv, CountedOnce
    <2> QED
      BY <2>1, <2>2, <2>3, EmptyBagHasNothing DEF CountInv, CountedOnce
  <1>2. CASE FinishExport \/ FailExport
    <2>1. /\ Counts(coldMetrics, toldBefore) /\ UNCHANGED <<hotMetrics, told, toldBefore>>
          /\ exporter' \in {"idle", "stopped"}
      BY <1>2 DEF FinishExport, FailExport, CountInv
    <2>2. \A k \in DOMAIN coldMetrics : coldMetrics[k] \in Nat /\ coldMetrics[k] > 0
      BY DEF MetricInv, IsABag
    <2>3. PICK keys \in SUBSET Requested : report' = Lines(keys)
      BY <1>2 DEF FinishExport, FailExport
    <2>4. /\ DOMAIN report' \subseteq DOMAIN coldMetrics
          /\ \A k \in DOMAIN report' : report'[k] = Sanitized(coldMetrics[k])
      BY <2>3 DEF Lines, Requested
    <2>5. ASSUME NEW ch \in Channel, NEW success \in {"success", "fail"},
                 <<ch, success>> \in DOMAIN report'
          PROVE  /\ report'[<<ch, success>>] % BinSize = 0
                 /\ report'[<<ch, success>>] - Tellings(toldBefore, ch, Whats(ch, success))
                      \in 0..(BinSize - 1)
      <3>1. PICK k : k = <<ch, success>>
        OBVIOUS
      <3>2. k \in DOMAIN coldMetrics /\ report'[k] = Sanitized(coldMetrics[k])
        BY <2>4, <2>5, <3>1
      <3>3. Tellings(toldBefore, ch, Whats(ch, success)) = coldMetrics[k]
        BY <2>1, <3>1, <3>2 DEF Counts, Copies
      <3> QED
        BY <2>2, <3>1, <3>2, <3>3, Rounded, RoundedToBin
    <2> QED
      BY <2>1, <2>5 DEF CountInv, CountedOnce
  <1> QED
    BY <1>1, <1>2 DEF Export

LEMMA RecordingCounts ==
  ASSUME CountInv, RecordBridgesInHashring
  PROVE  CountInv'
  <1>1. CASE FetchHot
    BY <1>1 DEF CountInv, CountedOnce, FetchHot
  <1>2. CASE SetHot
    BY <1>2, SetCounts DEF CountInv, CountedOnce, SetHot
  <1>3. CASE SetCold
    <2>1. exporter' \in {"writing", "disturbed"} => exporter \in {"writing", "disturbed"}
      BY <1>3 DEF SetCold
    <2> QED
      BY <1>3, <2>1, SetCounts DEF CountInv, CountedOnce, SetCold
  <1>4. CASE SetGone
    BY <1>4 DEF CountInv, CountedOnce, SetGone
  <1> QED
    BY <1>1, <1>2, <1>3, <1>4 DEF RecordBridgesInHashring

LEMMA RequestCounts ==
  ASSUME MetricInv, CountInv, NEW keys, NEW tellings,
         Matched(keys, tellings), Record(keys, tellings)
  PROVE  CountInv'
  <1>1. IsABag(hotMetrics) /\ IsABag(told)
    BY DEF MetricInv
  <1>2. IsFiniteSet(Times(told')) /\ Counts(hotMetrics', told')
    BY <1>1, RecordCounts DEF CountInv, CountedOnce
  <1> QED
    BY <1>2 DEF CountInv, CountedOnce, Record

-----------------------------------------------------------------------------
(* Captchas *)

\* May bridges be shown to this client by this server?
Allowed(ch, c) ==
  \/ ch = HTTPS /\ protection = "recaptcha"
  \/ \E challenge \in challenges :
       challenge.to = <<ch, c>> /\ now - challenge.at < CaptchaLife

\* Does a handler show bridges only to whom it may?
Guarded(tellings) ==
  \A ch \in Web, c \in ClientIP, what \in {"bridges", "empty"} :
    <<ch, c, what>> \in tellings => Allowed(ch, c)

Recorded ==
  \/ UNCHANGED metricVars
  \/ \E keys \in SUBSET (Channel \X {"success", "fail"}) :
       \E tellings :
         Record(keys, tellings) /\ Guarded(tellings) /\ Matched(keys, tellings)

LEMMA RecordedMetrics ==
  ASSUME MetricInv, CountInv, Recorded
  PROVE  MetricInv' /\ CountInv'
  BY RecordMetrics, MetricStutter, RequestCounts, CountStutter DEF Recorded

\* A solution that is found valid is of a captcha that was made for the client,
\* by the server, and not long ago.
LEMMA Solved ==
  ASSUME WebInv, NEW ch, NEW c, NEW form \in Form,
         check(form.challenge, form.solution, hmacKey(ch, c)) = "valid"
  PROVE  Allowed(ch, c)
  <1>1. PICK challenge : challenge = form.challenge
    OBVIOUS
  <1>2. challenge.key = <<ch, c>> /\ ~expired(challenge)
    BY <1>1 DEF check, hmacKey
  <1>3. challenge \in challenges \cup {Forged}
    BY <1>1 DEF Form
  <1>4. challenge # Forged
    BY <1>2 DEF Forged
  <1>5. challenge \in challenges /\ challenge.to = <<ch, c>> /\ challenge.at \in Nat
    BY <1>2, <1>3, <1>4 DEF WebInv
  <1>6. /\ CaptchaLife \in Nat \ {0} /\ now \in Nat /\ challenge.at \in Nat
    BY <1>5, WebAssumption DEF WebInv
  <1> DEFINE at == challenge.at
             next == nextIntervalStarts(CaptchaLife, AtSecond(at))
  <1>7. next \in Int /\ next =< at + CaptchaLife
    <2>1. Ceil(AtSecond(at)) = at /\ next =< at + CaptchaLife
      BY <1>6, SecondIsInInterval
    <2>2. at % CaptchaLife \in 0..(CaptchaLife - 1)
      BY <1>6, Remainder
    <2>3. next = at - (at % CaptchaLife) + CaptchaLife
      BY <2>1 DEF nextIntervalStarts, intervalStart
    <2> HIDE DEF next, at
    <2> QED BY <1>6, <2>1, <2>2, <2>3 DEF at
  <1>8. now - at < CaptchaLife
    <2>1. ~(now >= next)
      BY <1>2 DEF expired
    <2> HIDE DEF next
    <2> QED BY <1>6, <1>7, <2>1
  <1> QED
    BY <1>5, <1>8 DEF Allowed

LEMMA CountedKeys ==
  ASSUME NEW form, NEW ch \in Web, NEW success \in {"success", "fail"}
  PROVE  Counted(form, ch, success) \in SUBSET (Channel \X {"success", "fail"})
  BY DEF Counted, Channel

LEMMA ToldOnly ==
  ASSUME NEW form, NEW ch, NEW c, NEW what, NEW x \in Told(form, ch, c, what)
  PROVE  x = <<ch, c, what>>
  BY DEF Told

LEMMA MatchedKeys ==
  ASSUME NEW form, NEW ch \in Web, NEW c, NEW success \in {"success", "fail"},
         NEW what \in Whats(ch, success)
  PROVE  Matched(Counted(form, ch, success), Told(form, ch, c, what))
  <1>1. ch \in Channel
    BY DEF Channel
  <1> QED
    BY <1>1 DEF Matched, Counted, Told

LEMMA WebWhats ==
  ASSUME NEW ch \in Web
  PROVE  Whats(ch, "success") = {"bridges", "empty"} /\ Whats(ch, "fail") = {"refused"}
  BY MetricsAssumption DEF Whats

LEMMA Shown ==
  ASSUME NEW form, NEW ch \in Web, NEW c, NEW what \in {"bridges", "empty"}, Allowed(ch, c),
         Record(Counted(form, ch, "success"), Told(form, ch, c, what))
  PROVE  Recorded
  <1>1. Guarded(Told(form, ch, c, what))
    BY ToldOnly DEF Guarded
  <1>2. Matched(Counted(form, ch, "success"), Told(form, ch, c, what))
    BY MatchedKeys, WebWhats
  <1> QED
    BY <1>1, <1>2, CountedKeys DEF Recorded

LEMMA Refused ==
  ASSUME NEW form, NEW ch \in Web, NEW c, Refuse(ch, c, form)
  PROVE  Recorded
  <1>1. Guarded(Told(form, ch, c, "refused"))
    BY ToldOnly DEF Guarded
  <1>2. Matched(Counted(form, ch, "fail"), Told(form, ch, c, "refused"))
    BY MatchedKeys, WebWhats
  <1> QED
    BY <1>1, <1>2, CountedKeys DEF Recorded, Refuse

LEMMA PageShows ==
  ASSUME NEW c, NEW form
  PROVE  Page(c, form) \in {"bridges", "empty"}
  BY DEF Page

LEMMA Posted ==
  ASSUME WebInv, NEW ch \in Web, NEW c \in ClientIP, NEW form \in Form, Post(ch, c, form)
  PROVE  Recorded
  <1>1. HTTPS \in Web /\ Moat \in Web /\ (ch = HTTPS \/ ch = Moat)
    BY WebAssumption
  <1>2. CASE UNCHANGED metricVars
    BY <1>2 DEF Recorded
  <1>3. CASE ch = Moat /\ failureResponse(c, form)
    BY <1>1, <1>3, Refused DEF failureResponse
  <1>4. CASE /\ ch = Moat /\ checkMoatSolution(c, form)
             /\ Record(Counted(form, Moat, "success"), Told(form, Moat, c, MoatAnswer(c, form)))
    <2>1. Allowed(Moat, c)
      BY <1>4, Solved DEF checkMoatSolution
    <2>2. MoatAnswer(c, form) \in {"bridges", "empty"}
      BY DEF MoatAnswer
    <2> QED
      BY <1>1, <1>4, <2>1, <2>2, Shown
  <1>5. CASE checkSolution(c, form) /\ ShowPage(c, form)
    <2>1. Allowed(HTTPS, c)
      BY <1>5, Solved DEF checkSolution
    <2> QED
      BY <1>1, <1>5, <2>1, PageShows, Shown DEF ShowPage
  <1>6. CASE Refuse(HTTPS, c, form)
    BY <1>1, <1>6, Refused
  <1>7. CASE ch = Moat
    <2>1. PostMoat(c, form)
      BY <1>7 DEF Post
    <2> QED
      BY <1>2, <1>3, <1>4, <1>7, <2>1 DEF PostMoat
  <1>8. CASE ch # Moat
    <2>1. PostGimp(c, form) \/ PostReCaptcha(c, form)
      BY <1>8 DEF Post
    <2> QED
      BY <1>2, <1>5, <1>6, <2>1 DEF PostGimp, PostReCaptcha
  <1> QED
    BY <1>7, <1>8

LEMMA AnsweredLate ==
  ASSUME WebInv, NEW p, AnswerLate(p)
  PROVE  Recorded
  <1>1. HTTPS \in Web /\ p \in pending
    BY WebAssumption DEF AnswerLate
  <1>2. CASE p.form = Malicious
    BY <1>2 DEF AnswerLate, Recorded
  <1>3. CASE p.form # Malicious
    <2>1. Allowed(HTTPS, p.client)
      BY <1>1, <1>3 DEF WebInv, Allowed
    <2>2. CASE ShowPage(p.client, p.form)
      BY <1>1, <2>1, <2>2, PageShows, Shown DEF ShowPage
    <2>3. CASE Refuse(HTTPS, p.client, p.form)
      BY <1>1, <2>3, Refused
    <2> QED
      BY <1>3, <2>2, <2>3 DEF AnswerLate
  <1> QED
    BY <1>2, <1>3

-----------------------------------------------------------------------------
(* The web servers' state *)

LEMMA WebStutter ==
  ASSUME WebInv, UNCHANGED webVars
  PROVE  WebInv'
  BY DEF WebInv, webVars

LEMMA FetchWeb ==
  ASSUME WebInv, NEW ch, NEW c, Fetch(ch, c)
  PROVE  WebInv'
  <1>1. challenges' = challenges \cup {createChallenge(Moat, c)}
        \/ challenges' = challenges \cup {createChallenge(HTTPS, c)}
    BY DEF Fetch, getMoatCaptcha, getCaptchaImage
  <1>2. \A challenge \in challenges' : challenge.key = challenge.to /\ challenge.at \in Nat
    BY <1>1 DEF WebInv, createChallenge, hmacKey
  <1>3. requests' = requests + 1 /\ UNCHANGED <<now, protection, pending>>
    BY DEF Fetch
  <1> QED
    BY <1>2, <1>3 DEF WebInv

LEMMA PostWeb ==
  ASSUME WebInv, NEW ch, NEW c, NEW form, Post(ch, c, form)
  PROVE  WebInv'
  <1>1. requests' = requests + 1 /\ UNCHANGED <<now, protection, challenges>>
    BY DEF Post
  <1>2. \/ pending' = pending
        \/ pending' = pending \cup {Waiting(c, Malicious)}
        \/ pending' = pending \cup {Waiting(c, form)} /\ protection = "recaptcha"
    BY DEF Post, PostMoat, PostGimp, PostReCaptcha
  <1>3. PICK f : /\ pending' \subseteq pending \cup {Waiting(c, f)}
                 /\ f = Malicious \/ protection = "recaptcha"
    BY <1>2
  <1>4. Waiting(c, f).id = requests + 1 /\ Waiting(c, f).form = f
    BY DEF Waiting
  <1> QED
    BY <1>1, <1>3, <1>4 DEF WebInv

LEMMA AnswerWeb ==
  ASSUME WebInv, NEW p, AnswerLate(p)
  PROVE  WebInv'
  BY DEF WebInv, AnswerLate

-----------------------------------------------------------------------------
(* Mail *)

LEMMA MailStutter ==
  ASSUME MailInv, UNCHANGED emailVars
  PROVE  MailInv'
  BY DEF MailInv, Due, emailVars, canonicalizeEmailDomain

LEMMA MailDelivered ==
  ASSUME MailInv, delivery.left > 0
  PROVE  delivery.mail \in Mail /\ delivery.left \in 1..MaxRecipients
  BY DEF MailInv, NoDelivery

\* What is left of a delivery when a message of it was dealt with.
LEMMA MailTaken ==
  ASSUME MailInv, eomReceived
  PROVE  delivery' \in {NoDelivery} \cup [mail : Mail, left : 1..MaxRecipients]
  <1>1. delivery \in [mail : Mail, left : 1..MaxRecipients]
    BY DEF MailInv, eomReceived, NoDelivery
  <1>2. delivery.left \in 1..MaxRecipients /\ MaxRecipients \in Nat
    BY <1>1, EmailServerAssumption
  <1> QED
    BY <1>1, <1>2 DEF eomReceived

LEMMA Replied ==
  ASSUME MailInv, IsABag(outbox), NEW mail \in Mail, NEW client,
         client = getMailTo(mail.sender), client # None, runChecks(mail, client),
         reply(mail, client)
  PROVE  /\ known' \in [Mailbox -> {"nothing", "answered", "warned"}]
         /\ IsABag(outbox')
         /\ \A e \in DOMAIN outbox' :
              /\ e.from \in Sender /\ e.to = getMailTo(e.from) /\ e.to \in Mailbox \ Near
              /\ e.to \notin Whitelist => Due(e)'
  <1>1. mail.sender \in Sender /\ client \in Mailbox \ Near
    BY DEF Mail, Mailbox, runChecks
  <1>2. PICK body : body = createResponseBody(client, known[client])
    OBVIOUS
  <1>3. known[client] \in {"nothing", "answered", "warned"}
    BY <1>1 DEF MailInv
  <1>4. body \in {"answer", "warning", "nothing"}
    BY <1>2 DEF createResponseBody
  <1>5. /\ known' = [known EXCEPT ![client] = Learned(body)]
        /\ Learned(body) = IF body = "answer" THEN "answered" ELSE "warned"
    BY <1>2 DEF reply, Learned
  <1>6. known' \in [Mailbox -> {"nothing", "answered", "warned"}]
    BY <1>5 DEF MailInv
  <1>7. PICK letter : letter = [from |-> mail.sender, dkim |-> mail.dkim,
                                to |-> client, body |-> body]
    OBVIOUS
  <1>8. /\ letter.from = mail.sender /\ letter.dkim = mail.dkim
        /\ letter.to = client /\ letter.body = body
    BY <1>7
  <1>9. PICK letters : letters = IF body = "nothing" THEN {} ELSE {letter}
    OBVIOUS
  <1>10. outbox' = outbox (+) SetToBag(letters)
    BY <1>2, <1>7, <1>9 DEF reply, Letters
  <1>11. /\ IsABag(outbox') /\ DOMAIN outbox' = DOMAIN outbox \cup letters
         /\ \A e \in DOMAIN outbox \ letters : outbox'[e] = outbox[e]
         /\ \A e \in letters \ DOMAIN outbox : outbox'[e] = 1
    <2>1. PICK new : new = outbox (+) SetToBag(letters)
      OBVIOUS
    <2>2. IsABag(new) /\ DOMAIN new = DOMAIN outbox \cup letters
      BY <2>1, BagAfter
    <2>3. \A e \in DOMAIN outbox \ letters : new[e] = outbox[e]
      BY <2>1, BagAfter
    <2>4. \A e \in letters \ DOMAIN outbox : new[e] = 1
      BY <2>1 DEF (+), SetToBag
    <2> QED
      BY <1>10, <2>1, <2>2, <2>3, <2>4
  <1>12. ASSUME NEW e \in DOMAIN outbox', e.to \notin Whitelist
         PROVE  Due(e)'
    <2>1. CASE e.to # client
      <3>1. e \in DOMAIN outbox /\ e \notin letters
        BY <1>8, <1>9, <1>11, <2>1
      <3>2. Due(e) /\ e.to \in Mailbox
        BY <1>12, <3>1 DEF MailInv
      <3>3. known'[e.to] = known[e.to] /\ outbox'[e] = outbox[e]
        BY <1>5, <1>11, <2>1, <3>1, <3>2 DEF MailInv
      <3>4. \A o \in DOMAIN outbox' : o.to = e.to => o \in DOMAIN outbox
        BY <1>8, <1>9, <1>11, <2>1
      <3> QED
        BY <3>2, <3>3, <3>4 DEF Due, canonicalizeEmailDomain
    <2>2. CASE e.to = client
      <3>1. client \notin Whitelist
        BY <1>12, <2>2
      <3>2. \A o \in DOMAIN outbox : o.to = client => Due(o)
        BY <3>1 DEF MailInv
      <3>3. CASE known[client] = "nothing"
        <4>1. body = "answer" /\ letters = {letter}
          BY <1>2, <1>9, <3>3 DEF createResponseBody
        <4>2. \A o \in DOMAIN outbox : o.to # client
          BY <3>2, <3>3 DEF Due
        <4>3. e = letter /\ outbox'[e] = 1 /\ \A o \in DOMAIN outbox' : o.to = e.to => o = e
          BY <1>8, <1>11, <2>2, <4>1, <4>2
        <4>4. known'[client] = "answered"
          BY <1>1, <1>5, <4>1 DEF MailInv
        <4>5. /\ client \notin Blacklist
              /\ canonicalizeEmailDomain(client.domain) \in SignedDomain => e.dkim
          BY <1>8, <3>1, <4>3 DEF runChecks, checkDKIM
        <4> QED
          BY <1>8, <2>2, <4>1, <4>3, <4>4, <4>5 DEF Due, canonicalizeEmailDomain
      <3>4. CASE known[client] = "answered"
        <4>1. body = "warning" /\ letters = {letter}
          BY <1>2, <1>9, <3>1, <3>4 DEF createResponseBody
        <4>2. \A o \in DOMAIN outbox : o.to = client => o.body = "answer"
          BY <3>2, <3>4 DEF Due
        <4>3. known'[client] = "warned"
          BY <1>1, <1>5, <4>1 DEF MailInv
        <4>4. CASE e = letter
          <5>1. outbox'[e] = 1 /\ \A o \in DOMAIN outbox' : o.to = e.to /\ o.body = e.body => o = e
            BY <1>8, <1>11, <4>1, <4>2, <4>4
          <5>2. /\ client \notin Blacklist
                /\ canonicalizeEmailDomain(client.domain) \in SignedDomain => e.dkim
            BY <1>8, <3>1, <4>4 DEF runChecks, checkDKIM
          <5> QED
            BY <1>8, <4>1, <4>3, <4>4, <5>1, <5>2 DEF Due, canonicalizeEmailDomain
        <4>5. CASE e # letter
          <5>1. e \in DOMAIN outbox /\ e \notin letters
            BY <1>11, <4>1, <4>5
          <5>2. Due(e) /\ e.body = "answer" /\ outbox'[e] = outbox[e]
            BY <1>11, <2>2, <3>2, <4>2, <5>1
          <5>3. \A o \in DOMAIN outbox' : o.to = e.to /\ o.body = e.body => o \in DOMAIN outbox
            BY <1>8, <1>11, <4>1, <5>2
          <5> QED
            BY <2>2, <4>3, <5>2, <5>3 DEF Due, canonicalizeEmailDomain
        <4> QED
          BY <4>4, <4>5
      <3>5. CASE known[client] = "warned"
        <4>1. body = "nothing" /\ letters = {}
          BY <1>2, <1>9, <3>1, <3>5 DEF createResponseBody
        <4>2. /\ DOMAIN outbox' = DOMAIN outbox /\ outbox'[e] = outbox[e]
              /\ known'[client] = "warned"
          BY <1>1, <1>5, <1>11, <1>12, <4>1 DEF MailInv
        <4>3. Due(e)
          BY <1>12, <2>2, <3>2, <4>2
        <4> QED
          BY <2>2, <3>5, <4>2, <4>3 DEF Due, canonicalizeEmailDomain
      <3> QED
        BY <1>3, <3>3, <3>4, <3>5
    <2> QED
      BY <2>1, <2>2
  <1>13. ASSUME NEW e \in DOMAIN outbox'
         PROVE  e.from \in Sender /\ e.to = getMailTo(e.from) /\ e.to \in Mailbox \ Near
    BY <1>1, <1>8, <1>9, <1>11 DEF MailInv
  <1> QED
    BY <1>6, <1>11, <1>12, <1>13

LEMMA RecordedReply ==
  ASSUME NEW mail, NEW client, reply(mail, client)
  PROVE  Recorded
  <1>1. PICK body : body = createResponseBody(client, known[client])
    OBVIOUS
  <1>2. PICK tellings : tellings = IF mail.counted THEN {<<Email, client, body>>} ELSE {}
    OBVIOUS
  <1>3. MessageKeys(mail, body) \in SUBSET (Channel \X {"success", "fail"})
    BY DEF MessageKeys, Channel
  <1>4. Guarded(tellings)
    BY <1>2, MetricsAssumption DEF Guarded
  <1>5. Record(MessageKeys(mail, body), tellings)
    BY <1>1, <1>2 DEF reply
  <1>6. Matched(MessageKeys(mail, body), tellings)
    <2>1. body \in Whats(Email, IF body = "answer" THEN "success" ELSE "fail")
      BY <1>1 DEF createResponseBody, Whats
    <2>2. Email \in Channel
      BY DEF Channel
    <2>3. PICK success \in {"success", "fail"} :
            success = IF body = "answer" THEN "success" ELSE "fail"
      OBVIOUS
    <2> QED
      BY <1>2, <2>1, <2>2, <2>3 DEF Matched, MessageKeys
  <1> QED
    BY <1>3, <1>4, <1>5, <1>6 DEF Recorded

LEMMA MessageMail ==
  ASSUME MailInv, eomReceived
  PROVE  MailInv' /\ Recorded
  <1>1. PICK mail : mail = delivery.mail
    OBVIOUS
  <1>2. PICK client : client = getMailTo(mail.sender)
    OBVIOUS
  <1>3. mail \in Mail
    BY <1>1, MailDelivered DEF eomReceived
  <1>4. CASE client # None /\ runChecks(mail, client)
    <2>1. reply(mail, client)
      BY <1>1, <1>2, <1>4 DEF eomReceived
    <2>2. IsABag(outbox)
      BY DEF MailInv
    <2> QED
      BY <1>2, <1>3, <1>4, <2>1, <2>2, Replied, RecordedReply, MailTaken DEF MailInv
  <1>5. CASE ~ (client # None /\ runChecks(mail, client))
    <2>1. UNCHANGED <<known, outbox, metricVars>>
      BY <1>1, <1>2, <1>5 DEF eomReceived
    <2> QED
      BY <2>1, MailTaken DEF MailInv, Due, Recorded, canonicalizeEmailDomain
  <1> QED
    BY <1>4, <1>5

LEMMA ReceiveMail ==
  ASSUME MailInv, NEW mail \in Mail, Receive(mail)
  PROVE  MailInv'
  <1>1. UNCHANGED <<known, outbox>>
    BY DEF Receive
  <1>2. mail.recipients \in 1..MaxRecipients
    BY DEF Mail
  <1>3. delivery' \in {NoDelivery} \cup [mail : Mail, left : 1..MaxRecipients]
    BY <1>2 DEF Receive
  <1> QED
    BY <1>1, <1>3 DEF MailInv, Due, canonicalizeEmailDomain

LEMMA PeriodMail ==
  ASSUME MailInv, NewPeriod
  PROVE  MailInv'
  <1>1. DOMAIN outbox' = {} /\ IsABag(outbox')
    BY EmptyBagHasNothing DEF NewPeriod
  <1> QED
    BY <1>1 DEF MailInv, NewPeriod

-----------------------------------------------------------------------------
(* Theorems *)

LEMMA InitInv == Init => IInv
  <1> SUFFICES ASSUME Init PROVE IInv
    OBVIOUS
  <1>1. MetricInv
    BY EmptyBagHasNothing DEF Init, InitMetrics, MetricInv
  <1>2. CountInv
    BY EmptyBagHasNothing, Uncounted DEF Init, InitMetrics, CountInv, CountedOnce
  <1>3. WebInv
    BY DEF Init, InitWeb, WebInv
  <1>4. MailInv
    BY EmptyBagHasNothing DEF Init, InitEmail, MailInv
  <1> QED
    BY <1>1, <1>2, <1>3, <1>4 DEF IInv

\* Each step keeps the invariant, and bridges are shown only to whom they may be.
LEMMA NextInv ==
  ASSUME IInv, Next
  PROVE  IInv' /\ (Recorded \/ (UNCHANGED told) \/ told' = EmptyBag)
  <1> USE DEF IInv
  <1>1. CASE Clock
    <2>1. UNCHANGED <<metricVars, emailVars>> /\ WebInv'
      BY <1>1 DEF Clock, Tick, WebInv
    <2> QED
      BY <2>1, MetricStutter, CountStutter, MailStutter DEF Recorded
  <1>2. CASE WebRequest
    <2>1. PICK ch \in Web, c \in ClientIP : Fetch(ch, c) \/ \E form \in Form : Post(ch, c, form)
      BY <1>2 DEF WebRequest
    <2>2. MailInv'
      BY <1>2, MailStutter DEF WebRequest
    <2>3. CASE Fetch(ch, c)
      <3>1. UNCHANGED metricVars
        BY <2>3 DEF Fetch
      <3> QED
        BY <2>2, <2>3, <3>1, FetchWeb, MetricStutter, CountStutter DEF Recorded
    <2>4. ASSUME NEW form \in Form, Post(ch, c, form)
          PROVE  WebInv' /\ Recorded
      BY <2>4, PostWeb, Posted
    <2> QED
      BY <2>1, <2>2, <2>3, <2>4, RecordedMetrics
  <1>3. ASSUME NEW id, LateAnswer(id)
        PROVE  IInv' /\ Recorded
    <2>1. PICK p : AnswerLate(p)
      BY <1>3 DEF LateAnswer
    <2>2. MailInv'
      BY <1>3, MailStutter DEF LateAnswer
    <2> QED
      BY <2>1, <2>2, AnswerWeb, AnsweredLate, RecordedMetrics
  <1>4. CASE IncomingMail
    <2>1. PICK mail \in Mail : Receive(mail)
      BY <1>4 DEF IncomingMail
    <2>2. UNCHANGED metricVars
      BY <2>1 DEF Receive
    <2>3. WebInv'
      BY <1>4 DEF IncomingMail, WebInv
    <2> QED
      BY <2>1, <2>2, <2>3, ReceiveMail, MetricStutter, CountStutter DEF Recorded
  <1>5. CASE Message
    BY <1>5, MessageMail, RecordedMetrics, WebStutter DEF Message
  <1>6. CASE MailPeriod
    <2>1. UNCHANGED metricVars
      BY <1>6 DEF MailPeriod, NewPeriod
    <2> QED
      BY <1>6, <2>1, PeriodMail, WebStutter, MetricStutter, CountStutter DEF MailPeriod, Recorded
  <1>7. CASE Exporting
    <2>1. told' = EmptyBag \/ UNCHANGED told
      BY <1>7 DEF Exporting, Export, StartExport, FinishExport, FailExport
    <2> QED
      BY <1>7, <2>1, ExportMetrics, ExportCounts, WebStutter, MailStutter DEF Exporting
  <1>8. CASE Recording
    <2>1. UNCHANGED told
      BY <1>8 DEF Recording, RecordBridgesInHashring, FetchHot, SetHot, SetCold, SetGone
    <2> QED
      BY <1>8, <2>1, RecordingMetrics, RecordingCounts, WebStutter, MailStutter DEF Recording
  <1> QED
    BY <1>1, <1>2, <1>3, <1>4, <1>5, <1>6, <1>7, <1>8 DEF Next

THEOREM Invariance == Spec => []IInv
  <1>1. ASSUME IInv, UNCHANGED vars PROVE IInv'
    BY <1>1, MetricStutter, CountStutter, WebStutter, MailStutter DEF IInv, vars
  <1> QED
    BY <1>1, InitInv, NextInv, PTL DEF Spec

THEOREM TypeCorrect == Spec => []TypeOK
  <1>1. IInv => TypeOK
    BY DEF IInv, MetricInv, WebInv, MailInv, TypeOK
  <1> QED
    BY <1>1, Invariance, PTL

\* However requests, captchas, exports and mails are interleaved, nobody is
\* shown bridges for a captcha that was not theirs, or is too old.
THEOREM GuardedByCaptchas == Spec => CaptchaGuards
  <1>1. ASSUME IInv, Next, NEW ch \in Web, NEW c \in ClientIP,
               NEW what \in {"bridges", "empty"},
               Copies(<<ch, c, what>>, told') > Copies(<<ch, c, what>>, told)
        PROVE  Allowed(ch, c)
    <2>1. PICK e : e = <<ch, c, what>>
      OBVIOUS
    <2>2. Copies(e, told) \in Nat
      BY <1>1 DEF Copies, IInv, MetricInv, IsABag
    <2>3. told' # EmptyBag
      BY <1>1, <2>1, <2>2, EmptyBagHasNothing DEF Copies
    <2>4. told' # told
      BY <1>1, <2>1, <2>2
    <2>5. Recorded
      BY <1>1, <2>3, <2>4, NextInv
    <2>6. PICK keys, tellings : Record(keys, tellings) /\ Guarded(tellings)
      BY <2>4, <2>5 DEF Recorded, metricVars
    <2>7. CASE e \in tellings
      BY <2>1, <2>6, <2>7 DEF Guarded
    <2>8. CASE e \notin tellings
      <3>1. PICK new : new = told (+) SetToBag(tellings)
        OBVIOUS
      <3>2. IsABag(told) /\ told' = new
        BY <1>1, <2>6, <3>1 DEF IInv, MetricInv, Record
      <3>3. DOMAIN new = DOMAIN told \cup tellings /\ \A x \in DOMAIN told \ tellings : new[x] = told[x]
        BY <3>1, <3>2, BagAfter
      <3>4. Copies(e, told') = Copies(e, told)
        BY <2>8, <3>2, <3>3 DEF Copies
      <3> QED
        BY <1>1, <2>1, <2>2, <3>4
    <2> QED
      BY <2>7, <2>8
  <1>2. IInv /\ [Next]_vars =>
          [\A ch \in Web, c \in ClientIP, what \in {"bridges", "empty"} :
             Copies(<<ch, c, what>>, told') > Copies(<<ch, c, what>>, told) =>
               \/ ch = HTTPS /\ protection = "recaptcha"
               \/ \E challenge \in challenges :
                    challenge.to = <<ch, c>> /\ now - challenge.at < CaptchaLife]_vars
    BY <1>1 DEF Allowed
  <1> QED
    BY <1>2, Invariance, PTL DEF Spec, CaptchaGuards

\* One mailbox is one client, however it is spelled.
LEMMA OneClient ==
  ASSUME NEW a \in Sender, NEW b \in Sender, SameMailbox(a, b),
         getMailTo(a) \notin Whitelist \cup {None}, getMailTo(b) \notin Whitelist \cup {None}
  PROVE  getMailTo(a) = getMailTo(b)
  <1>1. a \notin Whitelist /\ b \notin Whitelist
    BY DEF getMailTo
  <1>2. normalizeEmail(a) # None /\ normalizeEmail(b) # None
    BY <1>1 DEF getMailTo
  <1>3. /\ normalizeEmail(a) =
             [a EXCEPT !.plus = FALSE,
                       !.dots = @ /\ canonicalizeEmailDomain(a.domain) \notin IgnoreDots]
        /\ normalizeEmail(b) =
             [b EXCEPT !.plus = FALSE,
                       !.dots = @ /\ canonicalizeEmailDomain(b.domain) \notin IgnoreDots]
    BY <1>2 DEF normalizeEmail
  <1>4. canonicalizeEmailDomain(a.domain) = DomainMap[a.domain]
    BY <1>2 DEF normalizeEmail, canonicalizeEmailDomain
  <1>5. a.user = b.user /\ a.domain = b.domain /\ a.dots \in BOOLEAN /\ b.dots \in BOOLEAN
    BY EmailServerAssumption DEF SameMailbox
  <1>6. (a.dots /\ canonicalizeEmailDomain(a.domain) \notin IgnoreDots) =
          (b.dots /\ canonicalizeEmailDomain(b.domain) \notin IgnoreDots)
    BY <1>4, <1>5 DEF SameMailbox
  <1>7. /\ a = [user |-> a.user, dots |-> a.dots, plus |-> a.plus, domain |-> a.domain]
        /\ b = [user |-> b.user, dots |-> b.dots, plus |-> b.plus, domain |-> b.domain]
    BY EmailServerAssumption
  <1>8. normalizeEmail(a) =
          [user |-> a.user, dots |-> a.dots /\ canonicalizeEmailDomain(a.domain) \notin IgnoreDots,
           plus |-> FALSE, domain |-> a.domain]
    BY <1>3, <1>7
  <1>9. normalizeEmail(b) =
          [user |-> b.user, dots |-> b.dots /\ canonicalizeEmailDomain(b.domain) \notin IgnoreDots,
           plus |-> FALSE, domain |-> b.domain]
    BY <1>3, <1>7
  <1>10. normalizeEmail(a) = normalizeEmail(b)
    BY <1>5, <1>6, <1>8, <1>9
  <1> QED
    BY <1>1, <1>10 DEF getMailTo

\* The domain that a reply goes to has the rules of the one the mail was from.
LEMMA SameRules ==
  ASSUME NEW a \in Sender, getMailTo(a) \notin Whitelist \cup {None}
  PROVE  canonicalizeEmailDomain(getMailTo(a).domain) = DomainMap[a.domain]
  <1>1. a \notin Whitelist /\ getMailTo(a) = normalizeEmail(a)
    BY DEF getMailTo
  <1>2. normalizeEmail(a) # None
    BY <1>1
  <1>3. normalizeEmail(a) =
          [a EXCEPT !.plus = FALSE,
                    !.dots = @ /\ canonicalizeEmailDomain(a.domain) \notin IgnoreDots]
    BY <1>2 DEF normalizeEmail
  <1>4. a = [user |-> a.user, dots |-> a.dots, plus |-> a.plus, domain |-> a.domain]
    BY EmailServerAssumption
  <1>5. normalizeEmail(a).domain = a.domain
    BY <1>3, <1>4
  <1>6. a.domain \in DOMAIN DomainMap
    BY <1>2 DEF normalizeEmail, canonicalizeEmailDomain
  <1> QED
    BY <1>1, <1>5, <1>6 DEF canonicalizeEmailDomain

\* Whatever mails there are, and however many messages they make, a mailbox is
\* answered once and warned once in a period, and only where it is due.
THEOREM OnlyDueReplies == Spec => []RepliesAreDue
  <1>1. ASSUME IInv, NEW e \in DOMAIN outbox, e.to \notin Whitelist \ Near
        PROVE  /\ e.to \notin Blacklist \cup Near
               /\ DomainMap[e.from.domain] \in SignedDomain => e.dkim
               /\ \A o \in DOMAIN outbox :
                    SameMailbox(o.from, e.from) /\ o.to \notin Whitelist /\ o.body = e.body =>
                      o = e /\ outbox[e] = 1
    <2>1. \A o \in DOMAIN outbox :
            /\ o.from \in Sender /\ o.to = getMailTo(o.from) /\ o.to # None /\ o.to \notin Near
            /\ o.to \notin Whitelist => Due(o)
      BY <1>1 DEF IInv, MailInv, Mailbox
    <2>2. e.to \notin Whitelist /\ Due(e)
      BY <1>1, <2>1
    <2>3. canonicalizeEmailDomain(e.to.domain) = DomainMap[e.from.domain]
      BY <2>1, <2>2, SameRules
    <2>4. ASSUME NEW o \in DOMAIN outbox, SameMailbox(o.from, e.from), o.to \notin Whitelist,
                 o.body = e.body
          PROVE  o = e /\ outbox[e] = 1
      <3>1. o.to = e.to
        BY <2>1, <2>2, <2>4, OneClient
      <3> QED
        BY <2>2, <2>4, <3>1 DEF Due
    <2> QED
      BY <2>1, <2>2, <2>3, <2>4 DEF Due
  <1>2. IInv => RepliesAreDue
    BY <1>1 DEF RepliesAreDue
  <1> QED
    BY <1>2, Invariance, PTL

\* Whatever requests come, and whenever metrics are exported, fail to be, or
\* are set by a reload: what is counted is what clients were told, and a report
\* that is written is of the requests of its interval.
THEOREM EachIsCountedOnce == Spec => []CountedOnce
  <1>1. IInv => CountedOnce
    BY DEF IInv, CountInv
  <1> QED
    BY <1>1, Invariance, PTL
==================================================================================
