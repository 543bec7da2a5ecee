--------------------------------- MODULE Metrics ---------------------------------
(***************************************************************************)
(* The metrics of src/bridgedb/metrics.py: the servers count in the hot    *)
(* dictionary, and every so often a LoopingCall of the reactor makes it    *)
(* the cold one and writes that to a file.  The thread of a reload sets    *)
(* the sizes of the hashrings in the same dictionaries at any time.        *)
(* A dictionary of counters is a bag of the keys that were counted; those  *)
(* of the four singletons are one here, of which the requests of a channel *)
(* are in its own and Sizes in the internal one, which is read last.       *)
(***************************************************************************)
EXTENDS Integers, Bags

CONSTANTS
  Web,           \* the channels that are web servers: HTTPS and moat
  Email,         \* the other channel
  Sizes,         \* the key that recordBridgesInHashring sets
  BinSize        \* BIN_SIZE

Channel == Web \cup {Email}

\* Requests by channel and success; the key's other parts are left out.
MetricKey == (Channel \X {"success", "fail"}) \cup {Sizes}

ASSUME MetricsAssumption ==
  /\ BinSize \in Nat \ {0} /\ Email \notin Web
  /\ Sizes \notin Channel \X {"success", "fail"}

VARIABLES
  hotMetrics, coldMetrics,
  exporter,      \* the LoopingCall: "idle", "writing", "disturbed", "stopped"
  report,        \* the numbers of requests in METRICS_FILE
  setter,        \* where the reload's thread is about to set a key, if it is
  told,          \* history: what clients were told since the last rotation,
  toldBefore     \* and between the last two

metricVars == <<hotMetrics, coldMetrics, exporter, report, setter, told, toldBefore>>

InitMetrics ==
  /\ hotMetrics = EmptyBag /\ coldMetrics = EmptyBag /\ report = EmptyBag
  /\ told = EmptyBag /\ toldBefore = EmptyBag
  /\ exporter = "idle" /\ setter = "not yet"

\* The reactor serves nobody while it writes the metrics.
ReactorIsFree == exporter \in {"idle", "stopped"}

\* inc, for each of the keys of one request.
inc(metrics, keys) == metrics (+) SetToBag(keys)

\* set, of the one key that is set and not counted
set(metrics, key) == [k \in DOMAIN metrics \cup {key} |-> IF k = key THEN 1 ELSE metrics[k]]

-----------------------------------------------------------------------------
\* Fault: what was exported stays in the hot dictionary.
RotateKeeping ==
  /\ coldMetrics' = hotMetrics
  /\ UNCHANGED <<hotMetrics, setter>>

\* rotate.  A thread that has fetched the hot dictionary holds a cold one now.
Rotate ==
  /\ coldMetrics' = hotMetrics /\ hotMetrics' = EmptyBag
  /\ setter' = CASE setter = "hot" -> "cold" [] setter = "cold" -> "gone" [] OTHER -> setter

\* writeMetrics: the file is emptied as it is opened; opening may fail, too,
\* and then nothing is changed.
StartExport ==
  /\ exporter = "idle"
  /\ exporter' = "writing" /\ report' = EmptyBag
  /\ told' = EmptyBag /\ toldBefore' = told
  /\ Rotate

\* Fault: numbers are rounded down.
SanitizedDown(value) == value - (value % BinSize)

\* getMetrics: numbers are rounded up to the next multiple of the bin.
Sanitized(value) ==
  IF value % BinSize > 0 THEN value + (BinSize - (value % BinSize)) ELSE value

\* The keys that count requests, and their lines in the file.
Requested == DOMAIN coldMetrics \ {Sizes}

Lines(keys) == [k \in keys |-> Sanitized(coldMetrics[k])]

FinishExport ==
  /\ exporter = "writing"
  /\ exporter' = "idle" /\ report' = Lines(Requested)
  /\ UNCHANGED <<hotMetrics, coldMetrics, setter, told, toldBefore>>

\* An IOError is caught, and the lines that were not written yet are lost; a
\* RuntimeError, of the internal dictionary that grew under the iteration,
\* comes after the lines of all requests and stops the LoopingCall for good.
FailExport ==
  /\ \/ /\ exporter = "writing" /\ exporter' = "idle"
        /\ \E keys \in SUBSET Requested : report' = Lines(keys)
     \/ /\ exporter = "disturbed" /\ exporter' = "stopped"
        /\ report' = Lines(Requested)
  /\ UNCHANGED <<hotMetrics, coldMetrics, setter, told, toldBefore>>

Export == StartExport \/ FinishExport \/ FailExport

-----------------------------------------------------------------------------
(* recordBridgesInHashring, once, in the thread of a reload *)

FetchHot ==
  /\ setter = "not yet"
  /\ setter' = "hot"
  /\ UNCHANGED <<hotMetrics, coldMetrics, exporter, report, told, toldBefore>>

SetHot ==
  /\ setter = "hot"
  /\ setter' = "done" /\ hotMetrics' = set(hotMetrics, Sizes)
  /\ UNCHANGED <<coldMetrics, exporter, report, told, toldBefore>>

\* Into a dictionary being iterated over, unless that is done with this one.
SetCold ==
  /\ setter = "cold"
  /\ setter' = "done" /\ coldMetrics' = set(coldMetrics, Sizes)
  /\ exporter' \in IF exporter = "writing" /\ Sizes \notin DOMAIN coldMetrics
                    THEN {"writing", "disturbed"} ELSE {exporter}
  /\ UNCHANGED <<hotMetrics, report, told, toldBefore>>

SetGone ==
  /\ setter = "gone"
  /\ setter' = "done"
  /\ UNCHANGED <<hotMetrics, coldMetrics, exporter, report, told, toldBefore>>

RecordBridgesInHashring == FetchHot \/ SetHot \/ SetCold \/ SetGone

\* A handler counts the keys, and tells the client something.
Record(keys, tellings) ==
  /\ hotMetrics' = inc(hotMetrics, keys)
  /\ told' = told (+) SetToBag(tellings)
  /\ UNCHANGED <<coldMetrics, exporter, report, setter, toldBefore>>
===============================================================================
