-------------------------------- MODULE MCLoad --------------------------------
(* Two bridges and two authorities.  f1 has two networkstatus entries, three  *)
(* server descriptors and three extra-infos; f2 is on the blacklist.         *)
EXTENDS Load

CONSTANTS f1, f2, a1, a2, a3, local

Pt(method, address, args) == [method |-> method, address |-> address, args |-> args]

MCStatus ==
  {[fp |-> f1, digest |-> "d1", address |-> a1, more |-> {a3}, flags |-> {"Running"}],
   [fp |-> f1, digest |-> "d2", address |-> local, more |-> {}, flags |-> {}],
   [fp |-> f2, digest |-> "d3", address |-> a2, more |-> {}, flags |-> {"Running"}]}
MCServer ==
  {[fp |-> f1, digest |-> "d1", address |-> a1, more |-> {local}, key |-> "k1", version |-> 2],
   [fp |-> f1, digest |-> "d4", address |-> a2, more |-> {}, key |-> "k2", version |-> 1],
   [fp |-> f1, digest |-> "d2", address |-> local, more |-> {a2}, key |-> "k1", version |-> 2],
   [fp |-> f2, digest |-> "d3", address |-> a2, more |-> {}, key |-> "k3", version |-> 2]}
MCExtra ==
  {[fp |-> f1, key |-> "k1", published |-> 1,
    transports |-> <<Pt("obfs4", a1, {"iat-mode", "cert"}), Pt("scramblesuit", a1, {})>>],
   [fp |-> f1, key |-> "k1", published |-> 2, transports |-> <<Pt("obfs3", a3, {})>>],
   [fp |-> f1, key |-> "k2", published |-> 2,
    transports |-> <<Pt("obfs3", a2, {}), Pt("meek", local, {}), Pt("obfs2", a2, {})>>]}
Row(date, isBlocked) ==
  [fp |-> f1, country |-> "cn", address |-> a1, date |-> date, blocked |-> isBlocked]
MCMeasurement == {Row(1, TRUE), Row(3, TRUE), Row(2, FALSE), Row(4, FALSE)}
MCCountryOf == [a \in Address |-> IF a = a2 THEN "sy" ELSE "de"]
===============================================================================
