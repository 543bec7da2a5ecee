---------------------------- MODULE MCDistribution ----------------------------
(* An HTTPS, a moat or an email distributor, six bridges on a circle of      *)
(* twelve, a client that may be a known proxy, two that are not, and an      *)
(* email client.                                                             *)
EXTENDS Distribution, TLC

CONSTANTS p1, c1, c2, e1, b1, b2, b3, b4, b5, b6

At(m, v) == [method |-> m, version |-> v]
V4 == At("vanilla", 4)

MCEndpointsOf ==
  b1 :> {V4} @@ b2 :> {V4, At("obfs4", 4), At("obfs3", 4)} @@
  b3 :> {V4, At("vanilla", 6), At("obfs3", 4)} @@ b4 :> {V4, At("obfs3", 6)} @@
  b5 :> {V4, At("obfs3", 4)} @@ b6 :> {V4, At("obfs3", 4)}
MCMainOf == [b \in Bridge |-> V4]
MCNet == b1 :> 1 @@ b2 :> 1 @@ b3 :> 2 @@ b4 :> 3 @@ b5 :> 2 @@ b6 :> NoNet
MCNeed == {[of |-> {b1, b5}, count |-> 1], [of |-> {b3}, count |-> 1]}
MCShareHash ==
  "https" :> (b1 :> 0 @@ b2 :> 1 @@ b3 :> 3 @@ b4 :> 1 @@ b5 :> 2 @@ b6 :> 2) @@
  "moat" :> (b1 :> 0 @@ b2 :> 1 @@ b3 :> 2 @@ b4 :> 0 @@ b5 :> 1 @@ b6 :> 2)

MCPlace == 0 :> (b1 :> 0 @@ b2 :> 7 @@ b3 :> 4 @@ b4 :> 2 @@ b5 :> 9 @@ b6 :> 1)
        @@ 1 :> (b1 :> 3 @@ b2 :> 1 @@ b3 :> 8 @@ b4 :> 10 @@ b5 :> 6 @@ b6 :> 0)
        @@ 2 :> (b1 :> 5 @@ b2 :> 2 @@ b3 :> 1 @@ b4 :> 9 @@ b5 :> 4 @@ b6 :> 7)
        @@ 3 :> (b1 :> 8 @@ b2 :> 5 @@ b3 :> 3 @@ b4 :> 6 @@ b5 :> 1 @@ b6 :> 2)

MCAreaOf == p1 :> 1 @@ c1 :> 1 @@ c2 :> 2 @@ e1 :> 4
MCProxyGroup == p1 :> 3 @@ c1 :> 3 @@ c2 :> 3
MCAreaHash == 1 :> 4 @@ 2 :> 5 @@ 3 :> 0
MCPosition == [x \in {1, 2} \X {1, 2, 3, 4} |-> (5 * x[1] + 3 * x[2]) % 12]

Form(transport, unblocked) == [ipv6 |-> FALSE, transport |-> transport, unblocked |-> unblocked]
Json(transport, unblocked) == [transport |-> transport, unblocked |-> unblocked]
Line(get, transport) == [Blank EXCEPT !.kind = "plain", !.get = get, !.transport = transport]
Quoted(transport) == [Line(TRUE, transport) EXCEPT !.kind = "quoted"]

MCAsks ==
  "https" :> {Form(<<>>, <<>>), Form(<<"obfs4", "obfs3">>, <<NoName>>)} @@
  "moat" :> {Json("obfs3", <<"cn">>), Json("obfs4", <<>>)} @@
  "email" :> {<<Line(TRUE, "obfs3"), Blank, Quoted("obfs3"), Line(FALSE, NoName)>>,
              <<Blank, Line(TRUE, "obfs4"), Line(FALSE, "obfs3")>>,
              <<Blank, Line(TRUE, NoName)>>}
MCCountryOf == p1 :> NoName @@ c1 :> NoName @@ c2 :> "cn" @@ e1 :> NoName
MCVersionOf == p1 :> 4 @@ c1 :> 4 @@ c2 :> 6 @@ e1 :> 4
MCLoads == {[bridges |-> Bridge, blocked |-> {}],
            [bridges |-> {b1, b3, b4}, blocked |-> {<<At("obfs3", 4), "cn">>}]}
===============================================================================
