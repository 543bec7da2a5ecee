------------------------------- MODULE MCReload -------------------------------
(* Instances of Reload for TLC: two distributors and the unallocated ring,  *)
(* two authorities that may contradict each other over a bridge.            *)
EXTENDS Reload, TLC

CONSTANTS b1

MCRing == {"moat", "https", "unallocated"}
MCDist == <<"moat", "https">>
MCHashPlace == b1 :> "https"

Listing(digest) == b1 :> [digest |-> digest, running |-> TRUE, barred |-> FALSE]
Descriptor(digest, request) ==
  b1 :> [digest |-> digest, request |-> request, barred |-> FALSE]
Nothing == b1 :> None

\* The first authority delivers a networkstatus and a descriptor that fit each
\* other, or one new and one old; the second one may not list the bridge.
MCContent ==
  (<<1, "status">> :> {Listing("old"), Listing("new")})
  @@ (<<1, "server">> :> {Descriptor("old", "moat"), Descriptor("new", "https")})
  @@ (<<2, "status">> :> {Listing("old"), Nothing})
  @@ (<<2, "server">> :> {Descriptor("old", "any"), Descriptor("old", "moat"),
                          Descriptor("old", "none")})

\* Two authorities that do not agree.
RaceContent ==
  (<<1, "status">> :> {Listing("old")})
  @@ (<<1, "server">> :> {Descriptor("old", "moat")})
  @@ (<<2, "status">> :> {Listing("old")})
  @@ (<<2, "server">> :> {Descriptor("old", "https")})
=============================================================================
