------------------------------ MODULE MCFrontends ------------------------------
(* A client and one without an address, two captcha intervals, and mail from *)
(* a mailbox spelled three ways, from a whitelisted and a blacklisted one,   *)
(* and from a domain that is not supported; two requests in all.             *)
EXTENDS Frontends, TLC

At(user, dots, plus, domain) ==
  [user |-> user, dots |-> dots, plus |-> plus, domain |-> domain]

MCWhite == At("white", FALSE, FALSE, "riseup.net")
MCBlack == At("black", FALSE, FALSE, "gmail.com")
MCWhitelist == {MCWhite}
MCBlacklist == {MCBlack}
MCNear == {MCBlack}
MCSender == {At("al", FALSE, FALSE, "gmail.com"), At("al", TRUE, FALSE, "gmail.com"),
             At("al", FALSE, TRUE, "gmail.com"), MCWhite, MCBlack,
             At("bad", FALSE, FALSE, "example.com")}
MCDomainMap == "gmail.com" :> "gmail.com" @@ "riseup.net" :> "riseup.net"
===============================================================================
