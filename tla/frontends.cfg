SPECIFICATION Spec
CONSTANTS
  Web = {"https", "moat"}
  HTTPS = "https"
  Moat = "moat"
  Email = "email"
  Sizes = Sizes
  BinSize = 2
  Client = {"a1"}
  NoAddress = "no address"
  Protections = {"gimp", "recaptcha"}
  TicksPerSecond = 4
  CaptchaLife = 2
  MaxTime = 2
  MaxRequests = 2
  Sender <- MCSender
  DomainMap <- MCDomainMap
  IgnoreDots = {"gmail.com"}
  SignedDomain = {"gmail.com"}
  None = None
  Whitelist <- MCWhitelist
  Blacklist <- MCBlacklist
  Near <- MCNear
  MaxRecipients = 2
INVARIANTS TypeOK CountedOnce RepliesAreDue
PROPERTIES CaptchaGuards
