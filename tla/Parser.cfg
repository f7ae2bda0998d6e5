CONSTANTS
  Longest = 3
  Text <- MCText
  Commands = {"tunli", "http", "config", "set", "setAllow", "start", "logs"}
  Root = "tunli"
  Cmd <- MCCmd
  Argvs <- MCArgvs
  UrlParts <- MCUrlParts
  Accepts <- MCAccepts
SPECIFICATION ParserSpec
INVARIANTS
  OptionsFoundAnywhere
  HelpRunsNothing
CHECK_DEADLOCK FALSE
