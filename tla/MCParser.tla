------------------------------ MODULE MCParser ------------------------------
(* A part of the tree of src/client.ts:86-124 with a command of every     *)
(* kind, and all command lines of a few tokens, alone or after the words     *)
(* that lead to a command.                                                   *)
EXTENDS Parser

CONSTANT Longest  \* tokens of a command line

MCText == STRING

Opt(name, short, valued) ==
  [name |-> name, short |-> short, valued |-> valued, many |-> FALSE,
   parse |-> "any", aliases |-> <<>>]
Arg(required, parse) ==
  [required |-> required, many |-> FALSE, parse |-> parse, default |-> None]
Plain(name) ==
  [name |-> name, aliases |-> <<>>, options |-> <<>>, args |-> <<>>, subs |-> <<>>,
   dflt |-> NoCommand, hasRequires |-> FALSE, requires |-> {}, action |-> TRUE]

Allow == [Opt("allow-cidr", {}, TRUE) EXCEPT !.many = TRUE, !.parse = "cidr", !.aliases = <<"allow">>]

MCCmd(c) ==
  CASE c = "tunli"    -> [Plain(c) EXCEPT !.options = <<Opt("version", {"v"}, FALSE)>>,
                            !.subs = <<"config", "http", "start", "logs">>, !.dflt = "http"]
    [] c = "http"     -> [Plain(c) EXCEPT !.args = <<Arg(TRUE, "port"), Arg(FALSE, "any")>>,
                            !.options = <<Opt("global", {"g"}, FALSE), Opt("save", {}, TRUE), Allow>>]
    [] c = "config"   -> [Plain(c) EXCEPT !.subs = <<"set">>,
                            !.options = <<Opt("global", {"g"}, FALSE), Opt("profile", {"p"}, TRUE)>>]
    [] c = "set"      -> [Plain(c) EXCEPT !.subs = <<"setAllow">>, !.action = FALSE,
                            !.hasRequires = TRUE, !.requires = {"command"}]
    [] c = "setAllow" -> [Plain("allowCidr") EXCEPT
                            !.args = <<[Arg(FALSE, "cidr") EXCEPT !.many = TRUE]>>,
                            !.options = <<[Allow EXCEPT !.name = "add", !.short = {"a"}, !.aliases = <<>>]>>]
    [] c = "start"    -> [Plain(c) EXCEPT !.args = <<Arg(TRUE, "any")>>,
                            !.options = <<Opt("global", {"g"}, FALSE)>>]
    [] c = "logs"     -> [Plain(c) EXCEPT !.aliases = <<"log">>, !.args = <<Arg(FALSE, "any")>>]

MCAccepts(parse, t) ==
  CASE parse = "port" -> t = Word("80")
    [] parse = "cidr" -> t = Word("net")
    [] OTHER          -> TRUE
MCUrlParts(t) == <<Word("http"), Word("80"), Word("host")>>

Long(n) == [k |-> "long", v |-> n]
Short(n) == [k |-> "short", v |-> n]
Tokens == {Word(w) : w \in {"http", "config", "set", "allowCidr", "log", "80", "net"}}
          \cup {Long(n) : n \in {"help", "save", "allow"}}
          \cup {Short(n) : n \in {"g", "p", "a", "x", "v"}}
          \cup {[k |-> "at", v |-> "p"], [k |-> "url", v |-> "u"]}
Http == <<Word("http"), Word("80")>>
SetAllow == <<Word("config"), Word("set"), Word("allowCidr")>>
MCArgvs ==
  UNION {{start \o line : line \in BoundedSeq(Tokens, Longest)} : start \in {<<>>, Http}}
  \cup UNION {{start \o line : line \in BoundedSeq(Tokens, Longest - 1)} :
              start \in {SetAllow, <<HelpToken>> \o Http, Http \o <<Short("g")>>}}
=============================================================================
