------------------------------- MODULE Parser -------------------------------
(***************************************************************************)
(* The argument parser of the CLI: the tree of commands built by Command    *)
(* (src/commander/Command.ts), and parse, which walks it from the root  *)
(* (src/commands/helper/Parser.ts).  A step is one call of parseNode:   *)
(* it extracts the options it knows from all that is left of the command    *)
(* line, then descends, asks for help, rejects or runs the command.         *)
(*                                                                         *)
(* A token is [k, v]: a "word", a "long" or "short" option, an "at" word    *)
(* (@profile) or a "url".  aliasPrefix is left out: Command cannot set it.  *)
(***************************************************************************)
EXTENDS Naturals, SequencesExt

CONSTANTS
  Text,          \* what names and values are made of
  Commands,      \* the commands of the tree
  Root,          \* the program itself
  Cmd(_),        \* what the builder calls of a command recorded
  Argvs,         \* the command lines typed
  UrlParts(_),   \* protocol, port and host of a url token, as words
  Accepts(_, _)  \* whether a parse callback accepts a token

None == [k |-> "none", v |-> "none"]
NoCommand == "none"
Token == [k : {"word", "long", "short", "at", "url"}, v : Text]
Word(w) == [k |-> "word", v |-> w]
Dashed(t) == t.k \in {"long", "short"}
HelpOption ==
  [name |-> "help", key |-> "help", short |-> {"h", "?"}, valued |-> FALSE,
   many |-> FALSE, parse |-> "any"]
HelpToken == [k |-> "long", v |-> "help"]
IsHelp(t) == t = HelpToken \/ (t.k = "short" /\ t.v \in HelpOption.short)

\* What a command declares, and an option as the parser sees it.
Option == [name : Text, short : SUBSET Text, valued : BOOLEAN, many : BOOLEAN,
           parse : Text, aliases : Seq(Text)]
OptionDef == [name : Text, key : Text, short : SUBSET Text, valued : BOOLEAN,
              many : BOOLEAN, parse : Text]

ASSUME ParserAssumption ==
  /\ {"help", "h", "?", "any", "start"} \subseteq Text
  /\ NoCommand \notin Commands
  /\ Root \in Commands
  /\ \A c \in Commands : /\ Cmd(c).options \in Seq(Option)
                         /\ Cmd(c).subs \in Seq(Commands)
                         /\ Cmd(c).dflt \in Commands \cup {NoCommand}
  /\ \A line \in Argvs : /\ line \in Seq(Token)
                         /\ \A i \in DOMAIN line : UrlParts(line[i]) \in Seq(Token)

VARIABLES
  argv,       \* what was typed
  args,       \* what is left for this call of parseNode
  node,       \* its command
  inherited,  \* the options known to its ancestors, in insertion order
  path,       \* commandPath
  options,    \* the options of the calls so far, merged
  outcome     \* "parsing" or what parseAsync does in the end

parserVars == <<argv, args, node, inherited, path, options, outcome>>

-----------------------------------------------------------------------------
(* Command: the builder                                                    *)

\* addOption: an alias is an option of its own with the key of the original and
\* without its short names.  The key is the name in camel case, and stands for
\* it: no two names of client.ts have the same.
WithAliases(o) ==
  LET named(n, short) == [name |-> n, key |-> o.name, short |-> short,
                          valued |-> o.valued, many |-> o.many, parse |-> o.parse]
  IN <<named(o.name, o.short)>> \o [i \in DOMAIN o.aliases |-> named(o.aliases[i], {})]

\* #toNode: of several aliases only the first is kept.
Answers(c, t) ==
  t.k = "word" /\ (t.v = Cmd(c).name \/ (Cmd(c).aliases # <<>> /\ t.v = Head(Cmd(c).aliases)))

\* #directOpts: the options of a command, each followed by its aliases.
Declared(c) ==
  LET opts == Cmd(c).options
      d[n \in 0 .. Len(opts)] == IF n = 0 THEN <<>> ELSE d[n - 1] \o WithAliases(opts[n])
  IN d[Len(opts)]

\* buildOptionMap: an option replaces the inherited one of its name in place.
Put(map, def) ==
  LET i == SelectInSeq(map, LAMBDA d : d.name = def.name)
  IN IF i = 0 THEN Append(map, def) ELSE [map EXCEPT ![i] = def]
PutAll(map, defs) ==
  LET m[n \in 0 .. Len(defs)] == IF n = 0 THEN map ELSE Put(m[n - 1], defs[n])
  IN m[Len(defs)]

\* Slip: the options of the ancestors are forgotten.
OwnOptionMap(c, inh) == PutAll(<<HelpOption>>, Declared(c))

BuildOptionMap(c, inh) == PutAll(inh, Declared(c))

-----------------------------------------------------------------------------
(* The functions of Parser.ts                                              *)

\* preProcess.
PreProcess(line) ==
  LET at == SelectInSeq(line, LAMBDA t : t.k = "at")
  IN CASE line = <<>>          -> <<Word("start")>>
       [] at # 0               -> ReplaceAt(InsertAt(line, at, Word("start")), at + 1, Word(line[at].v))
       [] at = 0 /\ line # <<>> /\ line[1].k = "url" -> UrlParts(line[1]) \o Tail(line)
       [] OTHER                -> line

\* The option of the map a token names, by its long or its short name: 0 if none.
Names(t, d) == (t.k = "long" /\ t.v = d.name) \/ (t.k = "short" /\ t.v \in d.short)
Lookup(map, t) == SelectInSeq(map, LAMBDA d : Names(t, d))
TakesValue(map, t) == LET i == Lookup(map, t) IN i # 0 /\ map[i].valued

\* parsedOptions[key]: the values of a repeated option accumulate, a flag has none.
Store(opts, def, value) ==
  LET old == IF def.many /\ def.key \in DOMAIN opts THEN opts[def.key] ELSE <<>>
  IN [k \in DOMAIN opts \cup {def.key} |-> IF k = def.key THEN old \o value ELSE opts[k]]

\* extractOptions: known options leave the line wherever they are, the others
\* stay for the subcommand.  The token after a valued option is its value,
\* whatever it looks like; want is the option whose value comes next.
NothingTaken == [pos |-> <<>>, opts |-> <<>>, want |-> 0, err |-> FALSE]

Take(map, acc, t) ==
  LET i == Lookup(map, t) IN
  CASE acc.err                        -> acc
    [] ~acc.err /\ acc.want # 0       ->
         IF Accepts(map[acc.want].parse, t)
         THEN [acc EXCEPT !.opts = Store(@, map[acc.want], <<t>>), !.want = 0]
         ELSE [acc EXCEPT !.err = TRUE]
    [] ~acc.err /\ acc.want = 0 /\ i = 0 -> [acc EXCEPT !.pos = Append(@, t)]
    [] ~acc.err /\ acc.want = 0 /\ i # 0 ->
         IF map[i].valued THEN [acc EXCEPT !.want = i]
         ELSE [acc EXCEPT !.opts = Store(@, map[i], <<>>)]

\* What is known after each token of the line.
Scan(line, map) ==
  LET s[n \in 0 .. Len(line)] == IF n = 0 THEN NothingTaken ELSE Take(map, s[n - 1], line[n])
  IN s

Extract(line, map) ==
  LET end == Scan(line, map)[Len(line)]
  IN [pos |-> end.pos, opts |-> end.opts, err |-> end.err \/ end.want # 0]

\* parseArguments: tokens beyond the last argument are ignored.
ParseArguments(pos, defs) ==
  LET Assign(acc, d) ==
        LET ok(ts) == \A t \in ToSet(ts) : Accepts(d.parse, t)
            set(ts, rest) == [rest |-> rest, err |-> acc.err \/ ~ok(ts),
                              vals |-> Append(acc.vals, ts)]
        IN CASE d.many                           -> set(acc.rest, <<>>)
             [] ~d.many /\ acc.rest # <<>>       -> set(<<Head(acc.rest)>>, Tail(acc.rest))
             [] ~d.many /\ acc.rest = <<>> /\ d.default # None -> set(<<d.default>>, <<>>)
             [] OTHER                            -> [acc EXCEPT !.err = @ \/ d.required]
  IN FoldLeft(Assign, [rest |-> pos, vals |-> <<>>, err |-> FALSE], defs)

-----------------------------------------------------------------------------
(* parseNode, one call a step                                              *)

Map == BuildOptionMap(node, inherited)
Ext == Extract(args, Map)
FirstWord == IF Ext.pos = <<>> THEN None ELSE Head(Ext.pos)
Named == SelectInSeq(Cmd(node).subs, LAMBDA c : Answers(c, FirstWord))
HelpAsked == "help" \in DOMAIN Ext.opts
Merge(lower, upper) == [k \in DOMAIN lower \cup DOMAIN upper |->
                          IF k \in DOMAIN upper THEN upper[k] ELSE lower[k]]

ParserInit ==
  /\ argv \in Argvs
  /\ args = PreProcess(argv)
  /\ node = Root
  /\ inherited = <<HelpOption>>
  /\ path = <<Root>>
  /\ options = <<>>
  /\ outcome = [kind |-> "parsing"]

\* Slip: --help is consumed by the parent.
ReinjectNothing(line) == line

\* The child is called with what is left and --help again at the end, so that
\* it is detected at the level of the child.
Reinject(line) == IF HelpAsked THEN Append(line, HelpToken) ELSE line

Enter(c, line) ==
  /\ node' = c
  /\ args' = Reinject(line)
  /\ inherited' = Map
  /\ path' = Append(path, c)
  /\ options' = Merge(options, Ext.opts)
  /\ UNCHANGED <<argv, outcome>>

Ends(result) ==
  /\ outcome' = result
  /\ UNCHANGED <<argv, args, node, inherited, path, options>>

\* ParseError of extractOptions: a value is missing or refused.
BadOption == Ext.err /\ Ends([kind |-> "error", at |-> "option"])

Descend == /\ ~Ext.err /\ Named # 0
           /\ Enter(Cmd(node).subs[Named], Tail(Ext.pos))
Default == /\ ~Ext.err /\ FirstWord # None /\ Named = 0 /\ Cmd(node).dflt # NoCommand
           /\ Enter(Cmd(node).dflt, Ext.pos)

AtLeaf == ~Ext.err /\ (FirstWord = None \/ (Named = 0 /\ Cmd(node).dflt = NoCommand))

Help == AtLeaf /\ HelpAsked /\ Ends([kind |-> "help"])

\* requires(): no subcommand was matched here, so only options and arguments
\* can satisfy it; without requires(), an unknown or a missing subcommand.
MissingPart ==
  LET s == Cmd(node)
      matched == (IF DOMAIN Ext.opts # {} THEN {"option"} ELSE {})
                 \cup (IF Ext.pos # <<>> THEN {"argument"} ELSE {})
  IN IF s.hasRequires THEN s.requires \cap matched = {}
     ELSE s.subs # <<>> /\ \/ FirstWord # None /\ ~Dashed(FirstWord)
                           \/ ~s.action

Stray == \E t \in ToSet(Ext.pos) : Dashed(t)

BadUsage == AtLeaf /\ ~HelpAsked /\ (MissingPart \/ Stray) /\ Ends([kind |-> "error", at |-> "usage"])

Parsed == ParseArguments(Ext.pos, Cmd(node).args)
MayRun == AtLeaf /\ ~HelpAsked /\ ~MissingPart /\ ~Stray
BadArgument == MayRun /\ Parsed.err /\ Ends([kind |-> "error", at |-> "argument"])

\* The action is called with the options of every level, the inner ones first.
Run ==
  /\ MayRun /\ ~Parsed.err
  /\ Ends([kind |-> IF Cmd(node).action THEN "run" ELSE "nothing", vals |-> Parsed.vals, opts |-> Merge(options, Ext.opts)])

ParseNode == BadOption \/ Descend \/ Default \/ Help \/ BadUsage \/ BadArgument \/ Run

\* parseAsync: an error exits with 1, help with 0.
ParserNext == outcome.kind = "parsing" /\ ParseNode

ParserSpec == ParserInit /\ [][ParserNext]_parserVars

-----------------------------------------------------------------------------
(* Properties                                                              *)

\* Every option that takes a value is followed by one, which names no option.
ValuesGiven ==
  LET line == PreProcess(argv) IN
  \A i \in DOMAIN line : TakesValue(Map, line[i]) =>
                           i < Len(line) /\ Lookup(Map, line[i + 1]) = 0

\* No command declares an option of a command above it, or --help, again.
OptionNames(c) == UNION {{o.name} \cup ToSet(o.aliases) : o \in ToSet(Cmd(c).options)}
NoShadowing ==
  \A j \in DOMAIN path :
    /\ HelpOption.name \notin OptionNames(path[j])
    /\ \A i \in 1 .. j - 1 : OptionNames(path[i]) \cap OptionNames(path[j]) = {}

\* Options may stand anywhere (Parser.ts:94-172).  The command line is taken
\* apart level by level, each level knowing only its own options and those
\* above; a command that runs gets the options and the arguments that one
\* pass with everything it knows finds, and nothing that looks like an option
\* is left over.
OptionsFoundAnywhere ==
  outcome.kind = "run" /\ ValuesGiven /\ NoShadowing =>
    LET once == Extract(PreProcess(argv), Map)
        words == Len(once.pos) - Len(Ext.pos)
    IN /\ ~once.err
       /\ once.opts = outcome.opts
       /\ words >= 0 /\ once.pos = SubSeq(once.pos, 1, words) \o Ext.pos
       /\ \A i \in 1 .. words : \E c \in ToSet(path) : Answers(c, once.pos[i])
       /\ \A t \in ToSet(Ext.pos) : ~Dashed(t)

\* A command line that asks for help runs nothing (Parser.ts:262: `so the
\* child can detect it at its own level').  An option without its value can
\* take the request for it: `tunli http --help --save -v' runs http.
HelpRunsNothing ==
  outcome.kind = "run" /\ ValuesGiven /\ NoShadowing =>
    \A t \in ToSet(PreProcess(argv)) : ~IsHelp(t)
=============================================================================
