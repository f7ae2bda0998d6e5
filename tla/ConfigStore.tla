---------------------------- MODULE ConfigStore -----------------------------
(***************************************************************************)
(* The configuration files of the CLI and the commands that edit them       *)
(* (src/config, src/client.ts, src/commands).             *)
(*                                                                         *)
(* Every command is a process of its own: it reads the global and the local *)
(* file when it starts, brings the registry of local configs up to date,    *)
(* edits its copies and writes whole files back, often after waiting for    *)
(* the relay or for an answer at the terminal.  writeFileSync truncates     *)
(* before it writes, and a file that cannot be parsed is read as {}.        *)
(*                                                                         *)
(* A file is a function from entries to values.  A value is the command     *)
(* that wrote it: what a profile or a server holds is not told apart, but   *)
(* for the relay a profile names, which is an entry of its own.             *)
(***************************************************************************)
EXTENDS Naturals, FiniteSets

CONSTANTS
  Ids,          \* commands that are run
  Profiles,     \* names of profiles, with the default one
  DefaultName,
  Server,       \* the relay's alias
  Elsewhere,    \* a relay the user has no account with
  Ops,          \* which commands may be run
  Old, None,    \* a value from before, no value
  Absent, Torn  \* no file; truncated, or the remains of two writes

Files == {"global", "local"}
P(p) == <<"profile", p>>
R(p) == <<"relay", p>>
S == <<"server", "">>
Active == <<"active", "">>
Default == <<"default", "">>
Local == <<"registered", "">>
File == <<"file", "">>  \* not an entry: whether there is a file to be read
Keys == {P(p) : p \in Profiles} \cup {R(p) : p \in Profiles} \cup {S, Active, Default, Local}
Values == Ids \cup Profiles \cup {Server, Elsewhere, Old, None}

ASSUME ConfigAssumption ==
  /\ DefaultName \in Profiles
  /\ None \notin Ids \cup Files \cup {Server, Elsewhere}
  /\ Absent # Torn /\ Absent \notin [Keys -> Values] /\ Torn \notin [Keys -> Values]

\* What the constructor of ParsedConfig makes of {}.
Empty == [k \in Keys |-> IF k = Default THEN DefaultName ELSE None]

\* Slip: the active server is not taken over.
ParseForgetsActive(x) == IF x = Absent \/ x = Torn THEN Empty ELSE [x EXCEPT ![Active] = None]

\* readJsonFile and the constructor.
Parse(x) == IF x = Absent \/ x = Torn THEN Empty ELSE x

\* A command, the profile it names, whether it says --global or --force, and
\* whether what it sets is the relay.  Of the options those that the command
\* does not have are left out.  `remove' is config delete, which takes -p too.
Commands ==
  {c \in [op : Ops, profile : Profiles, global : BOOLEAN, force : BOOLEAN, relay : BOOLEAN] :
     /\ c.relay => c.op = "set"
     /\ c.force => c.op \in {"delete", "register", "init", "remove"}
     /\ c.global => c.op \in {"set", "http", "delete", "use", "remove", "setup"}
     /\ c.profile # DefaultName => c.op \in {"set", "http", "delete", "use", "remove", "setup"}}

VARIABLES
  disk,       \* file -> Absent, Torn or its entries
  cmd,        \* id -> the command
  pc,         \* id -> where it is
  mem,        \* id -> file -> its copy of the entries
  known,      \* id -> entries whose exists() is TRUE
  hasLocal,   \* id -> whether ctx.config.local is defined
  open,       \* id -> the file it has truncated and not yet written, or None
  \* history
  last,       \* file -> its entries before the write that is under way
  touched,    \* id -> <<file, entry>> changed since it read them
  tornRead,   \* id -> files it could not parse
  edited      \* id -> <<file, entry>> it changed itself

store == <<disk, last, touched>>
copy == <<mem, known, hasLocal, tornRead>>
vars == <<disk, cmd, pc, mem, known, hasLocal, open, last, touched, tornRead, edited>>

Init ==
  /\ \E g \in {Empty, [Empty EXCEPT ![S] = Old, ![Active] = Server, ![P(DefaultName)] = Old]} :
     \E l \in {Absent, [Empty EXCEPT ![P(DefaultName)] = Old]} :
       /\ disk = [f \in Files |-> IF f = "global" THEN g ELSE l]
       /\ last = [f \in Files |-> IF f = "global" THEN g ELSE Parse(l)]
  /\ cmd \in [Ids -> Commands]
  /\ pc = [i \in Ids |-> "new"]
  /\ mem = [i \in Ids |-> [f \in Files |-> Empty]]
  /\ known = [i \in Ids |-> {}]
  /\ hasLocal = [i \in Ids |-> FALSE]
  /\ open = [i \in Ids |-> None]
  /\ touched = [i \in Ids |-> {}]
  /\ tornRead = [i \in Ids |-> {}]
  /\ edited = [i \in Ids |-> {}]

-----------------------------------------------------------------------------
(* Reading and writing files                                               *)

Goto(i, label) == pc' = [pc EXCEPT ![i] = label]

\* Command i gives f the entries doc: the copies of the others are behind.
Put(i, f, content, doc) ==
  /\ disk' = [disk EXCEPT ![f] = content]
  /\ last' = [last EXCEPT ![f] = doc]
  /\ touched' = [j \in Ids |-> IF j = i /\ content # Torn THEN touched[j] ELSE
                     touched[j] \cup {<<f, k>> : k \in {e \in Keys : last[f][e] # doc[e]}}
                                \cup {<<f, k>> : k \in {e \in {File} : Absent \in {disk[f], content} \/ content = Torn}}]

\* save: the file is truncated, which creates it if need be, then written.
Truncate(i, f) ==
  /\ open' = [open EXCEPT ![i] = f]
  /\ disk' = [disk EXCEPT ![f] = Torn]
  /\ touched' = [j \in Ids |-> IF j # i /\ disk[f] = Absent THEN touched[j] \cup {<<f, File>>} ELSE touched[j]]
  /\ UNCHANGED last

\* The write that completes it.  Over what another command has written since,
\* a shorter text leaves the end of the longer one: no JSON any more.
Write(i) ==
  LET f == open[i] IN
  /\ f # None
  /\ \/ Put(i, f, mem[i][f], mem[i][f])
     \/ disk[f] # Torn /\ Put(i, f, Torn, Empty)
  /\ open' = [open EXCEPT ![i] = None]
  /\ UNCHANGED <<cmd, pc, copy, edited>>

\* The process is killed: Ctrl-C at a prompt or in the middle of a write.
Kill(i) ==
  /\ pc[i] \notin {"new", "done", "failed", "killed"}
  /\ Goto(i, "killed")
  /\ open' = [open EXCEPT ![i] = None]
  /\ IF open[i] # None /\ disk[open[i]] = Torn
     THEN Put(i, open[i], Torn, Empty) ELSE UNCHANGED store
  /\ UNCHANGED <<cmd, copy, edited>>

At(i, label) == pc[i] = label /\ open[i] = None

\* A step of command i that edits entries of its copy of f and saves it.
Save(i, f, changes, label) ==
  /\ mem' = [mem EXCEPT ![i][f] = [k \in Keys |-> IF k \in DOMAIN changes THEN changes[k] ELSE @[k]]]
  /\ edited' = [edited EXCEPT ![i] = @ \cup {<<f, k>> : k \in DOMAIN changes}]
  /\ Truncate(i, f)
  /\ Goto(i, label)
  /\ UNCHANGED <<cmd, known, hasLocal, tornRead>>

\* A step that only goes on.
Go(i, label) == Goto(i, label) /\ UNCHANGED <<cmd, copy, open, edited, store>>
Fail(i) == Go(i, "failed")

-----------------------------------------------------------------------------
(* client.ts: what every command does first                                *)

\* client.ts:52-54.  Entries read from the file exist, for as long as the
\* process lasts; those looked up or written later do not.
Start(i) ==
  /\ pc[i] = "new"
  /\ mem' = [mem EXCEPT ![i] = [f \in Files |-> Parse(disk[f])]]
  /\ known' = [known EXCEPT ![i] = {e \in Files \X Keys : Parse(disk[e[1]])[e[2]] # None}]
  /\ hasLocal' = [hasLocal EXCEPT ![i] = disk["local"] # Absent]
  /\ tornRead' = [tornRead EXCEPT ![i] = {f \in Files : disk[f] = Torn}]
  /\ touched' = [touched EXCEPT ![i] = {}]
  /\ Goto(i, "sync")
  /\ UNCHANGED <<disk, last, cmd, open, edited>>

\* Slip: entries of files that are gone stay.
SyncKeepsStale(i) ==
  /\ At(i, "sync")
  /\ IF hasLocal[i] /\ mem[i]["global"][Local] = None
     THEN Save(i, "global", [k \in {Local} |-> i], "act") ELSE Go(i, "act")

\* client.ts:69-84: drop the registered files that are gone, add the one found.
Sync(i) ==
  /\ At(i, "sync")
  /\ LET stale == mem[i]["global"][Local] # None /\ disk["local"] = Absent
         missing == hasLocal[i] /\ (stale \/ mem[i]["global"][Local] = None)
     IN \/ /\ stale \/ missing
           /\ Save(i, "global", [k \in {Local} |-> IF missing THEN i ELSE None], "act")
        \/ ~stale /\ ~missing /\ Go(i, "act")

-----------------------------------------------------------------------------
(* The commands                                                            *)

Is(i, op) == At(i, "act") /\ cmd[i].op = op

\* resolveConfig: the local file unless there is none or --global is given.
Scope(i) == IF hasLocal[i] /\ ~cmd[i].global THEN "local" ELSE "global"
Exists(i, f, k) == <<f, k>> \in known[i]
Edit(k, v) == [x \in {k} |-> v]

\* resolveConfig 'profile': a profile that does not exist gives way to the default.
Named(i) ==
  IF Exists(i, Scope(i), P(cmd[i].profile)) THEN cmd[i].profile
  ELSE mem[i][Scope(i)][Default]

\* config set, of the relay or of anything else in a profile.
Setting(i) ==
  [k \in {P(Named(i))} \cup {R(p) : p \in {q \in {Named(i)} : cmd[i].relay}} |->
     IF k = P(Named(i)) THEN i ELSE Elsewhere]
Set(i) == Is(i, "set") /\ Save(i, Scope(i), Setting(i), "done")

\* There is an account with the active relay.
Registered(i) == Exists(i, "global", S)

\* validateProfileConfig asks for a proxy once the relay the profile names,
\* else the active one, has been found to exist.
Accepted(i, f) == mem[i][f][R(cmd[i].profile)] = None /\ Registered(i)

\* http --save.  The proxy is registered before anything is written.
Http(i) == Is(i, "http") /\ IF Accepted(i, Scope(i)) THEN Go(i, "proxy") ELSE Fail(i)
HttpAnswer(i) ==
  /\ At(i, "proxy") /\ cmd[i].op = "http"
  /\ \/ Save(i, Scope(i), Edit(P(cmd[i].profile), i), "done")
     \/ Fail(i)

\* profile delete and config delete: a confirmation, unless --force.  The
\* latter removes the file, whatever profile it is given.
NoProfile(i) == [k \in {P(cmd[i].profile), R(cmd[i].profile)} |-> None]
Erase(i) ==
  IF cmd[i].op = "delete" THEN Save(i, Scope(i), NoProfile(i), "done")
  ELSE IF disk[Scope(i)] = Absent THEN Fail(i)  \* rmSync throws
  ELSE /\ Put(i, Scope(i), Absent, Empty)
       /\ Goto(i, "done")
       /\ UNCHANGED <<cmd, copy, open, edited>>
Delete(i) ==
  /\ Is(i, "delete") \/ Is(i, "remove")
  /\ \/ Is(i, "delete") /\ ~Exists(i, Scope(i), P(cmd[i].profile)) /\ Fail(i)
     \/ /\ Is(i, "delete") => Exists(i, Scope(i), P(cmd[i].profile))
        /\ IF cmd[i].force THEN Erase(i) ELSE Go(i, "confirm")
Confirm(i) == At(i, "confirm") /\ (Erase(i) \/ Fail(i))

\* profile use, relay use.
Use(i) ==
  Is(i, "use") /\ IF Exists(i, Scope(i), P(cmd[i].profile))
                  THEN Save(i, Scope(i), Edit(Default, cmd[i].profile), "done") ELSE Fail(i)
UseRelay(i) ==
  Is(i, "relay") /\ IF Registered(i) THEN Save(i, "global", Edit(Active, Server), "done")
                    ELSE Fail(i)

\* auth: the server entry.
Auth(i) == Is(i, "auth") /\ Save(i, "global", Edit(S, i), "done")

\* register: the relay is asked unless the account exists.
Register(i) == Is(i, "register") /\ IF Registered(i) /\ ~cmd[i].force THEN Fail(i) ELSE Go(i, "account")
Account(i) == [k \in {S, Active} |-> IF k = S THEN i
                 ELSE IF mem[i]["global"][Active] = None THEN Server ELSE mem[i]["global"][Active]]
RegisterAnswer(i) ==
  /\ At(i, "account") /\ cmd[i].op = "register"
  /\ \/ Save(i, "global", Account(i), "done")
     \/ Fail(i)

\* init: the local file is removed with --force, created, then registered.
InitLocal(i) ==
  /\ Is(i, "init")
  /\ CASE ~hasLocal[i]                -> Go(i, "create")
       [] hasLocal[i] /\ (~cmd[i].force \/ disk["local"] = Absent) -> Fail(i)
       [] OTHER -> /\ Put(i, "local", Absent, Empty)
                   /\ Goto(i, "create")
                   /\ UNCHANGED <<cmd, copy, open, edited>>
Create(i, label) ==
  /\ Put(i, "local", Empty, Empty)
  /\ Goto(i, label)
  /\ UNCHANGED <<cmd, copy, open, edited>>
InitCreate(i) == At(i, "create") /\ Create(i, "register")
InitRegister(i) == At(i, "register") /\ Save(i, "global", Edit(Local, i), "done")

-----------------------------------------------------------------------------
(* setup: the wizard                                                       *)

\* Step 1: an account, from the relay if there is none; else its URL may change.
Setup(i) ==
  /\ Is(i, "setup")
  /\ \/ Go(i, IF Registered(i) THEN "location" ELSE "account")
     \/ Registered(i) /\ Save(i, "global", Edit(S, i), "location")
SetupAnswer(i) ==
  /\ At(i, "account") /\ cmd[i].op = "setup"
  /\ Save(i, "global", Account(i), "location") \/ Fail(i)

\* Step 2: where the profile goes; --global stands for the answer `no'.
SetupLocation(i) ==
  /\ At(i, "location")
  /\ IF hasLocal[i] \/ cmd[i].global THEN Go(i, "wizard") ELSE Create(i, "wizardLocal")
SetupRegister(i) == At(i, "wizardLocal") /\ Save(i, "global", Edit(Local, i), "wizardNew")

\* The file the wizard writes: the local one, found or just created.
Target(i) == IF hasLocal[i] \/ ~cmd[i].global THEN "local" ELSE "global"

\* Slip: the account is looked for in the file of the profile.
SetupProfileInTarget(i) ==
  /\ At(i, "wizard") \/ At(i, "wizardNew")
  /\ IF Accepted(i, Target(i)) /\ Exists(i, Target(i), S)
     THEN \/ Save(i, Target(i), Edit(P(cmd[i].profile), i), "done")
          \/ Go(i, "refused")
     ELSE Go(i, "rejected")

\* Steps 3 to 5: no profile is wanted, or it is validated and, when the relay
\* has answered, saved.
SetupProfile(i) ==
  /\ At(i, "wizard") \/ At(i, "wizardNew")
  /\ \/ Go(i, "done")
     \/ /\ Accepted(i, Target(i))
        /\ Save(i, Target(i), Edit(P(cmd[i].profile), i), "done") \/ Go(i, "refused")
     \/ ~Accepted(i, Target(i)) /\ Go(i, "rejected")

-----------------------------------------------------------------------------
Step(i) ==
  \/ Write(i) \/ Kill(i) \/ Start(i) \/ Sync(i)
  \/ Set(i) \/ Http(i) \/ HttpAnswer(i) \/ Delete(i) \/ Confirm(i) \/ Use(i) \/ UseRelay(i)
  \/ Auth(i) \/ Register(i) \/ RegisterAnswer(i)
  \/ InitLocal(i) \/ InitCreate(i) \/ InitRegister(i)
  \/ Setup(i) \/ SetupAnswer(i) \/ SetupLocation(i) \/ SetupRegister(i) \/ SetupProfile(i)

Next == \E i \in Ids : Step(i)

Spec == Init /\ [][Next]_vars

-----------------------------------------------------------------------------
(* Properties                                                              *)

\* Commands write whole files they read a while ago (ParsedConfig.ts:176-180).
\* What a step takes from a file is what its command was told to change, what
\* another one changed after the command had read the file, or everything:
\* when the file was removed by init --force or by config delete, could not be
\* parsed when it was read, or cannot be parsed now.  CommandConfig.ts:36 has
\* `config delete -p staging' `Delete a profile', but configDeleteCommand.ts
\* does not look at -p: the file goes with every profile in it.
SaveUndoesOnlyRecent ==
  [][\A i \in Ids : pc'[i] # pc[i] \/ open'[i] # open[i] =>
       \A f \in Files, k \in Keys : last'[f][k] # last[f][k] =>
         \/ <<f, k>> \in edited'[i] \cup touched[i]
         \/ f \in tornRead[i]
         \/ disk'[f] = Torn
         \/ disk'[f] = Absent /\ cmd[i].op \in {"remove", "init"}]_vars

\* src/CHANGELOG.md:103: `on every startup, the registry is synced
\* automatically'.  A command that starts while no other one changes anything
\* finds and leaves the registry in step with the local config file.
RegistrySynced ==
  \A i \in Ids :
    At(i, "act") /\ touched[i] = {} /\ tornRead[i] = {} =>
      (last["global"][Local] # None <=> disk["local"] # Absent)

\* The relay that the profile of command i is given in the file i writes.
NamesRelay(i) == mem[i][Target(i)][R(cmd[i].profile)] # None

\* The wizard turns away an account for two reasons only: it has registered it
\* itself a moment ago, for exists() tells what the file held when it was read,
\* or the profile to be overwritten names a relay without an account.
RejectsOnlyNewAccount ==
  \A i \in Ids : pc[i] = "rejected" => <<"global", S>> \in edited[i] \/ NamesRelay(i)

\* src/docs/setup-wizard.md:68-69: after the wizard, setup `registers the proxy
\* with the relay (validateProfileConfig)' and `saves the profile config'.
\* The first setup of a user registers an account, which validateProfileConfig
\* then does not find to exist, and ends without saving the profile.  (That of
\* a profile which names a relay without an account is turned away rightly.)
WizardSavesProfile == \A i \in Ids : pc[i] = "rejected" => NamesRelay(i)
=============================================================================
